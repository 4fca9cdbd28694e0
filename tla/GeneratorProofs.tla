-------------------------- MODULE GeneratorProofs --------------------------
(* Proofs about the generated header: every definition is complete where it   *)
(* stands, folding variants keeps their alternatives, and every type of its    *)
(* own has its serialization.                                                  *)
EXTENDS Generator, SequenceFacts

-----------------------------------------------------------------------------
(* Following a function. *)

Step(f, x) == IF x \in DOMAIN f THEN f[x] ELSE x

(* The places a path goes through. *)
Path(at, f, x, n) ==
    at = [i \in 0..n |-> IF i = 0 THEN x
                         ELSE IF at[i - 1] \in DOMAIN f THEN f[at[i - 1]] ELSE at[i - 1]]

LEMMA PathExists ==
    ASSUME NEW f, NEW x, NEW n \in Nat
    PROVE  \E at : Path(at, f, x, n)
<1> DEFINE At(h, i) == IF i = 0 THEN x
                       ELSE IF h[i - 1] \in DOMAIN f THEN f[h[i - 1]] ELSE h[i - 1]
           Has(m) == \E h : h = [i \in 0..m |-> At(h, i)]
           G == {m \in Nat : Has(m)}
<1>1. Has(0)
  <2> DEFINE g == [i \in 0..0 |-> x]
  <2>1. g = [i \in 0..0 |-> At(g, i)]
    OBVIOUS
  <2> QED BY <2>1
<1>2. ASSUME NEW m \in Nat, NEW h, h = [i \in 0..m |-> At(h, i)]
      PROVE  Has(m + 1)
  <2> DEFINE g == [i \in 0..m + 1 |-> At(h, i)]
  <2>1. ASSUME NEW i \in 0..m PROVE h[i] = g[i]
    <3>1. i \in 0..m + 1
      OBVIOUS
    <3>2. h[i] = At(h, i)
      BY <1>2
    <3> HIDE DEF At
    <3> QED BY <3>1, <3>2
  <2>2. ASSUME NEW i \in 0..m + 1 PROVE At(h, i) = At(g, i)
    <3>1. CASE i = 0
      BY <3>1
    <3>2. CASE i # 0
      <4>1. i - 1 \in 0..m
        BY <3>2
      <4>2. h[i - 1] = g[i - 1]
        BY <2>1, <4>1
      <4> HIDE DEF g
      <4> QED BY <4>2
    <3> QED BY <3>1, <3>2
  <2>3. g = [i \in 0..m + 1 |-> At(g, i)]
    <3> HIDE DEF At
    <3>1. g = [i \in 0..m + 1 |-> At(h, i)]
      OBVIOUS
    <3> HIDE DEF g
    <3> QED BY <2>2, <3>1
  <2> QED BY <2>3
<1> HIDE DEF At
<1>3. Nat \subseteq G
  <2>1. 0 \in G
    BY <1>1
  <2>2. ASSUME NEW m \in Nat, m \in G PROVE m + 1 \in G
    BY <1>2, <2>2
  <2> HIDE DEF G
  <2> QED BY <2>1, <2>2, SetInduction
<1>4. Has(n)
  BY <1>3
<1> QED BY <1>4 DEF At, Path

(* What Follow takes the last element of. *)
LEMMA FollowPath ==
    ASSUME NEW f, NEW x, NEW n \in Nat
    PROVE  \E at : /\ at[0] = x /\ Follow(f, x, n) = at[n]
                   /\ \A i \in 1..n : at[i] = Step(f, at[i - 1])
<1> DEFINE g == CHOOSE at : Path(at, f, x, n)
<1>1. Path(g, f, x, n)
  <2>1. \E at : Path(at, f, x, n)
    BY PathExists
  <2> QED BY <2>1, Zenon
<1>2. Follow(f, x, n) = g[n]
  BY Zenon DEF Follow, Path
<1> HIDE DEF g
<1>3. g[0] = x /\ \A i \in 1..n : g[i] = Step(f, g[i - 1])
  BY <1>1 DEF Path, Step
<1> QED BY <1>2, <1>3

(* No step, and one step more. *)
LEMMA FollowSteps ==
    ASSUME NEW f, NEW x
    PROVE  /\ Follow(f, x, 0) = x
           /\ \A n \in Nat : Follow(f, x, n + 1) = Step(f, Follow(f, x, n))
<1>1. Follow(f, x, 0) = x
  BY FollowPath
<1>2. ASSUME NEW n \in Nat
      PROVE  Follow(f, x, n + 1) = Step(f, Follow(f, x, n))
  <2>1. PICK a : /\ a[0] = x /\ Follow(f, x, n) = a[n]
                 /\ \A i \in 1..n : a[i] = Step(f, a[i - 1])
    BY FollowPath
  <2>2. PICK b : /\ b[0] = x /\ Follow(f, x, n + 1) = b[n + 1]
                 /\ \A i \in 1..n + 1 : b[i] = Step(f, b[i - 1])
    <3> DEFINE k == n + 1
    <3>1. k \in Nat
      OBVIOUS
    <3> HIDE DEF k
    <3>2. \E b : /\ b[0] = x /\ Follow(f, x, k) = b[k]
                 /\ \A i \in 1..k : b[i] = Step(f, b[i - 1])
      BY <3>1, FollowPath
    <3> QED BY <3>2 DEF k
  <2> DEFINE G == {i \in Nat : i <= n => a[i] = b[i]}
  <2>3. 0 \in G
    BY <2>1, <2>2
  <2>4. ASSUME NEW i \in Nat, i \in G PROVE i + 1 \in G
    <3>1. CASE i + 1 <= n
      <4>1. i + 1 \in 1..n /\ i + 1 \in 1..n + 1 /\ (i + 1) - 1 = i /\ a[i] = b[i]
        BY <2>4, <3>1
      <4> QED BY <2>1, <2>2, <4>1
    <3>2. CASE ~(i + 1 <= n)
      BY <3>2
    <3> QED BY <3>1, <3>2
  <2> HIDE DEF G
  <2>5. n \in G
    BY <2>3, <2>4, SetInduction
  <2>6. a[n] = b[n]
    BY <2>5 DEF G
  <2>7. n + 1 \in 1..n + 1 /\ (n + 1) - 1 = n
    OBVIOUS
  <2>8. b[n + 1] = Step(f, b[n])
    BY <2>2, <2>7
  <2> QED BY <2>1, <2>2, <2>6, <2>8
<1> QED BY <1>1, <1>2

(* A set a function does not leave is not left. *)
LEMMA FollowStays ==
    ASSUME NEW f, NEW P, NEW x \in P, NEW n \in Nat,
           \A y \in P : y \in DOMAIN f => f[y] \in P
    PROVE  Follow(f, x, n) \in P
<1> DEFINE G == {i \in Nat : Follow(f, x, i) \in P}
<1>1. 0 \in G
  BY FollowSteps
<1>2. ASSUME NEW i \in Nat, i \in G PROVE i + 1 \in G
  <2>1. Follow(f, x, i + 1) = Step(f, Follow(f, x, i))
    BY FollowSteps, ZenonT(60)
  <2> QED BY <1>2, <2>1 DEF Step
<1> HIDE DEF G
<1>3. n \in G
  BY <1>1, <1>2, SetInduction
<1> QED BY <1>3 DEF G

(* Functions that agree on a set they do not leave lead to the same end. *)
Agree(f, g, P) == \A y \in P : Step(f, y) = Step(g, y)

LEMMA FollowSame ==
    ASSUME NEW f, NEW g, NEW P, NEW x \in P, NEW n \in Nat,
           \A y \in P : y \in DOMAIN f => f[y] \in P,
           Agree(f, g, P)
    PROVE  Follow(f, x, n) = Follow(g, x, n)
<1> DEFINE G == {i \in Nat : Follow(f, x, i) = Follow(g, x, i)}
<1>1. 0 \in G
  BY FollowSteps
<1>2. ASSUME NEW i \in Nat, i \in G PROVE i + 1 \in G
  <2>1. Follow(f, x, i) \in P
    BY FollowStays
  <2>2. Follow(f, x, i + 1) = Step(f, Follow(f, x, i))
    BY FollowSteps, ZenonT(60)
  <2>3. Follow(g, x, i + 1) = Step(g, Follow(g, x, i))
    BY FollowSteps, ZenonT(60)
  <2> QED BY <1>2, <2>1, <2>2, <2>3 DEF Agree
<1> HIDE DEF G
<1>3. n \in G
  BY <1>1, <1>2, SetInduction
<1> QED BY <1>3 DEF G

(* The first step first. *)
LEMMA FollowFirst ==
    ASSUME NEW f, NEW x, NEW n \in Nat
    PROVE  Follow(f, x, n + 1) = Follow(f, Step(f, x), n)
<1> DEFINE G == {i \in Nat : Follow(f, x, i + 1) = Follow(f, Step(f, x), i)}
<1>1. 0 \in G
  <2>1. 0 + 1 = 1 /\ 0 \in Nat
    OBVIOUS
  <2>2. Follow(f, x, 0 + 1) = Step(f, Follow(f, x, 0))
    BY <2>1, FollowSteps
  <2>3. Follow(f, x, 0) = x /\ Follow(f, Step(f, x), 0) = Step(f, x)
    BY FollowSteps
  <2> QED BY <2>2, <2>3
<1>2. ASSUME NEW i \in Nat, i \in G PROVE i + 1 \in G
  <2>1. i + 1 \in Nat
    OBVIOUS
  <2>2. /\ Follow(f, x, (i + 1) + 1) = Step(f, Follow(f, x, i + 1))
        /\ Follow(f, Step(f, x), i + 1) = Step(f, Follow(f, Step(f, x), i))
    BY <2>1, FollowSteps, ZenonT(60)
  <2> QED BY <1>2, <2>1, <2>2
<1> HIDE DEF G
<1>3. n \in G
  BY <1>1, <1>2, SetInduction
<1> QED BY <1>3 DEF G

(* Where each step lowers a rank, the end is reached in as many steps. *)
Ranked(f, P, r) ==
    /\ \A y \in P : r[y] \in Nat
    /\ \A y \in P : y \in DOMAIN f => f[y] \in P /\ r[f[y]] < r[y]

LEMMA FollowAtEnd ==
    ASSUME NEW f, NEW x, x \notin DOMAIN f, NEW n \in Nat
    PROVE  Follow(f, x, n) = x
<1> DEFINE G == {i \in Nat : Follow(f, x, i) = x}
<1>1. 0 \in G
  BY FollowSteps
<1>2. ASSUME NEW i \in Nat, i \in G PROVE i + 1 \in G
  <2>1. Follow(f, x, i) = x
    BY <1>2
  <2>2. Follow(f, x, i + 1) = Step(f, Follow(f, x, i))
    BY <1>2, FollowSteps, ZenonT(60)
  <2>3. Step(f, x) = x
    BY DEF Step
  <2>4. i + 1 \in Nat
    OBVIOUS
  <2> QED BY <2>1, <2>2, <2>3, <2>4
<1> HIDE DEF G
<1>3. n \in G
  BY <1>1, <1>2, SetInduction
<1> QED BY <1>3 DEF G

LEMMA FollowSettles ==
    ASSUME NEW f, NEW P, NEW r, Ranked(f, P, r), NEW x \in P, NEW n \in Nat, r[x] <= n
    PROVE  Follow(f, x, n) \notin DOMAIN f
<1> DEFINE G == {i \in Nat : \A y \in P : r[y] <= i => Follow(f, y, i) \notin DOMAIN f}
<1>1. 0 \in G
  <2> SUFFICES ASSUME NEW y \in P, r[y] <= 0 PROVE Follow(f, y, 0) \notin DOMAIN f
    OBVIOUS
  <2>1. y \notin DOMAIN f
    BY DEF Ranked
  <2> QED BY <2>1, FollowSteps
<1>2. ASSUME NEW i \in Nat, i \in G PROVE i + 1 \in G
  <2> SUFFICES ASSUME NEW y \in P, r[y] <= i + 1 PROVE Follow(f, y, i + 1) \notin DOMAIN f
    OBVIOUS
  <2>1. CASE y \notin DOMAIN f
    <3>1. i + 1 \in Nat
      OBVIOUS
    <3> QED BY <2>1, <3>1, FollowAtEnd
  <2>2. CASE y \in DOMAIN f
    <3>1. f[y] \in P /\ r[f[y]] <= i
      BY <2>2 DEF Ranked
    <3>2. Follow(f, y, i + 1) = Follow(f, f[y], i)
      BY <2>2, FollowFirst DEF Step
    <3> QED BY <1>2, <3>1, <3>2
  <2> QED BY <2>1, <2>2
<1> HIDE DEF G
<1>3. n \in G
  BY <1>1, <1>2, SetInduction
<1> QED BY <1>3 DEF G

(* The path from x ends where the path from its successor does. *)
LEMMA FollowUnfolds ==
    ASSUME NEW f, NEW P, NEW r, Ranked(f, P, r), NEW x \in P, NEW n \in Nat, r[x] <= n
    PROVE  Follow(f, x, n) = IF x \in DOMAIN f THEN Follow(f, f[x], n) ELSE x
<1>1. CASE x \notin DOMAIN f
  BY <1>1, FollowAtEnd
<1>2. CASE x \in DOMAIN f
  <2>1. f[x] \in P /\ r[f[x]] <= n - 1 /\ n - 1 \in Nat /\ (n - 1) + 1 = n
    BY <1>2 DEF Ranked
  <2>2. Follow(f, f[x], n - 1) \notin DOMAIN f
    BY <2>1, FollowSettles
  <2>3. Follow(f, x, n) = Follow(f, f[x], n - 1)
    BY <1>2, <2>1, FollowFirst DEF Step
  <2>4. Follow(f, f[x], n) = Step(f, Follow(f, f[x], n - 1))
    <3>1. Follow(f, f[x], (n - 1) + 1) = Step(f, Follow(f, f[x], n - 1))
      BY <2>1, FollowSteps
    <3> QED BY <2>1, <3>1
  <2> QED BY <1>2, <2>2, <2>3, <2>4 DEF Step
<1> QED BY <1>1, <1>2

-----------------------------------------------------------------------------
(* Types whose definition may stand at a place of the order. *)

ValidAST(types) == ASTOK(types) /\ validate(types) = {}

Plain(name) == Cpp(FALSE, name)
IsCpp(x) == x.vec \in BOOLEAN /\ x = Cpp(x.vec, x.name)

\* What comes before place i.
Upto(ord, i) == {ord[j] : j \in 1..i - 1}

\* cpp is defined before place i, or needs no definition.
Before(types, ord, cpp, i) ==
    /\ IsCpp(cpp)
    /\ IF cpp.name \in DOMAIN types THEN cpp.name \in Upto(ord, i)
       ELSE cpp.vec \/ cpp.name \in Builtin

(* The four kinds of types. *)
LEMMA Kinds ==
    ASSUME NEW types, ASTOK(types), NEW n \in DOMAIN types
    PROVE  \/ types[n].k = "struct" /\ types[n] \in StructType
           \/ types[n].k = "variant" /\ types[n] \in VariantType
           \/ types[n].k = "array" /\ types[n] \in ArrayType
           \/ types[n].k = "prim" /\ types[n] \in PrimitiveType
<1>1. types[n] \in StructType \cup VariantType \cup ArrayType \cup PrimitiveType
  BY DEF ASTOK
<1> QED BY <1>1 DEF StructType, VariantType, ArrayType, PrimitiveType

LEMMA SeqMember ==
    ASSUME NEW S, NEW s \in Seq(S), NEW i \in DOMAIN s
    PROVE  s[i] \in S
OBVIOUS

(* The references of a type are TypeRefs. *)
LEMMA RefsAreRefs ==
    ASSUME NEW types, ASTOK(types), NEW n \in DOMAIN types, NEW ref \in TypeRefs(types[n])
    PROVE  ref \in TypeRef
<1>1. CASE types[n].k = "struct" /\ types[n] \in StructType
  <2>1. PICK i \in DOMAIN types[n].fields : ref = types[n].fields[i].type
    BY <1>1 DEF TypeRefs
  <2>2. types[n].fields \in Seq([name : Name, type : TypeRef])
    BY <1>1 DEF StructType
  <2>3. types[n].fields[i] \in [name : Name, type : TypeRef]
    BY <2>1, <2>2, SeqMember
  <2> QED BY <2>1, <2>3
<1>2. CASE types[n].k = "variant" /\ types[n] \in VariantType
  <2>1. PICK i \in DOMAIN types[n].alts : ref = types[n].alts[i]
    BY <1>2 DEF TypeRefs, ToSet
  <2>2. types[n].alts \in Seq(TypeRef)
    BY <1>2 DEF VariantType
  <2> QED BY <2>1, <2>2
<1>3. CASE types[n].k = "array" /\ types[n] \in ArrayType
  BY <1>3 DEF TypeRefs, ArrayType
<1>4. CASE types[n].k = "prim" /\ types[n] \in PrimitiveType
  BY <1>4 DEF TypeRefs
<1> QED BY <1>1, <1>2, <1>3, <1>4, Kinds

(* Where a type may be defined, so may whatever it refers to be used. *)
LEMMA RefBefore ==
    ASSUME NEW types, ValidAST(types), NEW n \in DOMAIN types, NEW ref \in TypeRefs(types[n]),
           NEW ord, NEW i, Dependencies(types, n) \subseteq Upto(ord, i)
    PROVE  Before(types, ord, ref.cpp, i)
<1>1. ref \in TypeRef
  BY RefsAreRefs DEF ValidAST
<1>2. IsCpp(ref.cpp) /\ ref.inline \in BOOLEAN
  BY <1>1 DEF TypeRef, CppType, Cpp, IsCpp
<1>3. CASE ref.cpp.name \in DOMAIN types
  <2>1. ref.cpp.name \in Dependencies(types, n)
    BY <1>3 DEF Dependencies
  <2> QED BY <1>2, <1>3, <2>1 DEF Before
<1>4. CASE ref.cpp.name \notin DOMAIN types
  <2>1. ref.inline
    BY <1>4 DEF ValidAST, validate
  <2>2. ref.cpp.vec \/ ref.cpp.name \in Builtin
    BY <1>4, <2>1 DEF ValidAST, ASTOK
  <2> QED BY <1>2, <1>4, <2>2 DEF Before
<1> QED BY <1>3, <1>4

(* A type may still be used further on. *)
LEMMA BeforeLater ==
    ASSUME NEW types, NEW ord, NEW cpp, NEW i \in Nat, NEW k \in Nat, i <= k,
           Before(types, ord, cpp, i)
    PROVE  Before(types, ord, cpp, k)
<1>1. Upto(ord, i) \subseteq Upto(ord, k)
  BY DEF Upto
<1> QED BY <1>1 DEF Before

-----------------------------------------------------------------------------
(* Typedef chains. *)

\* The order: each type once, after those it depends on.
OrderOK(types, ord) ==
    /\ ord \in Seq(DOMAIN types)
    /\ \A i, j \in DOMAIN ord : ord[i] = ord[j] => i = j
    /\ \A i \in DOMAIN ord : Dependencies(types, ord[i]) \subseteq Upto(ord, i)

\* Chains lead from emitted variants to types defined before them.
ChainOK(types, ord, chain) ==
    /\ \A x \in DOMAIN chain : \E i \in DOMAIN ord : /\ x = Plain(ord[i])
                                                 /\ types[ord[i]].k = "variant"
    /\ \A i \in DOMAIN ord : Plain(ord[i]) \in DOMAIN chain =>
           Before(types, ord, chain[Plain(ord[i])], i)

Settled(types, ord, chain) ==
    ValidAST(types) /\ OrderOK(types, ord) /\ ChainOK(types, ord, chain)

LEMMA OrderFacts ==
    ASSUME NEW types, NEW ord, OrderOK(types, ord)
    PROVE  /\ IsList(ord) /\ Len(ord) \in Nat /\ DOMAIN ord = 1..Len(ord)
           /\ ToSet(ord) = Upto(ord, Len(ord) + 1)
           /\ \A i \in DOMAIN ord : ord[i] \in DOMAIN types
<1>1. ord \in Seq(DOMAIN types)
  BY DEF OrderOK
<1>2. IsList(ord) /\ Len(ord) \in Nat /\ DOMAIN ord = 1..Len(ord)
  BY <1>1, SeqIsList, ListFacts
<1>3. (Len(ord) + 1) - 1 = Len(ord)
  BY <1>2
<1>4. ToSet(ord) = Upto(ord, Len(ord) + 1)
  BY <1>2, <1>3 DEF ToSet, Upto
<1> QED BY <1>1, <1>2, <1>4

(* Names before place i of the order have an earlier place, and only one. *)
LEMMA PlaceBefore ==
    ASSUME NEW types, NEW ord, OrderOK(types, ord), NEW i \in 1..Len(ord) + 1,
           NEW k \in DOMAIN ord, ord[k] \in Upto(ord, i)
    PROVE  k < i
<1>1. Len(ord) \in Nat /\ DOMAIN ord = 1..Len(ord)
  BY OrderFacts
<1>2. PICK j \in 1..i - 1 : ord[k] = ord[j]
  BY DEF Upto
<1>3. j \in DOMAIN ord /\ j < i
  BY <1>1, <1>2
<1> QED BY <1>2, <1>3 DEF OrderOK

(* From a type that may be used at place i a chain leads to another one. *)
LEMMA ChainStep ==
    ASSUME NEW types, NEW ord, NEW chain, Settled(types, ord, chain),
           NEW i \in 1..Len(ord) + 1, NEW x, Before(types, ord, x, i), x \in DOMAIN chain
    PROVE  /\ Before(types, ord, chain[x], i)
           /\ \E k \in DOMAIN ord : /\ x = Plain(ord[k]) /\ k < i
                                  /\ Before(types, ord, chain[x], k)
<1>1. Len(ord) \in Nat /\ DOMAIN ord = 1..Len(ord) /\ \A k \in DOMAIN ord : ord[k] \in DOMAIN types
  BY OrderFacts DEF Settled
<1>2. PICK k \in DOMAIN ord : x = Plain(ord[k])
  BY DEF Settled, ChainOK
<1>3. x.name = ord[k] /\ x.name \in DOMAIN types
  BY <1>1, <1>2 DEF Plain, Cpp
<1>4. ord[k] \in Upto(ord, i)
  BY <1>3 DEF Before
<1>5. k < i
  BY <1>4, PlaceBefore DEF Settled
<1>6. Before(types, ord, chain[x], k)
  BY <1>2 DEF Settled, ChainOK
<1>7. Before(types, ord, chain[x], i)
  BY <1>1, <1>5, <1>6, BeforeLater
<1> QED BY <1>2, <1>5, <1>6, <1>7

LEMMA ChainEndBefore ==
    ASSUME NEW types, NEW ord, NEW chain, Settled(types, ord, chain),
           NEW i \in 1..Len(ord) + 1, NEW x, Before(types, ord, x, i)
    PROVE  Before(types, ord, chainEnd(types, chain, x), i)
<1> DEFINE P == {y \in {x} \cup DOMAIN chain \cup {chain[z] : z \in DOMAIN chain} :
                     Before(types, ord, y, i)}
           n == Cardinality(DOMAIN types)
<1>1. n \in Nat
  BY FS_CardinalityType DEF Settled, ValidAST, ASTOK
<1>2. x \in P
  OBVIOUS
<1>3. \A y \in P : y \in DOMAIN chain => chain[y] \in P
  <2>1. ASSUME NEW y \in P, y \in DOMAIN chain PROVE Before(types, ord, chain[y], i)
    BY <2>1, ChainStep
  <2> QED BY <2>1
<1> HIDE DEF P, n
<1>4. Follow(chain, x, n) \in P
  BY <1>1, <1>2, <1>3, FollowStays
<1> QED BY <1>4 DEF chainEnd, P, n
-----------------------------------------------------------------------------
(* Resolving a type's name. *)

(* The alternatives of a variant are references of it. *)
LEMMA Alternatives ==
    ASSUME NEW types, ASTOK(types), NEW n \in DOMAIN types, types[n].k = "variant"
    PROVE  /\ types[n].alts \in Seq(TypeRef) /\ types[n].name = n
           /\ Len(types[n].alts) \in Nat \ {0} /\ DOMAIN types[n].alts = 1..Len(types[n].alts)
           /\ TypeRefs(types[n]) = ToSet(types[n].alts)
           /\ Len(types[n].alts) = 1 => ToSet(types[n].alts) = {types[n].alts[1]}
<1>1. types[n] \in VariantType
  BY Kinds
<1>2. types[n].alts \in Seq(TypeRef) /\ types[n].name = n /\ types[n].alts # <<>>
  BY <1>1 DEF VariantType, ASTOK
<1>3. IsList(types[n].alts)
  BY <1>2, SeqIsList
<1>4. /\ Len(types[n].alts) \in Nat /\ DOMAIN types[n].alts = 1..Len(types[n].alts)
      /\ Len(types[n].alts) # 0
  BY <1>2, <1>3, ListFacts, SmallLists
<1>5. TypeRefs(types[n]) = ToSet(types[n].alts)
  BY DEF TypeRefs
<1>6. Len(types[n].alts) = 1 => ToSet(types[n].alts) = {types[n].alts[1]}
  BY <1>4 DEF ToSet
<1> QED BY <1>2, <1>4, <1>5, <1>6

\* A name that forwards stands for the only alternative of a variant, a $ref.
Lone(types, v, alt) ==
    /\ v \in DOMAIN types /\ types[v].k = "variant" /\ Len(types[v].alts) = 1
    /\ alt = types[v].alts[1]

LEMMA LoneBefore ==
    ASSUME NEW types, NEW ord, ValidAST(types), OrderOK(types, ord), NEW k \in DOMAIN ord,
           NEW alt, Lone(types, ord[k], alt)
    PROVE  /\ alt \in TypeRef /\ alt \in TypeRefs(types[ord[k]])
           /\ Before(types, ord, alt.cpp, k)
           /\ ~alt.inline => /\ alt.cpp = Plain(alt.cpp.name)
                            /\ alt.cpp.name \in DOMAIN types
                            /\ alt.cpp.name \in Upto(ord, k)
<1>1. ASTOK(types) /\ ord[k] \in DOMAIN types
  BY DEF ValidAST, Lone
<1>2. alt \in TypeRefs(types[ord[k]])
  BY <1>1, Alternatives DEF Lone
<1>3. Before(types, ord, alt.cpp, k)
  BY <1>1, <1>2, RefBefore DEF OrderOK
<1>4. alt \in TypeRef
  BY <1>1, <1>2, RefsAreRefs
<1>5. ASSUME ~alt.inline
      PROVE  /\ alt.cpp = Plain(alt.cpp.name) /\ alt.cpp.name \in DOMAIN types
             /\ alt.cpp.name \in Upto(ord, k)
  <2>1. ~alt.cpp.vec
    BY <1>1, <1>2, <1>5 DEF ASTOK
  <2>2. IsCpp(alt.cpp)
    BY <1>3 DEF Before
  <2>3. alt.cpp = Plain(alt.cpp.name)
    BY <2>1, <2>2 DEF IsCpp, Plain
  <2>4. alt.cpp.name \in DOMAIN types
    BY <1>1, <1>2, <1>5 DEF ValidAST, validate
  <2> QED BY <1>3, <2>3, <2>4 DEF Before
<1> QED BY <1>2, <1>3, <1>4, <1>5

\* The type at the end of the chain from a name.
EndOf(types, chain, name) == chainEnd(types, chain, Plain(name))

LEMMA NameBefore ==
    ASSUME NEW types, NEW ord, ValidAST(types), OrderOK(types, ord),
           NEW i \in 1..Len(ord) + 1, NEW name \in Upto(ord, i)
    PROVE  Before(types, ord, Plain(name), i) /\ name \in DOMAIN types
<1>1. Len(ord) \in Nat /\ DOMAIN ord = 1..Len(ord)
  BY OrderFacts
<1>2. PICK j \in 1..i - 1 : name = ord[j]
  BY DEF Upto
<1>3. j \in DOMAIN ord
  BY <1>1, <1>2
<1>4. name \in DOMAIN types
  BY <1>2, <1>3, OrderFacts
<1> QED BY <1>4 DEF Before, Plain, Cpp, IsCpp

(* A type of the AST that may be used is in the order. *)
Used(types, ord, x, i) ==
    /\ i \in 1..Len(ord) + 1 /\ OrderOK(types, ord) /\ Before(types, ord, x, i)
    /\ ~x.vec /\ x.name \in DOMAIN types

LEMMA UsedIsOrdered ==
    ASSUME NEW types, NEW ord, NEW i, NEW x, Used(types, ord, x, i)
    PROVE  \E k \in DOMAIN ord : k < i /\ x = Plain(ord[k])
<1> USE DEF Used
<1>1. Len(ord) \in Nat /\ DOMAIN ord = 1..Len(ord)
  BY OrderFacts
<1>2. PICK k \in 1..i - 1 : x.name = ord[k]
  BY DEF Before, Upto
<1>3. x = Plain(ord[k])
  BY <1>2 DEF Before, IsCpp, Plain
<1>4. k \in DOMAIN ord /\ k < i
  BY <1>1, <1>2
<1> QED BY <1>3, <1>4

\* A name forwards to the alternative alt of the variant at place k.
ForwardsTo(types, ord, chain, name, k, alt) ==
    /\ EndOf(types, chain, name) = Plain(ord[k])
    /\ Lone(types, ord[k], alt) /\ ~alt.inline
    /\ forward(types, chain)[name] = alt.cpp.name
    /\ alt.cpp.name \in Upto(ord, k)

LEMMA ForwardStep ==
    ASSUME NEW types, NEW ord, NEW chain, Settled(types, ord, chain),
           NEW i \in 1..Len(ord) + 1, NEW name \in Upto(ord, i), name \in DOMAIN forward(types, chain)
    PROVE  \E k \in DOMAIN ord : \E alt : k < i /\ ForwardsTo(types, ord, chain, name, k, alt)
<1> DEFINE x == EndOf(types, chain, name)
<1>1. ValidAST(types) /\ OrderOK(types, ord)
  BY DEF Settled
<1>2. Before(types, ord, Plain(name), i)
  BY <1>1, NameBefore
<1>3. Before(types, ord, x, i)
  BY <1>2, ChainEndBefore DEF EndOf
<1>4. name \in DOMAIN types /\ Forwards(types, chain, name)
  BY DEF forward
<1>5. /\ ~x.vec /\ x.name \in DOMAIN types /\ types[x.name].k = "variant"
      /\ Len(types[x.name].alts) = 1 /\ ~types[x.name].alts[1].inline
  BY <1>4 DEF Forwards, EndOf, Plain
<1>6. forward(types, chain)[name] = types[x.name].alts[1].cpp.name
  BY <1>4 DEF forward, EndOf, Plain
<1> HIDE DEF x
<1>7. PICK k \in DOMAIN ord : k < i /\ x = Plain(ord[k])
  <2>1. Used(types, ord, x, i)
    BY <1>1, <1>3, <1>5 DEF Used
  <2> QED BY <2>1, UsedIsOrdered
<1>8. x.name = ord[k]
  BY <1>7 DEF Plain, Cpp
<1> DEFINE alt == types[ord[k]].alts[1]
<1>9. Lone(types, ord[k], alt) /\ ~alt.inline
  BY <1>5, <1>8 DEF Lone
<1>10. forward(types, chain)[name] = alt.cpp.name
  BY <1>6, <1>8
<1> HIDE DEF alt
<1>11. alt.cpp.name \in Upto(ord, k)
  BY <1>1, <1>9, LoneBefore
<1> QED BY <1>7, <1>9, <1>10, <1>11 DEF x, ForwardsTo

(* The name resolved last. *)
LastName(types, chain, name) ==
    Follow(forward(types, chain), name, Cardinality(DOMAIN types))

LEMMA LastBefore ==
    ASSUME NEW types, NEW ord, NEW chain, Settled(types, ord, chain),
           NEW i \in 1..Len(ord) + 1, NEW name \in Upto(ord, i)
    PROVE  /\ LastName(types, chain, name) \in Upto(ord, i)
           /\ Before(types, ord, EndOf(types, chain, LastName(types, chain, name)), i)
<1> DEFINE P == Upto(ord, i)
           n == Cardinality(DOMAIN types)
           f == forward(types, chain)
<1>1. n \in Nat
  BY FS_CardinalityType DEF Settled, ValidAST, ASTOK
<1>2. \A y \in P : y \in DOMAIN f => f[y] \in P
  <2> SUFFICES ASSUME NEW y \in P, y \in DOMAIN f PROVE f[y] \in P
    OBVIOUS
  <2> HIDE DEF f
  <2>0. y \in Upto(ord, i) /\ y \in DOMAIN forward(types, chain)
    BY DEF f
  <2>1. PICK k \in DOMAIN ord : \E alt : k < i /\ ForwardsTo(types, ord, chain, y, k, alt)
    BY <2>0, ForwardStep
  <2>2. Len(ord) \in Nat /\ DOMAIN ord = 1..Len(ord)
    BY OrderFacts DEF Settled
  <2> QED BY <2>1, <2>2, SMTT(30) DEF Upto, f, ForwardsTo
<1> HIDE DEF P, n, f
<1>3. name \in P
  BY DEF P
<1>4. Follow(f, name, n) \in P
  BY <1>1, <1>2, <1>3, FollowStays
<1>5. LastName(types, chain, name) \in Upto(ord, i)
  BY <1>4 DEF LastName, P, n, f
<1>6. Before(types, ord, Plain(LastName(types, chain, name)), i)
  BY <1>5, NameBefore DEF Settled
<1> QED BY <1>5, <1>6, ChainEndBefore DEF EndOf

\* What a resolved name becomes, given the type at the end of its chain.
Resolved(types, x) ==
    IF x.vec \/ x.name \notin DOMAIN types THEN x
    ELSE IF types[x.name].k = "prim" /\ ~types[x.name].enum THEN String
    ELSE IF types[x.name].k = "variant" /\ Len(types[x.name].alts) = 1
         THEN types[x.name].alts[1].cpp ELSE x

LEMMA ResolveIs ==
    ASSUME NEW types, NEW chain, NEW name
    PROVE  resolveTypeName(types, chain, name) =
             Resolved(types, EndOf(types, chain, LastName(types, chain, name)))
<1> DEFINE x == EndOf(types, chain, LastName(types, chain, name))
<1>1. resolveTypeName(types, chain, name) =
        IF x.vec \/ x.name \notin DOMAIN types THEN x
        ELSE CASE types[x.name].k = "prim" /\ ~types[x.name].enum -> String
               [] types[x.name].k = "variant" /\ Len(types[x.name].alts) = 1 ->
                    types[x.name].alts[1].cpp
               [] OTHER -> x
  BY DEF resolveTypeName, EndOf, LastName, Plain
<1> HIDE DEF x
<1>2. resolveTypeName(types, chain, name) = Resolved(types, x)
  BY <1>1 DEF Resolved
<1> QED BY <1>2 DEF x

(* What a name is resolved to may be used where the name may be. *)
LEMMA ResolveBefore ==
    ASSUME NEW types, NEW ord, NEW chain, Settled(types, ord, chain),
           NEW i \in 1..Len(ord) + 1, NEW name \in Upto(ord, i)
    PROVE  Before(types, ord, resolveTypeName(types, chain, name), i)
<1> DEFINE x == EndOf(types, chain, LastName(types, chain, name))
<1>1. Before(types, ord, x, i)
  BY LastBefore
<1>2. resolveTypeName(types, chain, name) = Resolved(types, x)
  BY ResolveIs
<1> HIDE DEF x
<1>3. CASE Resolved(types, x) = x
  BY <1>1, <1>2, <1>3
<1>4. CASE Resolved(types, x) = String
  <2>1. IsCpp(String)
    BY DEF String, Cpp, IsCpp
  <2>2. String.name \notin DOMAIN types /\ String.name \in Builtin
    BY DEF Settled, ValidAST, ASTOK, String, Cpp, Builtin, Primitives
  <2> QED BY <1>2, <1>4, <2>1, <2>2 DEF Before
<1>5. CASE /\ ~x.vec /\ x.name \in DOMAIN types /\ types[x.name].k = "variant"
           /\ Len(types[x.name].alts) = 1 /\ Resolved(types, x) = types[x.name].alts[1].cpp
  <2>1. PICK k \in DOMAIN ord : k < i /\ x = Plain(ord[k])
    <3>1. Used(types, ord, x, i)
      BY <1>1, <1>5 DEF Used, Settled
    <3> QED BY <3>1, UsedIsOrdered
  <2>2. x.name = ord[k]
    BY <2>1 DEF Plain, Cpp
  <2> DEFINE alt == types[ord[k]].alts[1]
  <2>3. Lone(types, ord[k], alt)
    BY <1>5, <2>2 DEF Lone
  <2>4. Resolved(types, x) = alt.cpp
    BY <1>5, <2>2
  <2> HIDE DEF alt
  <2>5. Before(types, ord, alt.cpp, k)
    BY <2>3, LoneBefore DEF Settled
  <2>6. Len(ord) \in Nat /\ DOMAIN ord = 1..Len(ord)
    BY OrderFacts DEF Settled
  <2>7. Before(types, ord, alt.cpp, i)
    BY <2>1, <2>5, <2>6, BeforeLater
  <2> QED BY <1>2, <2>4, <2>7
<1> QED BY <1>3, <1>4, <1>5 DEF Resolved

(* The distinct alternatives of a variant may be used where it is defined. *)
LEMMA ProcessedBefore ==
    ASSUME NEW types, NEW ord, NEW chain, Settled(types, ord, chain),
           NEW i \in 1..Len(ord) + 1, NEW n \in DOMAIN types, types[n].k = "variant",
           Dependencies(types, n) \subseteq Upto(ord, i),
           NEW cpp \in processVariantAlternatives(types, chain, types[n])
    PROVE  Before(types, ord, cpp, i)
<1>1. PICK alt \in ToSet(types[n].alts) :
        cpp = IF alt.inline THEN alt.cpp ELSE resolveTypeName(types, chain, alt.cpp.name)
  BY DEF processVariantAlternatives
<1>2. alt \in TypeRefs(types[n])
  BY DEF TypeRefs
<1>3. Before(types, ord, alt.cpp, i)
  BY <1>2, RefBefore DEF Settled
<1>4. CASE alt.inline
  BY <1>1, <1>3, <1>4
<1>5. CASE ~alt.inline
  <2>1. alt.cpp.name \in DOMAIN types
    BY <1>2, <1>5 DEF Settled, ValidAST, validate
  <2>2. alt.cpp.name \in Upto(ord, i)
    BY <1>3, <2>1 DEF Before
  <2> QED BY <1>1, <1>5, <2>2, ResolveBefore
<1> QED BY <1>4, <1>5
-----------------------------------------------------------------------------
(* Emitting one type. *)

(* A map with one more value. *)
LEMMA Inserted ==
    ASSUME NEW f, NEW x, NEW y, NEW g, g = Insert(f, x, y)
    PROVE  /\ DOMAIN g = DOMAIN f \cup {x} /\ g[x] = y
           /\ \A z \in DOMAIN f : z # x => g[z] = f[z]
BY DEF Insert

\* emitVariant makes v an alias of target, or a variant of its own.
Folds(name, s, st, line, st2, target) ==
    /\ line = Alias(name, target)
    /\ st2.chain = Insert(st.chain, Plain(name), target)
    /\ \/ /\ s \in DOMAIN st.signatures /\ target = st.signatures[s]
          /\ st2.signatures = st.signatures
       \/ /\ s \notin DOMAIN st.signatures /\ Len(s) = 1 /\ target = s[1]
          /\ st2.signatures = Insert(st.signatures, s, Plain(name))
Stands(name, s, st, line, st2) ==
    /\ line = [def |-> "variant", name |-> name, alts |-> ToSet(s)]
    /\ st2.chain = st.chain
    /\ s \notin DOMAIN st.signatures /\ Len(s) # 1
    /\ st2.signatures = Insert(st.signatures, s, Plain(name))

IsEmitState(st) == st = [signatures |-> st.signatures, chain |-> st.chain]

LEMMA EmitVariantIs ==
    ASSUME NEW v, NEW s, NEW st, IsEmitState(st), NEW r, r = emitVariant(v, s, st)
    PROVE  /\ IsEmitState(r.state)
           /\ \/ \E target : Folds(v.name, s, st, r.def, r.state, target)
              \/ Stands(v.name, s, st, r.def, r.state)
<1> DEFINE sigs == Insert(st.signatures, s, Plain(v.name))
           aliasOf(target, ss) == [def |-> Alias(v.name, target),
                                   state |-> [signatures |-> ss,
                                              chain |-> Insert(st.chain, Plain(v.name), target)]]
<1>1. CASE s \in DOMAIN st.signatures
  <2>1. r = aliasOf(st.signatures[s], st.signatures)
    BY <1>1 DEF emitVariant, Plain
  <2>2. r.def = Alias(v.name, st.signatures[s]) /\ IsEmitState(r.state)
    BY <2>1 DEF IsEmitState
  <2>3. /\ r.state.signatures = st.signatures
        /\ r.state.chain = Insert(st.chain, Plain(v.name), st.signatures[s])
    BY <2>1
  <2>4. Folds(v.name, s, st, r.def, r.state, st.signatures[s])
    BY <1>1, <2>2, <2>3 DEF Folds
  <2> QED BY <2>2, <2>4
<1>2. CASE s \notin DOMAIN st.signatures /\ Len(s) = 1
  <2>1. r = aliasOf(s[1], sigs)
    BY <1>2 DEF emitVariant, Plain
  <2>2. r.def = Alias(v.name, s[1]) /\ IsEmitState(r.state)
    BY <2>1 DEF IsEmitState
  <2>3. r.state.signatures = sigs /\ r.state.chain = Insert(st.chain, Plain(v.name), s[1])
    BY <2>1
  <2>4. Folds(v.name, s, st, r.def, r.state, s[1])
    BY <1>2, <2>2, <2>3 DEF Folds
  <2> QED BY <2>2, <2>4
<1>3. CASE s \notin DOMAIN st.signatures /\ Len(s) # 1
  <2> HIDE DEF sigs
  <2>1. /\ r.def = [def |-> "variant", name |-> v.name, alts |-> ToSet(s)]
        /\ r.state = [st EXCEPT !.signatures = sigs]
    BY <1>3 DEF emitVariant, Plain, sigs
  <2>2. r.state.signatures = sigs /\ r.state.chain = st.chain /\ IsEmitState(r.state)
    BY <2>1 DEF IsEmitState
  <2> QED BY <1>3, <2>1, <2>2 DEF Stands, sigs
<1> QED BY <1>1, <1>2, <1>3

(* The sequences of a set's elements. *)
LEMMA SeqsOfSet ==
    ASSUME NEW S, IsFiniteSet(S), NEW s \in SetToSeqs(S)
    PROVE  IsList(s) /\ Len(s) = Cardinality(S) /\ ToSet(s) = S
<1> DEFINE D == 1..Cardinality(S)
<1>1. Cardinality(S) \in Nat
  BY FS_CardinalityType
<1>2. s \in [D -> S] /\ \A i, j \in D : i # j => s[i] # s[j]
  BY DEF SetToSeqs
<1>3. IsList(s) /\ Len(s) = Cardinality(S) /\ DOMAIN s = D
  BY <1>1, <1>2, FunctionIsList
<1>4. s \in Injection(D, S)
  BY <1>2 DEF Injection, IsInjective
<1>5. IsFiniteSet(D) /\ Cardinality(D) = Cardinality(S)
  BY <1>1, FS_Interval
<1> HIDE DEF D
<1>6. s \in Surjection(D, S)
  BY <1>4, <1>5, FS_Injection
<1>7. ToSet(s) = S
  BY <1>2, <1>3, <1>6 DEF Surjection, ToSet
<1> QED BY <1>3, <1>7

(* A variant has finitely many alternatives. *)
LEMMA ProcessedFinite ==
    ASSUME NEW types, ASTOK(types), NEW n \in DOMAIN types, types[n].k = "variant", NEW chain
    PROVE  IsFiniteSet(processVariantAlternatives(types, chain, types[n]))
<1>1. Len(types[n].alts) \in Nat /\ DOMAIN types[n].alts = 1..Len(types[n].alts)
  BY Alternatives
<1> DEFINE alts == types[n].alts
           D == 1..Len(alts)
           P == processVariantAlternatives(types, chain, types[n])
           g == [j \in D |-> IF alts[j].inline THEN alts[j].cpp
                             ELSE resolveTypeName(types, chain, alts[j].cpp.name)]
<1>2. IsFiniteSet(D)
  <2>1. 1 \in Int /\ Len(alts) \in Int
    BY <1>1
  <2> HIDE DEF alts
  <2> QED BY <2>1, FS_Interval
<1>3. P = {g[j] : j \in D}
  BY <1>1 DEF processVariantAlternatives, ToSet
<1>4. DOMAIN g = D /\ g = [j \in D |-> g[j]]
  OBVIOUS
<1> HIDE DEF g, P, D
<1>5. g \in Surjection(D, P)
  BY <1>3, <1>4 DEF Surjection
<1> QED BY <1>2, <1>5, FS_Surjection DEF P
-----------------------------------------------------------------------------
(* The header grows by one definition. *)

\* The type n may come next.
MayFollow(types, ord, n) ==
    /\ OrderOK(types, ord)
    /\ n \in DOMAIN types \ ToSet(ord) /\ Dependencies(types, n) \subseteq ToSet(ord)

(* A list with one more element. *)
LEMMA ListGrows ==
    ASSUME NEW s, IsList(s), NEW x
    PROVE  /\ IsList(Append(s, x)) /\ Len(Append(s, x)) = Len(s) + 1
           /\ \A i \in 1..Len(s) : Append(s, x)[i] = s[i]
           /\ Append(s, x)[Len(s) + 1] = x
<1> DEFINE t == Append(s, x)
<1>1. IsList(t)
  BY AppendFacts, ZenonT(60)
<1>2. Len(t) = Len(s) + 1
  BY AppendFacts, ZenonT(60)
<1>3. \A i \in 1..Len(s) : t[i] = s[i]
  BY AppendFacts, ZenonT(60)
<1>4. t[Len(s) + 1] = x
  BY AppendFacts, ZenonT(60)
<1> HIDE DEF t
<1> QED BY <1>1, <1>2, <1>3, <1>4 DEF t

LEMMA AppendedOrder ==
    ASSUME NEW types, NEW ord, NEW n, MayFollow(types, ord, n)
    PROVE  /\ Len(ord) \in Nat /\ DOMAIN ord = 1..Len(ord)
           /\ Len(Append(ord, n)) = Len(ord) + 1
           /\ DOMAIN Append(ord, n) = 1..Len(ord) + 1
           /\ \A i \in 1..Len(ord) : Append(ord, n)[i] = ord[i]
           /\ Append(ord, n)[Len(ord) + 1] = n
           /\ \A i \in 1..Len(ord) + 1 : Upto(Append(ord, n), i) = Upto(ord, i)
           /\ ToSet(ord) = Upto(ord, Len(ord) + 1)
           /\ n \notin Upto(ord, Len(ord) + 1)
<1> DEFINE new == Append(ord, n)
<1>1. IsList(ord) /\ Len(ord) \in Nat /\ DOMAIN ord = 1..Len(ord)
      /\ ToSet(ord) = Upto(ord, Len(ord) + 1)
  BY OrderFacts DEF MayFollow
<1>2. /\ IsList(new) /\ Len(new) = Len(ord) + 1
      /\ \A i \in 1..Len(ord) : new[i] = ord[i]
      /\ new[Len(ord) + 1] = n
  BY <1>1, ListGrows, ZenonT(60)
<1>3. DOMAIN new = 1..Len(ord) + 1
  BY <1>2, ListFacts
<1> HIDE DEF new
<1>4. ASSUME NEW i \in 1..Len(ord) + 1 PROVE Upto(new, i) = Upto(ord, i)
  <2>1. \A j \in 1..i - 1 : new[j] = ord[j]
    BY <1>1, <1>2
  <2> QED BY <2>1 DEF Upto
<1> QED BY <1>1, <1>2, <1>3, <1>4 DEF MayFollow, new

LEMMA OrderGrows ==
    ASSUME NEW types, NEW ord, NEW n, MayFollow(types, ord, n)
    PROVE  OrderOK(types, Append(ord, n))
<1> DEFINE new == Append(ord, n)
<1>0. /\ Len(ord) \in Nat /\ DOMAIN ord = 1..Len(ord)
      /\ Len(new) = Len(ord) + 1 /\ DOMAIN new = 1..Len(ord) + 1
      /\ \A i \in 1..Len(ord) : new[i] = ord[i]
      /\ new[Len(ord) + 1] = n
      /\ \A i \in 1..Len(ord) + 1 : Upto(new, i) = Upto(ord, i)
      /\ ToSet(ord) = Upto(ord, Len(ord) + 1)
      /\ n \notin ToSet(ord)
  BY AppendedOrder DEF MayFollow
<1>1. new \in Seq(DOMAIN types)
  BY AppendProperties DEF MayFollow, OrderOK
<1> HIDE DEF new
<1>2. ASSUME NEW i \in DOMAIN new, NEW j \in DOMAIN new, new[i] = new[j] PROVE i = j
  <2>1. \A k \in 1..Len(ord) : ord[k] \in ToSet(ord)
    BY <1>0 DEF ToSet
  <2>2. \A k, l \in 1..Len(ord) : ord[k] = ord[l] => k = l
    BY <1>0 DEF MayFollow, OrderOK
  <2> QED BY <1>0, <1>2, <2>1, <2>2
<1>3. ASSUME NEW i \in DOMAIN new
      PROVE  Dependencies(types, new[i]) \subseteq Upto(new, i)
  <2>1. CASE i \in 1..Len(ord)
    <3>1. Dependencies(types, ord[i]) \subseteq Upto(ord, i)
      BY <1>0, <2>1 DEF MayFollow, OrderOK
    <3> QED BY <1>0, <2>1, <3>1
  <2>2. CASE i = Len(ord) + 1
    <3>1. i \in 1..Len(ord) + 1
      BY <1>0, <2>2
    <3> QED BY <1>0, <2>2, <3>1 DEF MayFollow
  <2> QED BY <1>0, <2>1, <2>2
<1> QED BY <1>1, <1>2, <1>3 DEF OrderOK, new

(* What may be used somewhere, may be used there in a longer order too. *)
LEMMA BeforeGrows ==
    ASSUME NEW types, NEW ord, NEW n, MayFollow(types, ord, n),
           NEW i \in 1..Len(ord) + 1, NEW cpp, Before(types, ord, cpp, i)
    PROVE  Before(types, Append(ord, n), cpp, i)
<1>1. Upto(Append(ord, n), i) = Upto(ord, i)
  BY AppendedOrder
<1> QED BY <1>1 DEF Before

-----------------------------------------------------------------------------
(* Every definition is complete. *)

\* The signatures are those of earlier variants.
SignaturesOK(types, ord, sigs) ==
    \A s \in DOMAIN sigs :
        /\ IsList(s)
        /\ \A c \in ToSet(s) : Before(types, ord, c, Len(ord) + 1)
        /\ \E i \in DOMAIN ord : sigs[s] = Plain(ord[i]) /\ types[ord[i]].k = "variant"

\* What a definition says of a type it mentions.
Known(types, ord, cpp, i) == cpp.name \in Builtin \/ Before(types, ord, cpp, i)

\* The definition of the type at place i.
LineOK(types, ord, line, i) ==
    /\ line.name = ord[i]
    /\ \A cpp \in Mentioned(line) : Known(types, ord, cpp, i)
LinesOK(types, ord, lines) ==
    /\ IsList(lines) /\ Len(lines) = Len(ord)
    /\ \A i \in DOMAIN ord : LineOK(types, ord, lines[i], i)

\* The state of generateDefsHpp.
Emitted(types, ord, lines, st) ==
    /\ Settled(types, ord, st.chain) /\ IsEmitState(st)
    /\ SignaturesOK(types, ord, st.signatures)
    /\ LinesOK(types, ord, lines)

\* One step of it: the definition of type n, and the new state.
Emits(types, st, n, s, line, st2) ==
    IF types[n].k = "variant"
    THEN /\ s \in SetToSeqs(processVariantAlternatives(types, st.chain, types[n]))
         /\ LET r == emitVariant(types[n], s, st) IN line = r.def /\ st2 = r.state
    ELSE line = emitOther(n, types[n]) /\ st2 = st

(* The kinds of definitions, and what they mention. *)
LEMMA OtherMentions ==
    ASSUME NEW types, ASTOK(types), NEW n \in DOMAIN types, types[n].k # "variant",
           NEW line, line = emitOther(n, types[n]), NEW cpp \in Mentioned(line)
    PROVE  \/ \E ref \in TypeRefs(types[n]) : cpp = ref.cpp
           \/ \E b \in Bases(types[n]) : cpp = Plain(b)
           \/ \E ref \in TypeRefs(types[n]) : cpp = Cpp(TRUE, ref.cpp.name)
           \/ cpp.name \in Builtin
<1>1. CASE types[n].k = "struct" /\ types[n] \in StructType
  <2>1. line = [def |-> "struct", name |-> n, fields |-> types[n].fields,
                bases |-> types[n].bases]
    BY <1>1 DEF emitOther
  <2>2. line.def = "struct" /\ line.fields = types[n].fields /\ line.bases = types[n].bases
    BY <2>1
  <2>3. Mentioned(line) = {line.fields[i].type.cpp : i \in DOMAIN line.fields} \cup
                          {Cpp(FALSE, b) : b \in ToSet(line.bases)}
    BY <2>2 DEF Mentioned
  <2>4. TypeRefs(types[n]) = {types[n].fields[i].type : i \in DOMAIN types[n].fields}
    BY <1>1 DEF TypeRefs
  <2>5. Bases(types[n]) = ToSet(types[n].bases)
    BY <1>1 DEF Bases
  <2> QED BY <2>2, <2>3, <2>4, <2>5 DEF Plain
<1>2. CASE types[n].k = "array" /\ types[n] \in ArrayType
  <2>1. line = Alias(n, Cpp(TRUE, types[n].elem.cpp.name))
    BY <1>2 DEF emitOther
  <2>2. line.def = "alias" /\ line.to = Cpp(TRUE, types[n].elem.cpp.name)
    BY <2>1 DEF Alias
  <2>3. cpp = Cpp(TRUE, types[n].elem.cpp.name)
    BY <2>2 DEF Mentioned
  <2>4. types[n].elem \in TypeRefs(types[n])
    BY <1>2 DEF TypeRefs
  <2> QED BY <2>3, <2>4
<1>3. CASE types[n].k = "prim" /\ types[n] \in PrimitiveType
  <2>1. CASE types[n].enum
    <3>1. line = [def |-> "enum", name |-> n]
      BY <1>3, <2>1 DEF emitOther
    <3>2. line.def = "enum"
      BY <3>1
    <3> QED BY <3>2 DEF Mentioned
  <2>2. CASE ~types[n].enum
    <3>1. line = Alias(n, Cpp(FALSE, <<types[n].cpp>>))
      BY <1>3, <2>2 DEF emitOther
    <3>2. line.def = "alias" /\ line.to = Cpp(FALSE, <<types[n].cpp>>)
      BY <3>1 DEF Alias
    <3>3. cpp.name = <<types[n].cpp>>
      BY <3>2 DEF Mentioned, Cpp
    <3> QED BY <1>3, <3>3 DEF Builtin, PrimitiveType
  <2> QED BY <2>1, <2>2
<1> QED BY <1>1, <1>2, <1>3, Kinds

LEMMA OtherName ==
    ASSUME NEW types, ASTOK(types), NEW n \in DOMAIN types, types[n].k # "variant"
    PROVE  emitOther(n, types[n]).name = n
<1>1. CASE types[n].k = "struct"
  BY <1>1 DEF emitOther
<1>2. CASE types[n].k = "array"
  BY <1>2 DEF emitOther, Alias
<1>3. CASE types[n].k = "prim" /\ types[n].enum
  BY <1>3 DEF emitOther
<1>4. CASE types[n].k = "prim" /\ ~types[n].enum
  BY <1>4 DEF emitOther, Alias
<1> QED BY <1>1, <1>2, <1>3, <1>4, Kinds

(* The definition of a type that is no variant. *)
LEMMA OtherLineOK ==
    ASSUME NEW types, ValidAST(types), NEW ord, NEW n, MayFollow(types, ord, n),
           types[n].k # "variant", NEW line, line = emitOther(n, types[n])
    PROVE  LineOK(types, Append(ord, n), line, Len(ord) + 1)
<1> DEFINE i == Len(ord) + 1
<1>1. ASTOK(types) /\ n \in DOMAIN types
  BY DEF ValidAST, MayFollow
<1>2. /\ Len(ord) \in Nat /\ i \in 1..Len(ord) + 1 /\ Append(ord, n)[i] = n
      /\ Dependencies(types, n) \subseteq Upto(ord, i) /\ OrderOK(types, ord)
  BY AppendedOrder DEF MayFollow
<1>3. line.name = n
  BY <1>1, OtherName
<1> HIDE DEF i
<1>4. ASSUME NEW cpp \in Mentioned(line) PROVE Known(types, Append(ord, n), cpp, i)
  <2>1. CASE \E ref \in TypeRefs(types[n]) : cpp = ref.cpp
    <3>1. Before(types, ord, cpp, i)
      BY <1>1, <1>2, <2>1, RefBefore
    <3> QED BY <1>2, <3>1, BeforeGrows DEF Known
  <2>2. CASE \E b \in Bases(types[n]) : cpp = Plain(b)
    <3>1. PICK b \in Bases(types[n]) : cpp = Plain(b)
      BY <2>2
    <3>2. b \in DOMAIN types
      BY <1>1 DEF ValidAST, validate
    <3>3. b \in Upto(ord, i)
      BY <1>2, <3>2 DEF Dependencies
    <3>4. Before(types, ord, cpp, i)
      BY <1>2, <3>1, <3>3, NameBefore
    <3> QED BY <1>2, <3>4, BeforeGrows DEF Known
  <2>3. CASE \E ref \in TypeRefs(types[n]) : cpp = Cpp(TRUE, ref.cpp.name)
    <3>1. PICK ref \in TypeRefs(types[n]) : cpp = Cpp(TRUE, ref.cpp.name)
      BY <2>3
    <3>2. Before(types, ord, ref.cpp, i)
      BY <1>1, <1>2, RefBefore
    <3>3. IsCpp(cpp) /\ cpp.vec /\ cpp.name = ref.cpp.name
      BY <3>1 DEF IsCpp, Cpp
    <3>4. Before(types, ord, cpp, i)
      BY <3>2, <3>3 DEF Before
    <3> QED BY <1>2, <3>4, BeforeGrows DEF Known
  <2>4. CASE cpp.name \in Builtin
    BY <2>4 DEF Known
  <2> QED BY <1>1, <2>1, <2>2, <2>3, <2>4, OtherMentions
<1> QED BY <1>2, <1>3, <1>4 DEF LineOK, i

(* The definition of a variant: the target of its alias, or its alternatives. *)
LEMMA VariantEmits ==
    ASSUME NEW types, NEW ord, NEW lines, NEW st, Emitted(types, ord, lines, st),
           NEW n, MayFollow(types, ord, n), types[n].k = "variant",
           NEW s, NEW line, NEW st2, Emits(types, st, n, s, line, st2)
    PROVE  /\ IsEmitState(st2) /\ IsList(s)
           /\ ToSet(s) = processVariantAlternatives(types, st.chain, types[n])
           /\ \A c \in ToSet(s) : Before(types, ord, c, Len(ord) + 1)
           /\ \/ \E target : /\ Folds(n, s, st, line, st2, target)
                             /\ Before(types, ord, target, Len(ord) + 1)
              \/ Stands(n, s, st, line, st2)
<1> DEFINE i == Len(ord) + 1
<1>1. ASTOK(types) /\ n \in DOMAIN types /\ Settled(types, ord, st.chain) /\ IsEmitState(st)
      /\ OrderOK(types, ord) /\ ValidAST(types)
  BY DEF Emitted, Settled, ValidAST, MayFollow
<1>2. /\ Len(ord) \in Nat /\ i \in 1..Len(ord) + 1 /\ DOMAIN ord = 1..Len(ord)
      /\ Dependencies(types, n) \subseteq Upto(ord, i)
  BY AppendedOrder DEF MayFollow
<1>3. /\ s \in SetToSeqs(processVariantAlternatives(types, st.chain, types[n]))
      /\ line = emitVariant(types[n], s, st).def /\ st2 = emitVariant(types[n], s, st).state
  BY DEF Emits
<1>4. types[n].name = n
  BY <1>1, Alternatives
<1>5. IsFiniteSet(processVariantAlternatives(types, st.chain, types[n]))
  BY <1>1, ProcessedFinite
<1>6. IsList(s) /\ ToSet(s) = processVariantAlternatives(types, st.chain, types[n])
  BY <1>3, <1>5, SeqsOfSet
<1>7. \/ \E target : Folds(n, s, st, line, st2, target)
      \/ Stands(n, s, st, line, st2)
  BY <1>1, <1>3, <1>4, EmitVariantIs
<1>8. IsEmitState(st2)
  BY <1>1, <1>3, EmitVariantIs
<1> HIDE DEF i
<1>9. ASSUME NEW c \in ToSet(s) PROVE Before(types, ord, c, i)
  <2>1. c \in processVariantAlternatives(types, st.chain, types[n])
    BY <1>6
  <2> QED BY <1>1, <1>2, <2>1, ProcessedBefore
<1>10. ASSUME NEW target, Folds(n, s, st, line, st2, target) PROVE Before(types, ord, target, i)
  <2>1. CASE s \in DOMAIN st.signatures /\ target = st.signatures[s]
    <3>1. PICK k \in DOMAIN ord : target = Plain(ord[k])
      BY <2>1 DEF Emitted, SignaturesOK
    <3>2. ord[k] \in Upto(ord, i)
      <4>1. k \in 1..i - 1
        BY <1>2 DEF i
      <4> QED BY <4>1 DEF Upto
    <3> QED BY <1>1, <1>2, <3>1, <3>2, NameBefore
  <2>2. CASE Len(s) = 1 /\ target = s[1]
    <3>1. s[1] \in ToSet(s)
      BY <1>6, <2>2, ListFacts DEF ToSet
    <3> QED BY <1>9, <2>2, <3>1
  <2> QED BY <1>10, <2>1, <2>2 DEF Folds
<1> QED BY <1>6, <1>7, <1>8, <1>9, <1>10 DEF i

(* Chains, signatures and definitions stay right. *)
LEMMA EmitKeeps ==
    ASSUME NEW types, NEW ord, NEW lines, NEW st, Emitted(types, ord, lines, st),
           NEW n, MayFollow(types, ord, n),
           NEW s, NEW line, NEW st2, Emits(types, st, n, s, line, st2)
    PROVE  Emitted(types, Append(ord, n), Append(lines, line), st2)
<1> DEFINE i == Len(ord) + 1
           new == Append(ord, n)
           all == Append(lines, line)
<1>1. /\ ValidAST(types) /\ OrderOK(types, ord) /\ IsEmitState(st)
      /\ ChainOK(types, ord, st.chain) /\ SignaturesOK(types, ord, st.signatures)
      /\ LinesOK(types, ord, lines) /\ OrderOK(types, new)
  BY OrderGrows DEF Emitted, Settled
<1>2. /\ Len(ord) \in Nat /\ DOMAIN ord = 1..Len(ord)
      /\ Len(new) = Len(ord) + 1 /\ DOMAIN new = 1..Len(ord) + 1
      /\ \A j \in 1..Len(ord) : new[j] = ord[j]
      /\ new[i] = n /\ i \in 1..Len(ord) + 1 /\ i = Len(ord) + 1
  BY AppendedOrder
<1>3. /\ IsList(all) /\ Len(all) = Len(new)
      /\ \A j \in 1..Len(ord) : all[j] = lines[j]
      /\ all[i] = line
  <2>1. IsList(lines) /\ Len(lines) = Len(ord) /\ Len(lines) \in Nat
    BY <1>1, ListFacts DEF LinesOK
  <2>2. /\ IsList(all) /\ Len(all) = Len(lines) + 1
        /\ \A j \in 1..Len(lines) : all[j] = lines[j]
        /\ all[Len(lines) + 1] = line
    BY <2>1, ListGrows
  <2> HIDE DEF all
  <2> QED BY <1>2, <2>1, <2>2
<1> HIDE DEF new, all, i
<1>4. ASSUME NEW j \in 1..Len(ord) + 1, NEW cpp, Before(types, ord, cpp, j)
      PROVE  Before(types, new, cpp, j)
  BY <1>4, BeforeGrows DEF new
<1>5. ASSUME NEW cpp, Before(types, ord, cpp, i) PROVE Before(types, new, cpp, Len(new) + 1)
  <2>1. Before(types, new, cpp, i)
    BY <1>2, <1>4, <1>5
  <2> QED BY <1>2, <2>1, BeforeLater
\* The earlier definitions.
<1>6. ASSUME NEW j \in 1..Len(ord) PROVE LineOK(types, new, all[j], j)
  <2>1. LineOK(types, ord, lines[j], j)
    BY <1>1, <1>2 DEF LinesOK
  <2>2. ASSUME NEW cpp \in Mentioned(all[j]) PROVE Known(types, new, cpp, j)
    <3>1. Known(types, ord, cpp, j)
      BY <1>3, <2>1 DEF LineOK
    <3> QED BY <1>2, <1>4, <3>1 DEF Known
  <2> QED BY <1>2, <1>3, <2>1, <2>2 DEF LineOK
\* The new definition completes the header.
<1>7. ASSUME LineOK(types, new, line, i) PROVE LinesOK(types, new, all)
  BY <1>2, <1>3, <1>6, <1>7 DEF LinesOK
\* Earlier signatures and chains.
<1>8. ASSUME NEW q \in DOMAIN st.signatures
      PROVE  /\ IsList(q)
             /\ \A c \in ToSet(q) : Before(types, new, c, Len(new) + 1)
             /\ \E j \in DOMAIN new : /\ st.signatures[q] = Plain(new[j])
                                    /\ types[new[j]].k = "variant"
  <2>1. IsList(q) /\ \A c \in ToSet(q) : Before(types, ord, c, i)
    BY <1>1, <1>2 DEF SignaturesOK
  <2>2. PICK j \in DOMAIN ord : st.signatures[q] = Plain(ord[j]) /\ types[ord[j]].k = "variant"
    BY <1>1 DEF SignaturesOK
  <2>3. j \in DOMAIN new /\ new[j] = ord[j]
    BY <1>2
  <2> QED BY <1>5, <2>1, <2>2, <2>3
<1>9. ASSUME NEW x \in DOMAIN st.chain
      PROVE  \E j \in DOMAIN new : x = Plain(new[j]) /\ types[new[j]].k = "variant"
  <2>1. PICK j \in DOMAIN ord : x = Plain(ord[j]) /\ types[ord[j]].k = "variant"
    BY <1>1 DEF ChainOK
  <2>2. j \in DOMAIN new /\ new[j] = ord[j]
    BY <1>2
  <2> QED BY <2>1, <2>2
<1>10. ASSUME NEW j \in 1..Len(ord), Plain(new[j]) \in DOMAIN st.chain
       PROVE  Before(types, new, st.chain[Plain(new[j])], j)
  <2>1. Before(types, ord, st.chain[Plain(ord[j])], j)
    BY <1>1, <1>2, <1>10 DEF ChainOK
  <2> QED BY <1>2, <1>4, <2>1
<1>11. ASSUME NEW j \in 1..Len(ord) PROVE Plain(new[j]) # Plain(n)
  <2>1. ord[j] \in ToSet(ord)
    BY <1>2 DEF ToSet
  <2> QED BY <1>2, <2>1 DEF MayFollow, Plain, Cpp
<1>12. Plain(n) \notin DOMAIN st.chain
  <2> SUFFICES ASSUME Plain(n) \in DOMAIN st.chain PROVE FALSE
    OBVIOUS
  <2>1. PICK j \in DOMAIN ord : Plain(n) = Plain(ord[j])
    BY <1>1 DEF ChainOK
  <2> QED BY <1>2, <1>11, <2>1
<1>13. CASE types[n].k # "variant"
  <2>1. line = emitOther(n, types[n]) /\ st2 = st
    BY <1>13 DEF Emits
  <2>2. LineOK(types, new, line, i)
    BY <1>1, <1>13, <2>1, OtherLineOK DEF new, i
  <2>3. SignaturesOK(types, new, st2.signatures)
    BY <1>8, <2>1 DEF SignaturesOK
  <2>4. ASSUME NEW j \in DOMAIN new, Plain(new[j]) \in DOMAIN st.chain
        PROVE  Before(types, new, st.chain[Plain(new[j])], j)
    <3>1. j # i
      BY <1>2, <1>12, <2>4
    <3>2. j \in 1..Len(ord)
      BY <1>2, <3>1
    <3> QED BY <1>10, <2>4, <3>2
  <2>5. ChainOK(types, new, st2.chain)
    BY <1>9, <2>1, <2>4 DEF ChainOK
  <2> QED BY <1>1, <1>7, <2>1, <2>2, <2>3, <2>5 DEF Emitted, Settled, new, all
<1>14. CASE types[n].k = "variant"
  <2>1. /\ IsEmitState(st2) /\ IsList(s)
        /\ \A c \in ToSet(s) : Before(types, ord, c, i)
        /\ \/ \E target : Folds(n, s, st, line, st2, target) /\ Before(types, ord, target, i)
           \/ Stands(n, s, st, line, st2)
    BY <1>14, VariantEmits DEF i
  <2>2. \/ st2.signatures = st.signatures
        \/ st2.signatures = Insert(st.signatures, s, Plain(n))
    BY <2>1 DEF Folds, Stands
  <2>3. ASSUME NEW q \in DOMAIN st2.signatures
        PROVE  /\ IsList(q)
               /\ \A c \in ToSet(q) : Before(types, new, c, Len(new) + 1)
               /\ \E j \in DOMAIN new : /\ st2.signatures[q] = Plain(new[j])
                                      /\ types[new[j]].k = "variant"
    <3>1. CASE q \in DOMAIN st.signatures /\ st2.signatures[q] = st.signatures[q]
      BY <1>8, <3>1
    <3>2. CASE q = s /\ st2.signatures[q] = Plain(n)
      <4>1. i \in DOMAIN new /\ new[i] = n
        BY <1>2
      <4> QED BY <1>5, <1>14, <2>1, <3>2, <4>1
    <3>3. CASE st2.signatures = Insert(st.signatures, s, Plain(n))
      <4>1. /\ DOMAIN st2.signatures = DOMAIN st.signatures \cup {s}
            /\ st2.signatures[s] = Plain(n)
            /\ \A z \in DOMAIN st.signatures : z # s => st2.signatures[z] = st.signatures[z]
        BY <3>3 DEF Insert
      <4> QED BY <3>1, <3>2, <4>1
    <3> QED BY <2>2, <2>3, <3>1, <3>3
  <2>4. SignaturesOK(types, new, st2.signatures)
    BY <2>3 DEF SignaturesOK
  <2>5. CASE Stands(n, s, st, line, st2)
    <3>1. st2.chain = st.chain /\ line = [def |-> "variant", name |-> n, alts |-> ToSet(s)]
      BY <2>5 DEF Stands
    <3>2. ASSUME NEW j \in DOMAIN new, Plain(new[j]) \in DOMAIN st.chain
          PROVE  Before(types, new, st.chain[Plain(new[j])], j)
      <4>1. j # i
        BY <1>2, <1>12, <3>2
      <4>2. j \in 1..Len(ord)
        BY <1>2, <4>1
      <4> QED BY <1>10, <3>2, <4>2
    <3>3. ChainOK(types, new, st2.chain)
      BY <1>9, <3>1, <3>2 DEF ChainOK
    <3>4. line.name = n /\ line.def = "variant" /\ line.alts = ToSet(s)
      BY <3>1
    <3>5. Mentioned(line) = ToSet(s)
      BY <3>4 DEF Mentioned
    <3>6. LineOK(types, new, line, i)
      BY <1>2, <1>4, <2>1, <3>4, <3>5 DEF LineOK, Known
    <3> QED BY <1>1, <1>7, <2>1, <2>4, <3>3, <3>6 DEF Emitted, Settled, new, all
  <2>6. CASE \E target : Folds(n, s, st, line, st2, target) /\ Before(types, ord, target, i)
    <3>1. PICK target : Folds(n, s, st, line, st2, target) /\ Before(types, ord, target, i)
      BY <2>6
    <3>2. line = Alias(n, target) /\ st2.chain = Insert(st.chain, Plain(n), target)
      BY <3>1 DEF Folds
    <3>3. /\ DOMAIN st2.chain = DOMAIN st.chain \cup {Plain(n)}
          /\ st2.chain[Plain(n)] = target
          /\ \A z \in DOMAIN st.chain : z # Plain(n) => st2.chain[z] = st.chain[z]
      BY <3>2 DEF Insert
    <3>4. Before(types, new, target, i)
      BY <1>2, <1>4, <3>1
    <3>5. ASSUME NEW x \in DOMAIN st2.chain
          PROVE  \E j \in DOMAIN new : x = Plain(new[j]) /\ types[new[j]].k = "variant"
      <4>1. CASE x \in DOMAIN st.chain
        BY <1>9, <4>1
      <4>2. CASE x = Plain(n)
        <5>1. i \in DOMAIN new /\ new[i] = n
          BY <1>2
        <5> QED BY <1>14, <4>2, <5>1
      <4> QED BY <3>3, <4>1, <4>2
    <3>6. ASSUME NEW j \in DOMAIN new, Plain(new[j]) \in DOMAIN st2.chain
          PROVE  Before(types, new, st2.chain[Plain(new[j])], j)
      <4>1. CASE j = i
        BY <1>2, <3>3, <3>4, <4>1
      <4>2. CASE j \in 1..Len(ord)
        <5>1. Plain(new[j]) # Plain(n)
          BY <1>11, <4>2
        <5>2. Plain(new[j]) \in DOMAIN st.chain /\ st2.chain[Plain(new[j])] = st.chain[Plain(new[j])]
          BY <3>3, <3>6, <5>1
        <5> QED BY <1>10, <4>2, <5>2
      <4> QED BY <1>2, <4>1, <4>2
    <3>7. ChainOK(types, new, st2.chain)
      BY <3>5, <3>6 DEF ChainOK
    <3>8. line.name = n /\ line.def = "alias" /\ line.to = target
      BY <3>2 DEF Alias
    <3>9. Mentioned(line) = {target}
      BY <3>8 DEF Mentioned
    <3>10. LineOK(types, new, line, i)
      BY <1>2, <3>4, <3>8, <3>9 DEF LineOK, Known
    <3> QED BY <1>1, <1>7, <2>1, <2>4, <3>7, <3>10 DEF Emitted, Settled, new, all
  <2> QED BY <2>1, <2>5, <2>6
<1> QED BY <1>13, <1>14

-----------------------------------------------------------------------------
(* Every reachable header. *)

\* Nothing is emitted before the order is known; from then on the header has
\* the definitions of the order so far.
Begun == phase \notin {"start", "ast", "valid", "failed"}
HeaderOK ==
    /\ ~Begun => order = <<>> /\ header = <<>> /\ emit = NewState
    /\ phase = "ast" => ASTOK(ast)
    /\ phase = "valid" => ValidAST(ast)
    /\ Begun => Emitted(ast, order, header, emit)

LEMMA NothingEmitted ==
    ASSUME NEW types, ValidAST(types)
    PROVE  Emitted(types, <<>>, <<>>, NewState)
<1>1. /\ NewState.chain = <<>> /\ NewState.signatures = <<>> /\ IsEmitState(NewState)
      /\ DOMAIN <<>> = {} /\ Len(<<>>) = 0 /\ IsList(<<>>)
  BY SmallLists DEF NewState, IsEmitState
<1>2. OrderOK(types, <<>>)
  BY <1>1 DEF OrderOK
<1>3. ChainOK(types, <<>>, <<>>) /\ SignaturesOK(types, <<>>, <<>>) /\ LinesOK(types, <<>>, <<>>)
  BY <1>1 DEF ChainOK, SignaturesOK, LinesOK
<1> QED BY <1>1, <1>2, <1>3 DEF Emitted, Settled

(* EmitType emits one more type. *)
LEMMA EmitTypeEmits ==
    ASSUME EmitType, Emitted(ast, order, header, emit)
    PROVE  \E n : \E s : \E line :
              /\ MayFollow(ast, order, n) /\ order' = Append(order, n)
              /\ header' = Append(header, line) /\ Emits(ast, emit, n, s, line, emit')
<1>1. PICK n \in DOMAIN ast \ ToSet(order) :
        /\ Dependencies(ast, n) \subseteq ToSet(order)
        /\ order' = Append(order, n)
        /\ IF ast[n].k = "variant"
           THEN \E s \in SetToSeqs(processVariantAlternatives(ast, emit.chain, ast[n])) :
                  LET r == emitVariant(ast[n], s, emit)
                  IN header' = Append(header, r.def) /\ emit' = r.state
           ELSE header' = Append(header, emitOther(n, ast[n])) /\ UNCHANGED emit
  BY DEF EmitType
<1>2. MayFollow(ast, order, n)
  BY <1>1 DEF MayFollow, Emitted, Settled
<1>3. CASE ast[n].k = "variant"
  <2>1. PICK s \in SetToSeqs(processVariantAlternatives(ast, emit.chain, ast[n])) :
          /\ header' = Append(header, emitVariant(ast[n], s, emit).def)
          /\ emit' = emitVariant(ast[n], s, emit).state
    BY <1>1, <1>3
  <2>2. Emits(ast, emit, n, s, emitVariant(ast[n], s, emit).def, emit')
    BY <1>3, <2>1 DEF Emits
  <2> QED BY <1>1, <1>2, <2>1, <2>2
<1>4. CASE ast[n].k # "variant"
  <2>1. Emits(ast, emit, n, <<>>, emitOther(n, ast[n]), emit')
    BY <1>1, <1>4 DEF Emits
  <2> QED BY <1>1, <1>2, <1>4, <2>1
<1> QED BY <1>3, <1>4

THEOREM HeaderInvariant == Spec => []HeaderOK
<1>1. Init => HeaderOK
  BY DEF Init, HeaderOK, Begun
<1>2. HeaderOK /\ [Next]_vars => HeaderOK'
  <2> SUFFICES ASSUME HeaderOK, [Next]_vars PROVE HeaderOK'
    OBVIOUS
  <2>1. CASE Reject
    BY <2>1 DEF Reject, HeaderOK, Begun, input, defs
  <2>2. CASE BuildAST
    <3>1. ASTOK(Parsed[document'])
      BY <2>2, ParsedAssumption DEF BuildAST
    <3> QED BY <2>2, <3>1 DEF BuildAST, HeaderOK, Begun, defs
  <2>3. CASE ValidateAST
    <3>1. ASTOK(ast)
      BY <2>3 DEF ValidateAST, HeaderOK
    <3>2. ValidAST(ast) \/ validate(ast) # {}
      BY <3>1 DEF ValidAST
    <3> QED BY <2>3, <3>2 DEF ValidateAST, HeaderOK, Begun, input, defs
  <2>4. CASE Sort
    <3>1. ValidAST(ast) /\ order = <<>> /\ header = <<>> /\ emit = NewState
      BY <2>4 DEF Sort, HeaderOK, Begun
    <3>2. Emitted(ast, order, header, emit)
      BY <3>1, NothingEmitted
    <3> QED BY <2>4, <3>1, <3>2 DEF Sort, HeaderOK, Begun, input, defs
  <2>5. CASE EmitType
    <3>1. Emitted(ast, order, header, emit)
      BY <2>5 DEF EmitType, HeaderOK, Begun
    <3>2. PICK n, s, line :
            /\ MayFollow(ast, order, n) /\ order' = Append(order, n)
            /\ header' = Append(header, line) /\ Emits(ast, emit, n, s, line, emit')
      BY <2>5, <3>1, EmitTypeEmits
    <3>3. Emitted(ast, order', header', emit')
      BY <3>1, <3>2, EmitKeeps
    <3> QED BY <2>5, <3>3 DEF EmitType, HeaderOK, Begun, input
  <2>6. CASE GenerateDefsCpp
    BY <2>6 DEF GenerateDefsCpp, HeaderOK, Begun, input
  <2>7. CASE GenerateClient \/ GenerateServer \/ WriteCMake
    BY <2>7 DEF GenerateClient, GenerateServer, WriteCMake, HeaderOK, Begun, input, defs
  <2>8. CASE UNCHANGED vars
    BY <2>8 DEF vars, HeaderOK, Begun
  <2> QED BY <2>1, <2>2, <2>3, <2>4, <2>5, <2>6, <2>7, <2>8 DEF Next
<1> QED BY <1>1, <1>2, PTL DEF Spec

LEMMA HeaderIsComplete ==
    ASSUME HeaderOK PROVE CompleteTypes
<1>1. CASE header = <<>>
  BY <1>1 DEF CompleteTypes
<1>2. CASE Emitted(ast, order, header, emit)
  <2> SUFFICES ASSUME NEW i \in DOMAIN header, NEW cpp \in Mentioned(header[i])
               PROVE  \/ cpp.name \in Builtin
                      \/ \E j \in 1 .. (i - 1) : header[j].name = cpp.name
                      \/ cpp.vec /\ cpp.name \notin DOMAIN ast
    BY DEF CompleteTypes
  <2>1. Len(order) \in Nat /\ DOMAIN order = 1..Len(order)
    BY <1>2, OrderFacts DEF Emitted, Settled
  <2>2. /\ DOMAIN header = DOMAIN order
        /\ \A j \in DOMAIN order : LineOK(ast, order, header[j], j)
    BY <1>2, <2>1, ListFacts DEF Emitted, LinesOK
  <2>3. Known(ast, order, cpp, i)
    BY <2>2 DEF LineOK
  <2>4. CASE cpp.name \in Upto(order, i)
    <3>1. PICK j \in 1..i - 1 : cpp.name = order[j]
      BY <2>4 DEF Upto
    <3>2. j \in DOMAIN order
      BY <2>1, <2>2
    <3>3. header[j].name = order[j]
      BY <2>2, <3>2 DEF LineOK
    <3> QED BY <3>1, <3>3
  <2> QED BY <2>3, <2>4 DEF Known, Before
<1> QED BY <1>1, <1>2 DEF HeaderOK

(* Every definition of openapi_defs.hpp mentions only types that are built in or *)
(* defined before it, for every document and every order sortTypes may give,      *)
(* except the element of an array whose $ref leads nowhere.                        *)
THEOREM TypesAreComplete == Spec => []CompleteTypes
BY HeaderInvariant, HeaderIsComplete, PTL
-----------------------------------------------------------------------------
(* What a type stands for in a header. *)

\* The places before i that define cpp, and what it stands for there when the
\* definition at each place j stands for m[j].
Places(lines, i, cpp) == {j \in DefinedAt(lines, cpp) : j < i}
StandsFor(m, lines, i, cpp) ==
    IF Places(lines, i, cpp) = {} THEN cpp
    ELSE m[CHOOSE j \in Places(lines, i, cpp) : TRUE]
Meaning(m, lines, i) ==
    CASE lines[i].def = "alias" -> StandsFor(m, lines, i, lines[i].to)
      [] lines[i].def = "variant" -> OneOf({StandsFor(m, lines, i, c) : c \in lines[i].alts})
      [] OTHER -> Cpp(FALSE, lines[i].name)
IsMeaning(m, lines) == m = [i \in DOMAIN lines |-> Meaning(m, lines, i)]

\* Two headers, and what their definitions stand for, agree before place i.
SameBelow(m, lines, m2, lines2, i) ==
    /\ IsList(lines) /\ IsList(lines2)
    /\ i \in 1..Len(lines) + 1 /\ i \in 1..Len(lines2) + 1
    /\ \A j \in 1..i - 1 : lines[j] = lines2[j] /\ m[j] = m2[j]

LEMMA StandsForPlaces ==
    ASSUME NEW m, NEW lines, NEW i, NEW k, NEW cpp,
           Places(lines, i, cpp) = Places(lines, k, cpp)
    PROVE  StandsFor(m, lines, i, cpp) = StandsFor(m, lines, k, cpp)
BY DEF StandsFor

(* A definition depends on earlier ones only. *)
LEMMA StandsForSame ==
    ASSUME NEW m, NEW lines, NEW m2, NEW lines2, NEW i, SameBelow(m, lines, m2, lines2, i),
           NEW cpp
    PROVE  StandsFor(m, lines, i, cpp) = StandsFor(m2, lines2, i, cpp)
<1>1. /\ DOMAIN lines = 1..Len(lines) /\ DOMAIN lines2 = 1..Len(lines2)
      /\ Len(lines) \in Nat /\ Len(lines2) \in Nat
      /\ i \in 1..Len(lines) + 1 /\ i \in 1..Len(lines2) + 1
  BY ListFacts DEF SameBelow
<1>2. Places(lines, i, cpp) \subseteq 1..i - 1
  BY <1>1 DEF Places, DefinedAt
<1>3. Places(lines, i, cpp) = Places(lines2, i, cpp)
  BY <1>1 DEF Places, DefinedAt, SameBelow
<1>4. CASE Places(lines, i, cpp) = {}
  BY <1>3, <1>4 DEF StandsFor
<1>5. CASE Places(lines, i, cpp) # {}
  <2> DEFINE k == CHOOSE j \in Places(lines, i, cpp) : TRUE
  <2>1. k \in Places(lines, i, cpp)
    BY <1>5
  <2>2. StandsFor(m, lines, i, cpp) = m[k] /\ StandsFor(m2, lines2, i, cpp) = m2[k]
    BY <1>3, <1>5 DEF StandsFor
  <2> HIDE DEF k
  <2>3. m[k] = m2[k]
    BY <1>2, <2>1 DEF SameBelow
  <2> QED BY <2>2, <2>3
<1> QED BY <1>4, <1>5

LEMMA MeaningSame ==
    ASSUME NEW m, NEW lines, NEW m2, NEW lines2, NEW i, SameBelow(m, lines, m2, lines2, i),
           lines[i] = lines2[i]
    PROVE  Meaning(m, lines, i) = Meaning(m2, lines2, i)
<1>1. \A cpp : StandsFor(m, lines, i, cpp) = StandsFor(m2, lines2, i, cpp)
  BY StandsForSame
<1>2. CASE lines[i].def = "alias"
  BY <1>1, <1>2 DEF Meaning
<1>3. CASE lines[i].def = "variant"
  <2>1. {StandsFor(m, lines, i, c) : c \in lines[i].alts} =
        {StandsFor(m2, lines2, i, c) : c \in lines[i].alts}
    BY <1>1
  <2> QED BY <1>3, <2>1 DEF Meaning
<1>4. CASE lines[i].def # "alias" /\ lines[i].def # "variant"
  BY <1>4 DEF Meaning
<1> QED BY <1>2, <1>3, <1>4

(* Every header has a meaning: that of n definitions gives that of n + 1. *)
LEMMA MeaningExists ==
    ASSUME NEW lines, IsList(lines)
    PROVE  \E m : IsMeaning(m, lines)
<1> DEFINE Has(n) == \E h : h = [i \in 1..n |-> Meaning(h, lines, i)]
           G == {n \in Nat : n <= Len(lines) => Has(n)}
<1>0. Len(lines) \in Nat /\ DOMAIN lines = 1..Len(lines)
  BY ListFacts
<1>1. Has(0)
  <2> DEFINE g == [i \in 1..0 |-> 0]
  <2>1. g = [i \in 1..0 |-> Meaning(g, lines, i)]
    OBVIOUS
  <2> QED BY <2>1
<1>2. ASSUME NEW n \in Nat, n + 1 <= Len(lines), NEW h,
             h = [i \in 1..n |-> Meaning(h, lines, i)]
      PROVE  Has(n + 1)
  <2> DEFINE g == [i \in 1..n + 1 |-> Meaning(h, lines, i)]
  <2>1. ASSUME NEW j \in 1..n PROVE h[j] = g[j]
    <3>1. j \in 1..n + 1
      OBVIOUS
    <3>2. h[j] = Meaning(h, lines, j)
      BY <1>2
    <3> QED BY <3>1, <3>2
  <2> HIDE DEF g
  <2>2. ASSUME NEW i \in 1..n + 1 PROVE Meaning(h, lines, i) = Meaning(g, lines, i)
    <3>1. SameBelow(h, lines, g, lines, i)
      BY <1>0, <1>2, <2>1 DEF SameBelow
    <3> QED BY <3>1, MeaningSame
  <2>3. g = [i \in 1..n + 1 |-> Meaning(g, lines, i)]
    <3>1. g = [i \in 1..n + 1 |-> Meaning(h, lines, i)]
      BY DEF g
    <3> QED BY <2>2, <3>1
  <2> QED BY <2>3
<1>3. 0 \in G
  BY <1>1
<1>4. ASSUME NEW n \in Nat, n \in G PROVE n + 1 \in G
  <2>1. CASE n + 1 <= Len(lines)
    <3>1. Has(n)
      BY <1>0, <1>4, <2>1
    <3>2. Has(n + 1)
      BY <1>2, <2>1, <3>1
    <3> QED BY <3>2
  <2>2. CASE ~(n + 1 <= Len(lines))
    BY <2>2
  <2> QED BY <2>1, <2>2
<1> HIDE DEF G
<1>5. Len(lines) \in G
  BY <1>0, <1>3, <1>4, SetInduction
<1>6. Has(Len(lines))
  BY <1>0, <1>5 DEF G
<1> QED BY <1>0, <1>6 DEF IsMeaning

LEMMA CanonicalIs ==
    ASSUME NEW lines, IsList(lines)
    PROVE  \E m : /\ IsMeaning(m, lines)
                  /\ \A cpp : CanonicalIn(lines, cpp) =
                                StandsFor(m, lines, Len(lines) + 1, cpp)
<1> DEFINE g == CHOOSE m : IsMeaning(m, lines)
<1>1. IsMeaning(g, lines)
  <2>1. \E m : IsMeaning(m, lines)
    BY MeaningExists
  <2> QED BY <2>1, Zenon
<1>2. ASSUME NEW cpp
      PROVE  CanonicalIn(lines, cpp) =
               IF DefinedAt(lines, cpp) = {} THEN cpp
               ELSE g[CHOOSE j \in DefinedAt(lines, cpp) : TRUE]
  BY Zenon DEF CanonicalIn, IsMeaning, Meaning, StandsFor, Places
<1> HIDE DEF g
<1>3. ASSUME NEW cpp PROVE DefinedAt(lines, cpp) = Places(lines, Len(lines) + 1, cpp)
  <2>1. Len(lines) \in Nat /\ DOMAIN lines = 1..Len(lines)
    BY ListFacts
  <2> QED BY <2>1 DEF DefinedAt, Places
<1>4. \A cpp : CanonicalIn(lines, cpp) = StandsFor(g, lines, Len(lines) + 1, cpp)
  BY <1>2, <1>3 DEF StandsFor
<1> QED BY <1>1, <1>4

\* What the types of a set stand for.
Canonicals(lines, S) == {CanonicalIn(lines, c) : c \in S}

\* No definition has the name.
Fresh(lines, name) == \A j \in DOMAIN lines : lines[j].name # name

\* all is lines with one more.
Longer(lines, line, all) ==
    /\ IsList(all) /\ Len(all) = Len(lines) + 1
    /\ \A j \in 1..Len(lines) : all[j] = lines[j]
    /\ all[Len(lines) + 1] = line

(* What the new definition of a header stands for, and that the earlier ones  *)
(* stand for what they stood for.                                             *)
LEMMA CanonicalGrows ==
    ASSUME NEW lines, IsList(lines), NEW line, NEW all, Longer(lines, line, all),
           Fresh(lines, line.name)
    PROVE  /\ \A c : c.vec \/ c.name # line.name =>
                        CanonicalIn(all, c) = CanonicalIn(lines, c)
           /\ line.def = "alias" =>
                CanonicalIn(all, Plain(line.name)) = CanonicalIn(lines, line.to)
           /\ line.def = "variant" =>
                CanonicalIn(all, Plain(line.name)) = OneOf(Canonicals(lines, line.alts))
<1>1. /\ IsList(all) /\ Len(all) = Len(lines) + 1
      /\ \A j \in 1..Len(lines) : all[j] = lines[j]
      /\ all[Len(lines) + 1] = line
  BY DEF Longer
<1>2. /\ Len(lines) \in Nat /\ DOMAIN lines = 1..Len(lines) /\ DOMAIN all = 1..Len(lines) + 1
  BY <1>1, ListFacts
<1>3. PICK m : /\ IsMeaning(m, lines)
               /\ \A cpp : CanonicalIn(lines, cpp) = StandsFor(m, lines, Len(lines) + 1, cpp)
  BY CanonicalIs
<1>4. PICK m2 : /\ IsMeaning(m2, all)
                /\ \A cpp : CanonicalIn(all, cpp) = StandsFor(m2, all, Len(all) + 1, cpp)
  BY <1>1, CanonicalIs
<1> DEFINE n == Len(lines) + 1
           G == {i \in Nat : i <= Len(lines) => \A j \in 1..i : m[j] = m2[j]}
<1>5. 0 \in G
  OBVIOUS
<1>6. ASSUME NEW i \in Nat, i \in G PROVE i + 1 \in G
  <2> SUFFICES ASSUME i + 1 <= Len(lines), NEW j \in 1..i + 1 PROVE m[j] = m2[j]
    OBVIOUS
  <2>1. \A k \in 1..i : m[k] = m2[k]
    BY <1>2, <1>6
  <2>2. CASE j \in 1..i
    BY <2>1, <2>2
  <2>3. CASE j = i + 1
    <3>1. SameBelow(m, lines, m2, all, j)
      BY <1>1, <1>2, <2>1, <2>3 DEF SameBelow
    <3>2. lines[j] = all[j]
      BY <1>1, <2>3
    <3>3. Meaning(m, lines, j) = Meaning(m2, all, j)
      BY <3>1, <3>2, MeaningSame
    <3>4. j \in DOMAIN lines /\ j \in DOMAIN all
      BY <1>2, <2>3
    <3> QED BY <1>3, <1>4, <3>3, <3>4 DEF IsMeaning
  <2> QED BY <2>2, <2>3
<1> HIDE DEF G
<1>7. Len(lines) \in G
  BY <1>2, <1>5, <1>6, SetInduction
<1>8. \A j \in 1..Len(lines) : m[j] = m2[j]
  BY <1>2, <1>7 DEF G
<1>9. SameBelow(m, lines, m2, all, n)
  BY <1>1, <1>2, <1>8 DEF SameBelow
<1> HIDE DEF n
<1>10. ASSUME NEW c PROVE StandsFor(m2, all, n, c) = CanonicalIn(lines, c)
  BY <1>3, <1>9, StandsForSame DEF n
<1>11. ASSUME NEW c, c.vec \/ c.name # line.name
       PROVE  CanonicalIn(all, c) = CanonicalIn(lines, c)
  <2>1. Places(all, Len(all) + 1, c) = Places(all, n, c)
    BY <1>1, <1>2, <1>11 DEF Places, DefinedAt, n
  <2>2. StandsFor(m2, all, Len(all) + 1, c) = StandsFor(m2, all, n, c)
    BY <2>1, StandsForPlaces
  <2> QED BY <1>4, <1>10, <2>2
<1>12. CanonicalIn(all, Plain(line.name)) = Meaning(m2, all, n)
  <2>1. Places(all, Len(all) + 1, Plain(line.name)) = {n}
    BY <1>1, <1>2 DEF Places, DefinedAt, n, Plain, Cpp, Fresh
  <2>2. StandsFor(m2, all, Len(all) + 1, Plain(line.name)) = m2[n]
    BY <2>1 DEF StandsFor
  <2>3. m2[n] = Meaning(m2, all, n)
    BY <1>2, <1>4 DEF IsMeaning, n
  <2> QED BY <1>4, <2>2, <2>3
<1>13. all[n] = line
  BY <1>1 DEF n
<1>14. ASSUME line.def = "alias"
       PROVE  CanonicalIn(all, Plain(line.name)) = CanonicalIn(lines, line.to)
  BY <1>10, <1>12, <1>13, <1>14 DEF Meaning
<1>15. ASSUME line.def = "variant"
       PROVE  CanonicalIn(all, Plain(line.name)) =
                OneOf({CanonicalIn(lines, c) : c \in line.alts})
  <2>1. {StandsFor(m2, all, n, c) : c \in line.alts} = {CanonicalIn(lines, c) : c \in line.alts}
    BY <1>10
  <2> QED BY <1>12, <1>13, <1>15, <2>1 DEF Meaning
<1> QED BY <1>11, <1>14, <1>15 DEF Canonicals
-----------------------------------------------------------------------------
(* Variants keep their alternatives. *)

\* No named type is a number or a boolean.
OnlyStrings(types) ==
    \A n \in DOMAIN types :
        types[n].k = "prim" => types[n].enum \/ types[n].cpp = "std::string"

\* Each variant is the choice between its alternatives, each signature that
\* between its types, and chains do not change what a type stands for. A named
\* string is a string.
VariantsOK(types, ord, lines) ==
    \A i \in DOMAIN ord : types[ord[i]].k = "variant" =>
        CanonicalIn(lines, Plain(ord[i])) =
          OneOf(Canonicals(lines, {alt.cpp : alt \in ToSet(types[ord[i]].alts)}))
SameSignatures(lines, sigs) ==
    \A s \in DOMAIN sigs : CanonicalIn(lines, sigs[s]) = OneOf(Canonicals(lines, ToSet(s)))
SameChains(lines, chain) ==
    \A x \in DOMAIN chain : CanonicalIn(lines, x) = CanonicalIn(lines, chain[x])
Strings(types, ord, lines) ==
    \A i \in DOMAIN ord : types[ord[i]].k = "prim" /\ ~types[ord[i]].enum =>
        CanonicalIn(lines, Plain(ord[i])) = CanonicalIn(lines, String)
Kept(types, ord, lines, st) ==
    /\ VariantsOK(types, ord, lines) /\ Strings(types, ord, lines)
    /\ SameSignatures(lines, st.signatures) /\ SameChains(lines, st.chain)

LEMMA OneOfOne ==
    ASSUME NEW x PROVE OneOf({x}) = x
<1>1. Cardinality({x}) = 1
  BY FS_Singleton
<1> QED BY <1>1 DEF OneOf

(* The end of a chain stands for what its beginning does. *)
LEMMA ChainEndKeeps ==
    ASSUME NEW types, ASTOK(types), NEW lines, NEW chain, SameChains(lines, chain), NEW x
    PROVE  CanonicalIn(lines, chainEnd(types, chain, x)) = CanonicalIn(lines, x)
<1> DEFINE P == {y \in {x} \cup DOMAIN chain \cup {chain[z] : z \in DOMAIN chain} :
                     CanonicalIn(lines, y) = CanonicalIn(lines, x)}
           n == Cardinality(DOMAIN types)
<1>1. n \in Nat
  BY FS_CardinalityType DEF ASTOK
<1>2. x \in P
  OBVIOUS
<1>3. \A y \in P : y \in DOMAIN chain => chain[y] \in P
  BY DEF SameChains
<1> HIDE DEF P, n
<1>4. Follow(chain, x, n) \in P
  BY <1>1, <1>2, <1>3, FollowStays
<1> QED BY <1>4 DEF chainEnd, P, n

(* A variant with one alternative stands for what that alternative does. *)
LEMMA LoneKeeps ==
    ASSUME NEW types, ASTOK(types), NEW ord, NEW lines, VariantsOK(types, ord, lines),
           NEW k \in DOMAIN ord, NEW alt, Lone(types, ord[k], alt)
    PROVE  CanonicalIn(lines, Plain(ord[k])) = CanonicalIn(lines, alt.cpp)
<1>1. ToSet(types[ord[k]].alts) = {alt} /\ types[ord[k]].k = "variant"
  BY Alternatives DEF Lone
<1>2. {a.cpp : a \in ToSet(types[ord[k]].alts)} = {alt.cpp}
  BY <1>1
<1>3. Canonicals(lines, {a.cpp : a \in ToSet(types[ord[k]].alts)}) = {CanonicalIn(lines, alt.cpp)}
  BY <1>2 DEF Canonicals
<1>4. CanonicalIn(lines, Plain(ord[k])) = OneOf({CanonicalIn(lines, alt.cpp)})
  BY <1>1, <1>3 DEF VariantsOK
<1> QED BY <1>4, OneOfOne

(* Resolving a name does not change what it stands for. *)
LEMMA LastKeeps ==
    ASSUME NEW types, NEW ord, NEW lines, NEW st, Emitted(types, ord, lines, st),
           Kept(types, ord, lines, st), NEW i \in 1..Len(ord) + 1, NEW name \in Upto(ord, i)
    PROVE  CanonicalIn(lines, Plain(LastName(types, st.chain, name))) =
             CanonicalIn(lines, Plain(name))
<1> DEFINE P == {y \in Upto(ord, i) :
                     CanonicalIn(lines, Plain(y)) = CanonicalIn(lines, Plain(name))}
           n == Cardinality(DOMAIN types)
           f == forward(types, st.chain)
<1>0. /\ Settled(types, ord, st.chain) /\ ASTOK(types) /\ SameChains(lines, st.chain)
      /\ VariantsOK(types, ord, lines) /\ OrderOK(types, ord)
  BY DEF Emitted, Settled, ValidAST, Kept
<1>1. n \in Nat
  BY <1>0, FS_CardinalityType DEF ASTOK
<1>2. ASSUME NEW y \in P, y \in DOMAIN f PROVE f[y] \in P
  <2> HIDE DEF f
  <2>1. y \in Upto(ord, i) /\ y \in DOMAIN forward(types, st.chain)
    BY <1>2 DEF f
  <2>2. PICK k \in DOMAIN ord : \E alt : k < i /\ ForwardsTo(types, ord, st.chain, y, k, alt)
    BY <1>0, <2>1, ForwardStep
  <2>3. PICK alt : k < i /\ ForwardsTo(types, ord, st.chain, y, k, alt)
    BY <2>2
  <2>4. /\ EndOf(types, st.chain, y) = Plain(ord[k]) /\ Lone(types, ord[k], alt) /\ ~alt.inline
        /\ f[y] = alt.cpp.name /\ alt.cpp.name \in Upto(ord, k)
    BY <2>3 DEF ForwardsTo, f
  <2>5. Len(ord) \in Nat /\ DOMAIN ord = 1..Len(ord)
    BY <1>0, OrderFacts
  <2>6. f[y] \in Upto(ord, i)
    BY <2>3, <2>4, <2>5 DEF Upto
  <2>7. alt.cpp = Plain(f[y])
    BY <1>0, <2>4, LoneBefore DEF Settled
  <2>8. CanonicalIn(lines, Plain(ord[k])) = CanonicalIn(lines, alt.cpp)
    BY <1>0, <2>4, LoneKeeps
  <2>9. CanonicalIn(lines, EndOf(types, st.chain, y)) = CanonicalIn(lines, Plain(y))
    BY <1>0, ChainEndKeeps DEF EndOf
  <2>10. CanonicalIn(lines, Plain(y)) = CanonicalIn(lines, Plain(name))
    BY <1>2
  <2>11. CanonicalIn(lines, Plain(f[y])) = CanonicalIn(lines, Plain(name))
    BY <2>4, <2>7, <2>8, <2>9, <2>10
  <2> QED BY <2>6, <2>11
<1>3. name \in P
  OBVIOUS
<1> HIDE DEF P, n, f
<1>4. Follow(f, name, n) \in P
  BY <1>1, <1>2, <1>3, FollowStays
<1> QED BY <1>4 DEF LastName, P, n, f

LEMMA ResolveKeeps ==
    ASSUME NEW types, NEW ord, NEW lines, NEW st, Emitted(types, ord, lines, st),
           Kept(types, ord, lines, st), NEW i \in 1..Len(ord) + 1, NEW name \in Upto(ord, i)
    PROVE  CanonicalIn(lines, resolveTypeName(types, st.chain, name)) =
             CanonicalIn(lines, Plain(name))
<1> DEFINE x == EndOf(types, st.chain, LastName(types, st.chain, name))
<1>0. /\ Settled(types, ord, st.chain) /\ ASTOK(types) /\ SameChains(lines, st.chain)
      /\ VariantsOK(types, ord, lines) /\ Strings(types, ord, lines) /\ OrderOK(types, ord)
  BY DEF Emitted, Settled, ValidAST, Kept
<1>1. CanonicalIn(lines, x) = CanonicalIn(lines, Plain(name))
  <2>1. CanonicalIn(lines, x) = CanonicalIn(lines, Plain(LastName(types, st.chain, name)))
    BY <1>0, ChainEndKeeps DEF EndOf
  <2> QED BY <2>1, LastKeeps
<1>2. Before(types, ord, x, i)
  BY <1>0, LastBefore
<1>3. resolveTypeName(types, st.chain, name) = Resolved(types, x)
  BY ResolveIs
<1> HIDE DEF x
<1>4. CASE Resolved(types, x) = x
  BY <1>1, <1>3, <1>4
<1>5. CASE ~x.vec /\ x.name \in DOMAIN types
  <2>1. PICK k \in DOMAIN ord : k < i /\ x = Plain(ord[k])
    <3>1. Used(types, ord, x, i)
      BY <1>0, <1>2, <1>5 DEF Used
    <3> QED BY <3>1, UsedIsOrdered
  <2>2. x.name = ord[k]
    BY <2>1 DEF Plain, Cpp
  <2>3. CASE types[x.name].k = "prim" /\ ~types[x.name].enum
    <3>1. Resolved(types, x) = String
      BY <1>5, <2>3 DEF Resolved
    <3>2. CanonicalIn(lines, Plain(ord[k])) = CanonicalIn(lines, String)
      BY <1>0, <2>2, <2>3 DEF Strings
    <3> QED BY <1>1, <1>3, <2>1, <3>1, <3>2
  <2>4. CASE types[x.name].k = "variant" /\ Len(types[x.name].alts) = 1
    <3> DEFINE alt == types[ord[k]].alts[1]
    <3>1. Lone(types, ord[k], alt)
      BY <1>5, <2>2, <2>4 DEF Lone
    <3>2. Resolved(types, x) = alt.cpp
      BY <1>5, <2>2, <2>4 DEF Resolved
    <3> HIDE DEF alt
    <3>3. CanonicalIn(lines, Plain(ord[k])) = CanonicalIn(lines, alt.cpp)
      BY <1>0, <3>1, LoneKeeps
    <3> QED BY <1>1, <1>3, <2>1, <3>2, <3>3
  <2> QED BY <1>4, <2>3, <2>4 DEF Resolved
<1> QED BY <1>4, <1>5 DEF Resolved

(* The distinct alternatives of a variant stand for what its alternatives do. *)
LEMMA ProcessedKeeps ==
    ASSUME NEW types, NEW ord, NEW lines, NEW st, Emitted(types, ord, lines, st),
           Kept(types, ord, lines, st), NEW n, MayFollow(types, ord, n),
           types[n].k = "variant"
    PROVE  Canonicals(lines, processVariantAlternatives(types, st.chain, types[n])) =
             Canonicals(lines, {alt.cpp : alt \in ToSet(types[n].alts)})
<1> DEFINE i == Len(ord) + 1
           Do(alt) == IF alt.inline THEN alt.cpp
                      ELSE resolveTypeName(types, st.chain, alt.cpp.name)
<1>1. ValidAST(types) /\ ASTOK(types) /\ n \in DOMAIN types
  BY DEF Emitted, Settled, ValidAST, MayFollow
<1>2. Len(ord) \in Nat /\ i \in 1..Len(ord) + 1 /\ Dependencies(types, n) \subseteq Upto(ord, i)
  BY AppendedOrder DEF MayFollow
<1> HIDE DEF i
<1>3. ASSUME NEW alt \in ToSet(types[n].alts)
      PROVE  CanonicalIn(lines, Do(alt)) = CanonicalIn(lines, alt.cpp)
  <2>1. alt \in TypeRefs(types[n])
    BY DEF TypeRefs
  <2>2. Before(types, ord, alt.cpp, i)
    BY <1>1, <1>2, <2>1, RefBefore
  <2>3. CASE ~alt.inline
    <3>1. alt.cpp.name \in DOMAIN types /\ ~alt.cpp.vec
      BY <1>1, <2>1, <2>3 DEF ValidAST, validate, ASTOK
    <3>2. alt.cpp.name \in Upto(ord, i) /\ alt.cpp = Plain(alt.cpp.name)
      BY <2>2, <3>1 DEF Before, IsCpp, Plain
    <3>3. CanonicalIn(lines, resolveTypeName(types, st.chain, alt.cpp.name)) =
            CanonicalIn(lines, Plain(alt.cpp.name))
      BY <1>2, <3>2, ResolveKeeps
    <3> QED BY <2>3, <3>2, <3>3
  <2> QED BY <2>3
<1>4. processVariantAlternatives(types, st.chain, types[n]) = {Do(alt) : alt \in ToSet(types[n].alts)}
  BY DEF processVariantAlternatives
<1> HIDE DEF Do
<1> QED BY <1>3, <1>4 DEF Canonicals

\* One more definition changes nothing of what may be used already.
Stable(types, ord, lines, all) ==
    \A c : Before(types, ord, c, Len(ord) + 1) => CanonicalIn(all, c) = CanonicalIn(lines, c)

(* The definition of n, and what it leaves alone. *)
LEMMA LineMeans ==
    ASSUME NEW types, NEW ord, NEW lines, NEW st, Emitted(types, ord, lines, st),
           NEW n, MayFollow(types, ord, n), NEW line, line.name = n,
           NEW all, Longer(lines, line, all)
    PROVE  /\ Stable(types, ord, lines, all)
           /\ CanonicalIn(all, String) = CanonicalIn(lines, String)
           /\ line.def = "alias" =>
                CanonicalIn(all, Plain(n)) = CanonicalIn(lines, line.to)
           /\ line.def = "variant" =>
                CanonicalIn(all, Plain(n)) = OneOf(Canonicals(lines, line.alts))
<1>1. /\ Len(ord) \in Nat /\ DOMAIN ord = 1..Len(ord) /\ n \notin Upto(ord, Len(ord) + 1)
      /\ ToSet(ord) = Upto(ord, Len(ord) + 1) /\ n \in DOMAIN types
  BY AppendedOrder DEF MayFollow
<1>2. IsList(lines) /\ Len(lines) = Len(ord)
  BY DEF Emitted, LinesOK
<1>3. DOMAIN lines = DOMAIN ord
  BY <1>1, <1>2, ListFacts
<1>4. Fresh(lines, line.name)
  <2> SUFFICES ASSUME NEW j \in DOMAIN lines PROVE lines[j].name # line.name
    BY DEF Fresh
  <2>1. LineOK(types, ord, lines[j], j)
    BY <1>3 DEF Emitted, LinesOK
  <2>2. lines[j].name = ord[j]
    BY <2>1 DEF LineOK
  <2>3. ord[j] \in ToSet(ord)
    BY <1>3 DEF ToSet
  <2> QED BY <1>1, <2>2, <2>3
<1>5. /\ \A c : c.vec \/ c.name # n => CanonicalIn(all, c) = CanonicalIn(lines, c)
      /\ line.def = "alias" => CanonicalIn(all, Plain(n)) = CanonicalIn(lines, line.to)
      /\ line.def = "variant" =>
           CanonicalIn(all, Plain(n)) = OneOf(Canonicals(lines, line.alts))
  BY <1>2, <1>4, CanonicalGrows
<1>6. ASSUME NEW c, Before(types, ord, c, Len(ord) + 1)
      PROVE  CanonicalIn(all, c) = CanonicalIn(lines, c)
  <2>1. c.vec \/ c.name # n
    BY <1>1, <1>6 DEF Before
  <2> QED BY <1>5, <2>1
<1>7. String.name # n
  BY <1>1 DEF Emitted, Settled, ValidAST, ASTOK
<1> QED BY <1>5, <1>6, <1>7 DEF Stable

LEMMA StableCanonicals ==
    ASSUME NEW types, NEW ord, NEW lines, NEW all, Stable(types, ord, lines, all),
           NEW S, \A c \in S : Before(types, ord, c, Len(ord) + 1)
    PROVE  Canonicals(all, S) = Canonicals(lines, S)
BY DEF Stable, Canonicals

(* What has been emitted stays right. *)
LEMMA KeptStays ==
    ASSUME NEW types, NEW ord, NEW lines, NEW st, Emitted(types, ord, lines, st),
           Kept(types, ord, lines, st), NEW all, Stable(types, ord, lines, all),
           CanonicalIn(all, String) = CanonicalIn(lines, String)
    PROVE  Kept(types, ord, all, st)
<1>0. /\ ValidAST(types) /\ OrderOK(types, ord) /\ ChainOK(types, ord, st.chain)
      /\ SignaturesOK(types, ord, st.signatures)
      /\ VariantsOK(types, ord, lines) /\ Strings(types, ord, lines)
      /\ SameSignatures(lines, st.signatures) /\ SameChains(lines, st.chain)
  BY DEF Emitted, Settled, Kept
<1>1. Len(ord) \in Nat /\ DOMAIN ord = 1..Len(ord) /\ \A i \in DOMAIN ord : ord[i] \in DOMAIN types
  BY <1>0, OrderFacts
<1> DEFINE e == Len(ord) + 1
<1>2. e \in 1..Len(ord) + 1 /\ e \in Nat
  BY <1>1
<1>3. \A i \in DOMAIN ord : i \in Nat /\ i <= e /\ i \in 1..Len(ord) + 1
  BY <1>1
<1> HIDE DEF e
<1>4. \A c : Before(types, ord, c, e) => CanonicalIn(all, c) = CanonicalIn(lines, c)
  BY DEF Stable, e
<1>5. ASSUME NEW i \in DOMAIN ord PROVE Before(types, ord, Plain(ord[i]), e)
  <2>1. ord[i] \in Upto(ord, e)
    <3>1. i \in 1..e - 1
      BY <1>1 DEF e
    <3> QED BY <3>1 DEF Upto
  <2> QED BY <1>0, <1>2, <2>1, NameBefore
<1>6. \A i \in DOMAIN ord : CanonicalIn(all, Plain(ord[i])) = CanonicalIn(lines, Plain(ord[i]))
  BY <1>4, <1>5
<1>7. VariantsOK(types, ord, all)
  <2> SUFFICES ASSUME NEW i \in DOMAIN ord, types[ord[i]].k = "variant"
               PROVE  CanonicalIn(all, Plain(ord[i])) =
                        OneOf(Canonicals(all, {alt.cpp : alt \in ToSet(types[ord[i]].alts)}))
    BY DEF VariantsOK
  <2> DEFINE S == {alt.cpp : alt \in ToSet(types[ord[i]].alts)}
  <2>1. ASSUME NEW alt \in ToSet(types[ord[i]].alts) PROVE Before(types, ord, alt.cpp, e)
    <3>1. alt \in TypeRefs(types[ord[i]])
      BY DEF TypeRefs
    <3>2. Dependencies(types, ord[i]) \subseteq Upto(ord, i)
      BY <1>0 DEF OrderOK
    <3>3. Before(types, ord, alt.cpp, i)
      BY <1>0, <1>1, <3>1, <3>2, RefBefore
    <3> QED BY <1>2, <1>3, <3>3, BeforeLater
  <2>2. \A c \in S : Before(types, ord, c, Len(ord) + 1)
    BY <2>1 DEF e
  <2>3. CanonicalIn(lines, Plain(ord[i])) = OneOf(Canonicals(lines, S))
    BY <1>0 DEF VariantsOK
  <2> HIDE DEF S
  <2>4. Canonicals(all, S) = Canonicals(lines, S)
    BY <2>2, StableCanonicals
  <2> QED BY <1>6, <2>3, <2>4 DEF S
<1>8. Strings(types, ord, all)
  BY <1>0, <1>6 DEF Strings
<1>9. SameSignatures(all, st.signatures)
  <2> SUFFICES ASSUME NEW s \in DOMAIN st.signatures
               PROVE  CanonicalIn(all, st.signatures[s]) = OneOf(Canonicals(all, ToSet(s)))
    BY DEF SameSignatures
  <2>1. PICK i \in DOMAIN ord : st.signatures[s] = Plain(ord[i])
    BY <1>0 DEF SignaturesOK
  <2>2. \A c \in ToSet(s) : Before(types, ord, c, Len(ord) + 1)
    BY <1>0 DEF SignaturesOK
  <2>3. Canonicals(all, ToSet(s)) = Canonicals(lines, ToSet(s))
    BY <2>2, StableCanonicals
  <2>4. CanonicalIn(all, st.signatures[s]) = CanonicalIn(lines, st.signatures[s])
    BY <1>6, <2>1
  <2>5. CanonicalIn(lines, st.signatures[s]) = OneOf(Canonicals(lines, ToSet(s)))
    BY <1>0 DEF SameSignatures
  <2> QED BY <2>3, <2>4, <2>5
<1>10. SameChains(all, st.chain)
  <2> SUFFICES ASSUME NEW x \in DOMAIN st.chain
               PROVE  CanonicalIn(all, x) = CanonicalIn(all, st.chain[x])
    BY DEF SameChains
  <2>1. PICK i \in DOMAIN ord : x = Plain(ord[i])
    BY <1>0 DEF ChainOK
  <2>2. Before(types, ord, st.chain[x], i)
    BY <1>0, <2>1 DEF ChainOK
  <2>3. Before(types, ord, st.chain[x], e)
    BY <1>2, <1>3, <2>2, BeforeLater
  <2>4. CanonicalIn(lines, x) = CanonicalIn(lines, st.chain[x])
    BY <1>0 DEF SameChains
  <2> QED BY <1>4, <1>6, <2>1, <2>3, <2>4
<1> QED BY <1>7, <1>8, <1>9, <1>10 DEF Kept

(* A string by another name. *)
LEMMA StringMeans ==
    ASSUME NEW types, OnlyStrings(types), NEW n \in DOMAIN types,
           types[n].k = "prim", ~types[n].enum
    PROVE  /\ emitOther(n, types[n]).def = "alias"
           /\ emitOther(n, types[n]).to = String
<1>1. types[n].cpp = "std::string"
  BY DEF OnlyStrings
<1>2. emitOther(n, types[n]) = Alias(n, Cpp(FALSE, <<types[n].cpp>>))
  BY DEF emitOther
<1> QED BY <1>1, <1>2 DEF Alias, String

\* The new definition is the choice between the variant's alternatives.
IsChoice(types, n, s, st, line, all, st2) ==
    /\ line.name = n
    /\ CanonicalIn(all, Plain(n)) = OneOf(Canonicals(all, ToSet(s)))
    /\ CanonicalIn(all, Plain(n)) =
         OneOf(Canonicals(all, {alt.cpp : alt \in ToSet(types[n].alts)}))
    /\ st2.chain = st.chain \/ \E target :
         /\ st2.chain = Insert(st.chain, Plain(n), target)
         /\ CanonicalIn(all, Plain(n)) = CanonicalIn(all, target)
    /\ st2.signatures = st.signatures \/ st2.signatures = Insert(st.signatures, s, Plain(n))

(* The new definition of a variant. *)
LEMMA VariantMeans ==
    ASSUME NEW types, NEW ord, NEW lines, NEW st, Emitted(types, ord, lines, st),
           Kept(types, ord, lines, st), NEW n, MayFollow(types, ord, n),
           types[n].k = "variant",
           NEW s, NEW line, NEW st2, Emits(types, st, n, s, line, st2),
           NEW all, Longer(lines, line, all)
    PROVE  IsChoice(types, n, s, st, line, all, st2)
<1> DEFINE i == Len(ord) + 1
           A == {alt.cpp : alt \in ToSet(types[n].alts)}
<1>1. /\ IsList(s)
      /\ ToSet(s) = processVariantAlternatives(types, st.chain, types[n])
      /\ \A c \in ToSet(s) : Before(types, ord, c, i)
      /\ \/ \E target : Folds(n, s, st, line, st2, target) /\ Before(types, ord, target, i)
         \/ Stands(n, s, st, line, st2)
  BY VariantEmits
<1>2. ValidAST(types) /\ n \in DOMAIN types /\ i \in 1..Len(ord) + 1
      /\ Dependencies(types, n) \subseteq Upto(ord, i)
  <2>1. Len(ord) \in Nat /\ ToSet(ord) = Upto(ord, i)
    BY AppendedOrder
  <2> QED BY <2>1 DEF Emitted, Settled, MayFollow
<1>3. Canonicals(lines, ToSet(s)) = Canonicals(lines, A)
  <2>1. Canonicals(lines, processVariantAlternatives(types, st.chain, types[n])) =
          Canonicals(lines, A)
    BY ProcessedKeeps
  <2> QED BY <1>1, <2>1
<1>4. \A c \in A : Before(types, ord, c, i)
  <2> HIDE DEF i
  <2> SUFFICES ASSUME NEW alt \in ToSet(types[n].alts) PROVE Before(types, ord, alt.cpp, i)
    OBVIOUS
  <2>1. alt \in TypeRefs(types[n])
    BY DEF TypeRefs
  <2> QED BY <1>2, <2>1, RefBefore
<1> HIDE DEF A
<1>5. CASE Stands(n, s, st, line, st2)
  <2>1. line.name = n /\ line.def = "variant" /\ line.alts = ToSet(s)
    BY <1>5 DEF Stands
  <2>2. /\ Stable(types, ord, lines, all)
        /\ CanonicalIn(all, Plain(n)) = OneOf(Canonicals(lines, ToSet(s)))
    BY <2>1, LineMeans
  <2>3. Canonicals(all, ToSet(s)) = Canonicals(lines, ToSet(s))
    BY <1>1, <2>2, StableCanonicals
  <2>4. Canonicals(all, A) = Canonicals(lines, A)
    BY <1>4, <2>2, StableCanonicals
  <2> QED BY <1>3, <1>5, <2>1, <2>2, <2>3, <2>4 DEF Stands, A, IsChoice
<1>6. CASE \E target : Folds(n, s, st, line, st2, target) /\ Before(types, ord, target, i)
  <2>1. PICK target : Folds(n, s, st, line, st2, target) /\ Before(types, ord, target, i)
    BY <1>6
  <2>2. line.name = n /\ line.def = "alias" /\ line.to = target
    BY <2>1 DEF Folds, Alias
  <2>3. /\ Stable(types, ord, lines, all)
        /\ CanonicalIn(all, Plain(n)) = CanonicalIn(lines, target)
    BY <2>2, LineMeans
  <2>4. Canonicals(all, ToSet(s)) = Canonicals(lines, ToSet(s))
    BY <1>1, <2>3, StableCanonicals
  <2>5. Canonicals(all, A) = Canonicals(lines, A)
    BY <1>4, <2>3, StableCanonicals
  <2>6. CanonicalIn(all, target) = CanonicalIn(lines, target)
    BY <2>1, <2>3 DEF Stable
  <2>7. CanonicalIn(lines, target) = OneOf(Canonicals(lines, ToSet(s)))
    <3>1. CASE s \in DOMAIN st.signatures /\ target = st.signatures[s]
      BY <3>1 DEF Kept, SameSignatures
    <3>2. CASE Len(s) = 1 /\ target = s[1]
      <4>1. ToSet(s) = {target}
        BY <1>1, <3>2, ListFacts DEF ToSet
      <4>2. Canonicals(lines, ToSet(s)) = {CanonicalIn(lines, target)}
        BY <4>1 DEF Canonicals
      <4> QED BY <4>2, OneOfOne
    <3> QED BY <2>1, <3>1, <3>2 DEF Folds
  <2>8. /\ st2.chain = Insert(st.chain, Plain(n), target)
        /\ st2.signatures = st.signatures \/ st2.signatures = Insert(st.signatures, s, Plain(n))
    BY <2>1 DEF Folds
  <2>9. /\ CanonicalIn(all, Plain(n)) = OneOf(Canonicals(all, ToSet(s)))
        /\ CanonicalIn(all, Plain(n)) = OneOf(Canonicals(all, A))
        /\ CanonicalIn(all, Plain(n)) = CanonicalIn(all, target)
    BY <1>3, <2>3, <2>4, <2>5, <2>6, <2>7
  <2> QED BY <2>2, <2>8, <2>9 DEF A, IsChoice
<1> QED BY <1>1, <1>5, <1>6

LEMMA KeptGrows ==
    ASSUME NEW types, NEW ord, NEW lines, NEW st, Emitted(types, ord, lines, st),
           Kept(types, ord, lines, st), OnlyStrings(types), NEW n, MayFollow(types, ord, n),
           NEW s, NEW line, NEW st2, Emits(types, st, n, s, line, st2)
    PROVE  Kept(types, Append(ord, n), Append(lines, line), st2)
<1> DEFINE new == Append(ord, n)
           all == Append(lines, line)
<1>1. /\ Len(ord) \in Nat /\ DOMAIN ord = 1..Len(ord)
      /\ DOMAIN new = 1..Len(ord) + 1
      /\ \A j \in 1..Len(ord) : new[j] = ord[j]
      /\ new[Len(ord) + 1] = n
  BY AppendedOrder
<1>2. n \in DOMAIN types /\ ASTOK(types)
  BY DEF MayFollow, Emitted, Settled, ValidAST
<1>3. Longer(lines, line, all)
  BY ListGrows DEF Emitted, LinesOK, Longer
<1> HIDE DEF new, all
<1>4. line.name = n
  <2>1. CASE types[n].k = "variant"
    <3>1. IsChoice(types, n, s, st, line, all, st2)
      BY <1>3, <2>1, VariantMeans
    <3> QED BY <3>1 DEF IsChoice
  <2>2. CASE types[n].k # "variant"
    BY <1>2, <2>2, OtherName DEF Emits
  <2> QED BY <2>1, <2>2
<1>5. /\ Stable(types, ord, lines, all)
      /\ CanonicalIn(all, String) = CanonicalIn(lines, String)
      /\ line.def = "alias" => CanonicalIn(all, Plain(n)) = CanonicalIn(lines, line.to)
  BY <1>3, <1>4, LineMeans
<1>6. Kept(types, ord, all, st)
  BY <1>5, KeptStays
<1>7. /\ VariantsOK(types, ord, all) /\ Strings(types, ord, all)
      /\ SameSignatures(all, st.signatures) /\ SameChains(all, st.chain)
  BY <1>6 DEF Kept
\* The earlier types.
<1>8. ASSUME types[n].k = "variant" =>
               CanonicalIn(all, Plain(n)) =
                 OneOf(Canonicals(all, {alt.cpp : alt \in ToSet(types[n].alts)}))
      PROVE  VariantsOK(types, new, all)
  <2> SUFFICES ASSUME NEW j \in DOMAIN new, types[new[j]].k = "variant"
               PROVE  CanonicalIn(all, Plain(new[j])) =
                        OneOf(Canonicals(all, {alt.cpp : alt \in ToSet(types[new[j]].alts)}))
    BY DEF VariantsOK
  <2>1. CASE j \in DOMAIN ord
    BY <1>1, <1>7, <2>1 DEF VariantsOK
  <2>2. CASE j = Len(ord) + 1
    BY <1>1, <1>8, <2>2
  <2> QED BY <1>1, <2>1, <2>2
<1>9. ASSUME types[n].k = "prim" /\ ~types[n].enum =>
               CanonicalIn(all, Plain(n)) = CanonicalIn(all, String)
      PROVE  Strings(types, new, all)
  <2> SUFFICES ASSUME NEW j \in DOMAIN new, types[new[j]].k = "prim", ~types[new[j]].enum
               PROVE  CanonicalIn(all, Plain(new[j])) = CanonicalIn(all, String)
    BY DEF Strings
  <2>1. CASE j \in DOMAIN ord
    BY <1>1, <1>7, <2>1 DEF Strings
  <2>2. CASE j = Len(ord) + 1
    BY <1>1, <1>9, <2>2
  <2> QED BY <1>1, <2>1, <2>2
<1>10. CASE types[n].k # "variant"
  <2>1. line = emitOther(n, types[n]) /\ st2 = st
    BY <1>10 DEF Emits
  <2>2. VariantsOK(types, new, all)
    BY <1>8, <1>10
  <2>3. ASSUME types[n].k = "prim", ~types[n].enum
        PROVE  CanonicalIn(all, Plain(n)) = CanonicalIn(all, String)
    BY <1>2, <1>5, <2>1, <2>3, StringMeans
  <2>4. Strings(types, new, all)
    BY <1>9, <2>3
  <2> QED BY <1>7, <2>1, <2>2, <2>4 DEF Kept, new, all
<1>11. CASE types[n].k = "variant"
  <2>1. /\ CanonicalIn(all, Plain(n)) = OneOf(Canonicals(all, ToSet(s)))
        /\ CanonicalIn(all, Plain(n)) =
             OneOf(Canonicals(all, {alt.cpp : alt \in ToSet(types[n].alts)}))
        /\ st2.chain = st.chain \/ \E target :
             /\ st2.chain = Insert(st.chain, Plain(n), target)
             /\ CanonicalIn(all, Plain(n)) = CanonicalIn(all, target)
        /\ st2.signatures = st.signatures \/ st2.signatures = Insert(st.signatures, s, Plain(n))
    <3>1. IsChoice(types, n, s, st, line, all, st2)
      BY <1>3, <1>11, VariantMeans
    <3> QED BY <3>1 DEF IsChoice
  <2>2. VariantsOK(types, new, all)
    BY <1>8, <2>1
  <2>3. Strings(types, new, all)
    BY <1>9, <1>11
  <2>4. SameChains(all, st2.chain)
    <3>1. CASE st2.chain = st.chain
      BY <1>7, <3>1
    <3>2. ASSUME NEW target, st2.chain = Insert(st.chain, Plain(n), target),
                 CanonicalIn(all, Plain(n)) = CanonicalIn(all, target),
                 NEW x \in DOMAIN st2.chain
          PROVE  CanonicalIn(all, x) = CanonicalIn(all, st2.chain[x])
      <4>1. CASE x = Plain(n)
        BY <3>2, <4>1 DEF Insert
      <4>2. CASE x # Plain(n)
        <5>1. x \in DOMAIN st.chain /\ st2.chain[x] = st.chain[x]
          BY <3>2, <4>2 DEF Insert
        <5> QED BY <1>7, <5>1 DEF SameChains
      <4> QED BY <4>1, <4>2
    <3> QED BY <2>1, <3>1, <3>2 DEF SameChains
  <2>5. SameSignatures(all, st2.signatures)
    <3>1. CASE st2.signatures = st.signatures
      BY <1>7, <3>1
    <3>2. ASSUME st2.signatures = Insert(st.signatures, s, Plain(n)),
                 NEW q \in DOMAIN st2.signatures
          PROVE  CanonicalIn(all, st2.signatures[q]) = OneOf(Canonicals(all, ToSet(q)))
      <4>1. CASE q = s
        <5>1. st2.signatures[q] = Plain(n)
          BY <3>2, <4>1 DEF Insert
        <5> QED BY <2>1, <4>1, <5>1
      <4>2. CASE q # s
        <5>1. q \in DOMAIN st.signatures /\ st2.signatures[q] = st.signatures[q]
          BY <3>2, <4>2 DEF Insert
        <5> QED BY <1>7, <5>1 DEF SameSignatures
      <4> QED BY <4>1, <4>2
    <3> QED BY <2>1, <3>1, <3>2 DEF SameSignatures
  <2> QED BY <2>2, <2>3, <2>4, <2>5 DEF Kept, new, all
<1> QED BY <1>10, <1>11

LEMMA NothingKept ==
    ASSUME NEW types PROVE Kept(types, <<>>, <<>>, NewState)
<1>1. NewState.chain = <<>> /\ NewState.signatures = <<>> /\ DOMAIN <<>> = {}
  BY DEF NewState
<1> QED BY <1>1 DEF Kept, VariantsOK, Strings, SameSignatures, SameChains

\* Variants keep their alternatives, when strings are the only named primitives.
ChoicesOK ==
    Begun => (OnlyStrings(ast) => Kept(ast, order, header, emit))

THEOREM ChoicesInvariant == Spec => []ChoicesOK
<1>1. Init => ChoicesOK
  BY DEF Init, ChoicesOK, Begun
<1>2. HeaderOK /\ ChoicesOK /\ [Next]_vars => ChoicesOK'
  <2> SUFFICES ASSUME HeaderOK, ChoicesOK, [Next]_vars PROVE ChoicesOK'
    OBVIOUS
  <2>1. CASE Reject
    BY <2>1 DEF Reject, ChoicesOK, Begun, input, defs
  <2>2. CASE BuildAST
    BY <2>2 DEF BuildAST, ChoicesOK, Begun, defs
  <2>3. CASE ValidateAST
    BY <2>3 DEF ValidateAST, ChoicesOK, Begun, input, defs
  <2>4. CASE Sort
    <3>1. order = <<>> /\ header = <<>> /\ emit = NewState
      BY <2>4 DEF Sort, HeaderOK, Begun
    <3>2. Kept(ast, order, header, emit)
      BY <3>1, NothingKept
    <3> QED BY <2>4, <3>1, <3>2 DEF Sort, ChoicesOK, Begun, input, defs
  <2>5. CASE EmitType
    <3>1. Emitted(ast, order, header, emit)
      BY <2>5 DEF EmitType, HeaderOK, Begun
    <3>2. PICK n, s, line :
            /\ MayFollow(ast, order, n) /\ order' = Append(order, n)
            /\ header' = Append(header, line) /\ Emits(ast, emit, n, s, line, emit')
      BY <2>5, <3>1, EmitTypeEmits
    <3>3. OnlyStrings(ast) => Kept(ast, order, header, emit)
      BY <2>5 DEF EmitType, ChoicesOK, Begun
    <3>4. OnlyStrings(ast) => Kept(ast, order', header', emit')
      BY <3>1, <3>2, <3>3, KeptGrows
    <3> QED BY <2>5, <3>4 DEF EmitType, ChoicesOK, Begun, input
  <2>6. CASE GenerateDefsCpp
    BY <2>6 DEF GenerateDefsCpp, ChoicesOK, Begun, input
  <2>7. CASE GenerateClient \/ GenerateServer \/ WriteCMake
    BY <2>7 DEF GenerateClient, GenerateServer, WriteCMake, ChoicesOK, Begun, input, defs
  <2>8. CASE UNCHANGED vars
    BY <2>8 DEF vars, ChoicesOK, Begun
  <2> QED BY <2>1, <2>2, <2>3, <2>4, <2>5, <2>6, <2>7, <2>8 DEF Next
<1> QED BY <1>1, <1>2, HeaderInvariant, PTL DEF Spec

LEMMA ChoicesAreKept ==
    ASSUME HeaderOK, ChoicesOK PROVE AlternativesKept
<1> SUFFICES ASSUME OnlyStrings(ast), NEW n \in ToSet(order), ast[n].k = "variant"
             PROVE  Canonical(Cpp(FALSE, n)) =
                      OneOf({Canonical(alt.cpp) : alt \in ToSet(ast[n].alts)})
  BY DEF AlternativesKept, OnlyStrings
<1>1. Begun
  <2>1. order # <<>>
    BY SmallLists
  <2> QED BY <2>1 DEF HeaderOK
<1>2. VariantsOK(ast, order, header)
  BY <1>1 DEF ChoicesOK, Kept
<1>3. PICK i \in DOMAIN order : n = order[i]
  BY DEF ToSet
<1>4. CanonicalIn(header, Plain(n)) =
        OneOf(Canonicals(header, {alt.cpp : alt \in ToSet(ast[n].alts)}))
  BY <1>2, <1>3 DEF VariantsOK
<1>5. Canonicals(header, {alt.cpp : alt \in ToSet(ast[n].alts)}) =
        {CanonicalIn(header, alt.cpp) : alt \in ToSet(ast[n].alts)}
  BY DEF Canonicals
<1> QED BY <1>4, <1>5 DEF Canonical, Plain

(* However variants are folded into earlier ones and their alternatives resolved  *)
(* through aliases, the type emitted for a oneOf or anyOf is the choice between    *)
(* the alternatives the AST lists, for every document whose named primitives are   *)
(* strings and enums, and every order.                                             *)
THEOREM VariantsKeepAlternatives == Spec => []AlternativesKept
BY HeaderInvariant, ChoicesInvariant, ChoicesAreKept, PTL
-----------------------------------------------------------------------------
(* Where chains end. *)

(* An order is no longer than there are types. *)
LEMMA OrderLength ==
    ASSUME NEW types, ASTOK(types), NEW ord, OrderOK(types, ord)
    PROVE  Len(ord) <= Cardinality(DOMAIN types) /\ Cardinality(DOMAIN types) \in Nat
<1>1. Len(ord) \in Nat /\ DOMAIN ord = 1..Len(ord) /\ \A i \in DOMAIN ord : ord[i] \in DOMAIN types
  BY OrderFacts
<1>2. \A i, j \in DOMAIN ord : ord[i] = ord[j] => i = j
  BY DEF OrderOK
<1>3. ord = [i \in DOMAIN ord |-> ord[i]]
  BY OrderFacts, ListFacts
<1> DEFINE D == 1..Len(ord)
<1>4. ord \in Injection(D, DOMAIN types)
  BY <1>1, <1>2, <1>3 DEF Injection, IsInjective
<1>5. Cardinality(D) = Len(ord)
  <2>1. 1 \in Int /\ Len(ord) \in Int
    BY <1>1
  <2>2. Cardinality(D) = IF 1 > Len(ord) THEN 0 ELSE Len(ord) - 1 + 1
    BY <2>1, FS_Interval
  <2> QED BY <1>1, <2>2
<1> HIDE DEF D
<1>6. IsFiniteSet(DOMAIN types)
  BY DEF ASTOK
<1>7. Cardinality(D) <= Cardinality(DOMAIN types)
  BY <1>4, <1>6, FS_Injection
<1> QED BY <1>5, <1>6, <1>7, FS_CardinalityType

\* The types from which chains are followed, and how far they are from an end.
Reached(types, ord, chain, x) ==
    {y \in {x} \cup DOMAIN chain \cup {chain[z] : z \in DOMAIN chain} :
        Before(types, ord, y, Len(ord) + 1)}
Place(ord, y) == CHOOSE k \in DOMAIN ord : y = Plain(ord[k])
Distance(types, ord, chain, x) ==
    [y \in Reached(types, ord, chain, x) |-> IF y \in DOMAIN chain THEN Place(ord, y) ELSE 0]

LEMMA PlaceOf ==
    ASSUME NEW types, NEW ord, OrderOK(types, ord), NEW k \in DOMAIN ord
    PROVE  Place(ord, Plain(ord[k])) = k
<1> DEFINE j == Place(ord, Plain(ord[k]))
<1>1. j \in DOMAIN ord /\ Plain(ord[k]) = Plain(ord[j])
  BY DEF Place
<1> HIDE DEF j
<1>2. ord[k] = ord[j]
  BY <1>1 DEF Plain, Cpp
<1> QED BY <1>1, <1>2 DEF OrderOK, j

LEMMA ChainRanked ==
    ASSUME NEW types, NEW ord, NEW chain, Settled(types, ord, chain),
           NEW x, Before(types, ord, x, Len(ord) + 1)
    PROVE  /\ Ranked(chain, Reached(types, ord, chain, x), Distance(types, ord, chain, x))
           /\ x \in Reached(types, ord, chain, x)
           /\ \A y \in Reached(types, ord, chain, x) :
                 Distance(types, ord, chain, x)[y] <= Cardinality(DOMAIN types)
<1> DEFINE P == Reached(types, ord, chain, x)
           r == Distance(types, ord, chain, x)
           e == Len(ord) + 1
<1>1. Len(ord) \in Nat /\ DOMAIN ord = 1..Len(ord) /\ OrderOK(types, ord)
  BY OrderFacts DEF Settled
<1>2. e \in 1..Len(ord) + 1
  BY <1>1
<1>3. Len(ord) <= Cardinality(DOMAIN types) /\ Cardinality(DOMAIN types) \in Nat
  BY <1>1, OrderLength DEF Settled, ValidAST
<1>4. ASSUME NEW y \in P, y \in DOMAIN chain
      PROVE  \E k \in DOMAIN ord : y = Plain(ord[k]) /\ r[y] = k
                                   /\ Before(types, ord, chain[y], k)
                                   /\ Before(types, ord, chain[y], e)
  <2>1. Before(types, ord, y, e)
    BY DEF Reached
  <2> HIDE DEF e
  <2>2. /\ Before(types, ord, chain[y], e)
        /\ \E k \in DOMAIN ord : y = Plain(ord[k]) /\ k < e /\ Before(types, ord, chain[y], k)
    BY <1>2, <1>4, <2>1, ChainStep
  <2>3. PICK k \in DOMAIN ord : y = Plain(ord[k]) /\ k < e /\ Before(types, ord, chain[y], k)
    BY <2>2
  <2>4. Place(ord, y) = k
    BY <1>1, <2>3, PlaceOf
  <2>5. r[y] = k
    BY <1>4, <2>4 DEF Distance
  <2> QED BY <2>2, <2>3, <2>5
<1>5. \A y \in P : y \notin DOMAIN chain => r[y] = 0
  BY DEF Distance
<1>6. ASSUME NEW y \in P PROVE r[y] \in Nat /\ r[y] <= Cardinality(DOMAIN types)
  <2> HIDE DEF P, r, e
  <2>1. CASE y \in DOMAIN chain
    BY <1>1, <1>3, <1>4, <2>1
  <2> QED BY <1>3, <1>5, <2>1
<1>7. ASSUME NEW y \in P, y \in DOMAIN chain PROVE chain[y] \in P /\ r[chain[y]] < r[y]
  <2>1. PICK k \in DOMAIN ord : y = Plain(ord[k]) /\ r[y] = k
                                /\ Before(types, ord, chain[y], k)
                                /\ Before(types, ord, chain[y], e)
    BY <1>4, <1>7
  <2>2. chain[y] \in P
    BY <1>7, <2>1 DEF Reached
  <2>3. k \in Nat /\ k > 0
    BY <1>1
  <2> HIDE DEF P, r
  <2>4. CASE chain[y] \in DOMAIN chain
    <3>1. PICK j \in DOMAIN ord : chain[y] = Plain(ord[j]) /\ r[chain[y]] = j
      BY <1>4, <2>2, <2>4
    <3>2. ord[j] \in DOMAIN types
      BY <1>1, OrderFacts
    <3>3. ord[j] \in Upto(ord, k)
      BY <2>1, <3>1, <3>2 DEF Before, Plain, Cpp
    <3>4. k \in 1..Len(ord) + 1
      BY <1>1
    <3>5. j < k
      BY <1>1, <3>3, <3>4, PlaceBefore
    <3> QED BY <2>1, <2>2, <3>1, <3>5
  <2> QED BY <1>5, <2>1, <2>2, <2>3, <2>4
<1>8. x \in P
  BY DEF Reached
<1> QED BY <1>6, <1>7, <1>8 DEF Ranked

(* A chain's end is the end of the rest of it, and there it ends. *)
LEMMA ChainUnfolds ==
    ASSUME NEW types, NEW ord, NEW chain, Settled(types, ord, chain),
           NEW x, Before(types, ord, x, Len(ord) + 1)
    PROVE  /\ chainEnd(types, chain, x) =
                IF x \in DOMAIN chain THEN chainEnd(types, chain, chain[x]) ELSE x
           /\ chainEnd(types, chain, x) \notin DOMAIN chain
<1> DEFINE P == Reached(types, ord, chain, x)
           r == Distance(types, ord, chain, x)
           n == Cardinality(DOMAIN types)
<1>1. Ranked(chain, P, r) /\ x \in P /\ r[x] <= n
  BY ChainRanked
<1>2. n \in Nat
  BY OrderLength DEF Settled, ValidAST
<1> HIDE DEF P, r
<1>3. Follow(chain, x, n) = IF x \in DOMAIN chain THEN Follow(chain, chain[x], n) ELSE x
  BY <1>1, <1>2, FollowUnfolds
<1>4. Follow(chain, x, n) \notin DOMAIN chain
  BY <1>1, <1>2, FollowSettles
<1> QED BY <1>3, <1>4 DEF chainEnd

\* What a type is taken for in the end: a named primitive counts as a string.
AsString(types, x) ==
    IF ~x.vec /\ x.name \in DOMAIN types /\ types[x.name].k = "prim" /\ ~types[x.name].enum
    THEN String ELSE x
Final(types, chain, x) == AsString(types, chainEnd(types, chain, x))

LEMMA FinalUnfolds ==
    ASSUME NEW types, NEW ord, NEW chain, Settled(types, ord, chain),
           NEW x, Before(types, ord, x, Len(ord) + 1)
    PROVE  Final(types, chain, x) =
             IF x \in DOMAIN chain THEN Final(types, chain, chain[x]) ELSE AsString(types, x)
BY ChainUnfolds DEF Final

\* Only variants in the order have chains.
LEMMA Chained ==
    ASSUME NEW types, NEW ord, NEW chain, Settled(types, ord, chain), NEW x \in DOMAIN chain
    PROVE  ~x.vec /\ x.name \in DOMAIN types /\ types[x.name].k = "variant"
<1>1. PICK i \in DOMAIN ord : x = Plain(ord[i]) /\ types[ord[i]].k = "variant"
  BY DEF Settled, ChainOK
<1>2. ord[i] \in DOMAIN types
  BY OrderFacts DEF Settled
<1> QED BY <1>1, <1>2 DEF Plain, Cpp

LEMMA StringIsFinal ==
    ASSUME NEW types, NEW ord, NEW chain, Settled(types, ord, chain), NEW i
    PROVE  Before(types, ord, String, i) /\ Final(types, chain, String) = String
<1>1. String.name \notin DOMAIN types /\ String.name \in Builtin /\ IsCpp(String)
  BY DEF Settled, ValidAST, ASTOK, String, Cpp, Builtin, Primitives, IsCpp
<1>2. \A j : Before(types, ord, String, j)
  BY <1>1 DEF Before
<1>3. String \notin DOMAIN chain
  BY <1>1, Chained
<1>4. Final(types, chain, String) = AsString(types, String)
  BY <1>2, <1>3, FinalUnfolds
<1> QED BY <1>1, <1>2, <1>4 DEF AsString

LEMMA FinalTwice ==
    ASSUME NEW types, NEW ord, NEW chain, Settled(types, ord, chain),
           NEW x, Before(types, ord, x, Len(ord) + 1)
    PROVE  Final(types, chain, Final(types, chain, x)) = Final(types, chain, x)
<1> DEFINE z == chainEnd(types, chain, x)
<1>1. z \notin DOMAIN chain
  BY ChainUnfolds
<1>2. Len(ord) + 1 \in 1..Len(ord) + 1
  BY OrderFacts DEF Settled
<1>3. Before(types, ord, z, Len(ord) + 1)
  BY <1>2, ChainEndBefore
<1>4. Final(types, chain, x) = AsString(types, z)
  BY DEF Final
<1> HIDE DEF z
<1>5. Final(types, chain, z) = AsString(types, z)
  BY <1>1, <1>3, FinalUnfolds
<1>6. AsString(types, z) = String \/ AsString(types, z) = z
  BY DEF AsString
<1> QED BY <1>4, <1>5, <1>6, StringIsFinal

\* A new chain from a type that comes after all others is no matter for them.
Changes(chain, chain2, x) == \A y : y # x => Step(chain, y) = Step(chain2, y)

LEMMA NotNew ==
    ASSUME NEW types, NEW ord, NEW n, MayFollow(types, ord, n),
           NEW x, Before(types, ord, x, Len(ord) + 1)
    PROVE  x # Plain(n)
<1>1. n \notin Upto(ord, Len(ord) + 1) /\ n \in DOMAIN types
  BY AppendedOrder DEF MayFollow
<1> QED BY <1>1 DEF Before, Plain, Cpp

LEMMA FinalStays ==
    ASSUME NEW types, NEW ord, NEW chain, Settled(types, ord, chain),
           NEW n, MayFollow(types, ord, n), NEW chain2, Changes(chain, chain2, Plain(n)),
           NEW x, Before(types, ord, x, Len(ord) + 1)
    PROVE  Final(types, chain2, x) = Final(types, chain, x)
<1> DEFINE P == Reached(types, ord, chain, x)
<1>1. \A y \in P : y \in DOMAIN chain => chain[y] \in P
  BY ChainRanked DEF Ranked
<1>2. x \in P
  BY DEF Reached
<1>3. \A y \in P : Before(types, ord, y, Len(ord) + 1)
  BY DEF Reached
<1> HIDE DEF P
<1>4. Agree(chain, chain2, P)
  BY <1>3, NotNew DEF Agree, Changes
<1>5. Cardinality(DOMAIN types) \in Nat
  BY FS_CardinalityType DEF Settled, ValidAST, ASTOK
<1>6. Follow(chain, x, Cardinality(DOMAIN types)) = Follow(chain2, x, Cardinality(DOMAIN types))
  BY <1>1, <1>2, <1>4, <1>5, FollowSame
<1> QED BY <1>6 DEF Final, chainEnd

\* Variants with one alternative are aliases.
LoneFolded(types, ord, chain) ==
    \A i \in DOMAIN ord :
        types[ord[i]].k = "variant" /\ Len(types[ord[i]].alts) = 1 => Plain(ord[i]) \in DOMAIN chain

(* So chains lead past them, and resolving a name is following its chain. *)
LEMMA FoldedResolves ==
    ASSUME NEW types, NEW ord, NEW chain, Settled(types, ord, chain),
           LoneFolded(types, ord, chain), NEW name \in Upto(ord, Len(ord) + 1)
    PROVE  resolveTypeName(types, chain, name) = Final(types, chain, Plain(name))
<1> DEFINE z == EndOf(types, chain, name)
<1>1. Len(ord) + 1 \in 1..Len(ord) + 1 /\ OrderOK(types, ord) /\ ValidAST(types)
  BY OrderFacts DEF Settled
<1>2. Before(types, ord, Plain(name), Len(ord) + 1)
  BY <1>1, NameBefore
<1>3. Before(types, ord, z, Len(ord) + 1)
  BY <1>1, <1>2, ChainEndBefore DEF EndOf
<1>4. z \notin DOMAIN chain
  BY <1>2, ChainUnfolds DEF EndOf
<1> HIDE DEF z
<1>5. ~(~z.vec /\ z.name \in DOMAIN types /\ types[z.name].k = "variant" /\ Len(types[z.name].alts) = 1)
  <2> SUFFICES ASSUME ~z.vec, z.name \in DOMAIN types, types[z.name].k = "variant",
                      Len(types[z.name].alts) = 1
               PROVE  FALSE
    OBVIOUS
  <2>1. Used(types, ord, z, Len(ord) + 1)
    BY <1>1, <1>3 DEF Used
  <2>2. PICK k \in DOMAIN ord : z = Plain(ord[k])
    BY <2>1, UsedIsOrdered
  <2>3. z.name = ord[k]
    BY <2>2 DEF Plain, Cpp
  <2> QED BY <1>4, <2>2, <2>3 DEF LoneFolded
<1>6. name \notin DOMAIN forward(types, chain)
  BY <1>5 DEF z, forward, Forwards, EndOf, Plain
<1>7. LastName(types, chain, name) = name
  <2>1. Cardinality(DOMAIN types) \in Nat
    BY <1>1, FS_CardinalityType DEF ValidAST, ASTOK
  <2> QED BY <1>6, <2>1, FollowAtEnd DEF LastName
<1>8. resolveTypeName(types, chain, name) = Resolved(types, z)
  BY <1>7, ResolveIs DEF z
<1>9. Resolved(types, z) = AsString(types, z)
  BY <1>5 DEF Resolved, AsString
<1> QED BY <1>8, <1>9 DEF z, EndOf, Final

-----------------------------------------------------------------------------
(* Names resolved without chains, as generateDefsCpp does. *)

LEMMA NoChains ==
    ASSUME NEW types, NEW ord, ValidAST(types), OrderOK(types, ord)
    PROVE  Settled(types, ord, <<>>) /\ \A x : chainEnd(types, <<>>, x) = x
<1>1. DOMAIN <<>> = {}
  BY SmallLists
<1>2. Settled(types, ord, <<>>)
  BY <1>1 DEF Settled, ChainOK
<1>3. Cardinality(DOMAIN types) \in Nat
  BY FS_CardinalityType DEF ValidAST, ASTOK
<1>4. ASSUME NEW x PROVE chainEnd(types, <<>>, x) = x
  BY <1>1, <1>3, FollowAtEnd DEF chainEnd
<1> QED BY <1>2, <1>4

\* A name resolved without chains.
Unchained(types, name) == resolveTypeName(types, <<>>, name)
Alone(types, n) ==
    IF types[n].k = "prim" /\ ~types[n].enum THEN String
    ELSE IF types[n].k = "variant" /\ Len(types[n].alts) = 1
    THEN IF types[n].alts[1].inline THEN types[n].alts[1].cpp
         ELSE Unchained(types, types[n].alts[1].cpp.name)
    ELSE Plain(n)

(* Forwarding goes to earlier places. *)
LEMMA ForwardRanked ==
    ASSUME NEW types, NEW ord, ValidAST(types), OrderOK(types, ord),
           NEW P, P = Upto(ord, Len(ord) + 1),
           NEW r, r = [y \in P |-> Place(ord, Plain(y))]
    PROVE  /\ Ranked(forward(types, <<>>), P, r)
           /\ \A y \in P : r[y] <= Cardinality(DOMAIN types)
<1>1. Len(ord) \in Nat /\ DOMAIN ord = 1..Len(ord) /\ Len(ord) + 1 \in 1..Len(ord) + 1
      /\ (Len(ord) + 1) - 1 = Len(ord)
  BY OrderFacts
<1>2. Len(ord) <= Cardinality(DOMAIN types) /\ Cardinality(DOMAIN types) \in Nat
  BY OrderLength DEF ValidAST
<1>3. ASSUME NEW j \in DOMAIN ord PROVE ord[j] \in P /\ r[ord[j]] = j
  <2>1. ord[j] \in P
    BY <1>1 DEF Upto
  <2> QED BY <2>1, PlaceOf
<1>4. ASSUME NEW y \in P PROVE \E j \in DOMAIN ord : y = ord[j] /\ r[y] = j
  <2>1. PICK j \in DOMAIN ord : y = ord[j]
    BY <1>1 DEF Upto
  <2> QED BY <1>3, <2>1
<1>5. ASSUME NEW y \in P, y \in DOMAIN forward(types, <<>>)
      PROVE  forward(types, <<>>)[y] \in P /\ r[forward(types, <<>>)[y]] < r[y]
  <2>1. PICK i \in DOMAIN ord : y = ord[i] /\ r[y] = i
    BY <1>4
  <2>2. y \in Upto(ord, Len(ord) + 1)
    OBVIOUS
  <2>3. Settled(types, ord, <<>>)
    BY NoChains
  <2>4. PICK k \in DOMAIN ord : \E alt : ForwardsTo(types, ord, <<>>, y, k, alt)
    BY <1>1, <1>5, <2>2, <2>3, ForwardStep
  <2>5. EndOf(types, <<>>, y) = Plain(y)
    BY NoChains DEF EndOf
  <2>6. k = i
    <3>1. Plain(y) = Plain(ord[k])
      BY <2>4, <2>5 DEF ForwardsTo
    <3>2. y = ord[k]
      BY <3>1 DEF Plain, Cpp
    <3> QED BY <2>1, <3>2 DEF OrderOK
  <2>7. forward(types, <<>>)[y] \in Upto(ord, i)
    BY <2>4, <2>6 DEF ForwardsTo
  <2>8. PICK j \in 1..i - 1 : forward(types, <<>>)[y] = ord[j]
    BY <2>7 DEF Upto
  <2>9. j \in DOMAIN ord /\ j < i
    BY <1>1, <2>8
  <2> QED BY <1>3, <2>1, <2>8, <2>9
<1>6. ASSUME NEW y \in P PROVE r[y] \in Nat /\ r[y] <= Cardinality(DOMAIN types)
  BY <1>1, <1>2, <1>4
<1> QED BY <1>5, <1>6 DEF Ranked

LEMMA UnchainedResolves ==
    ASSUME NEW types, NEW ord, ValidAST(types), OrderOK(types, ord), NEW k \in DOMAIN ord
    PROVE  Unchained(types, ord[k]) = Alone(types, ord[k])
<1> DEFINE n == ord[k]
           f == forward(types, <<>>)
           P == Upto(ord, Len(ord) + 1)
           r == [y \in P |-> Place(ord, Plain(y))]
           c == Cardinality(DOMAIN types)
<1>1. Len(ord) \in Nat /\ DOMAIN ord = 1..Len(ord) /\ (Len(ord) + 1) - 1 = Len(ord)
      /\ n \in DOMAIN types
  BY OrderFacts
<1>2. n \in P
  BY <1>1 DEF Upto
<1>3. Ranked(f, P, r) /\ \A y \in P : r[y] <= c
  BY ForwardRanked
<1>4. c \in Nat
  BY OrderLength DEF ValidAST
<1>5. /\ n \in DOMAIN f <=> /\ types[n].k = "variant" /\ Len(types[n].alts) = 1
                           /\ ~types[n].alts[1].inline
      /\ n \in DOMAIN f => f[n] = types[n].alts[1].cpp.name
  <2>1. EndOf(types, <<>>, n) = Plain(n)
    BY NoChains DEF EndOf
  <2>2. chainEnd(types, <<>>, Cpp(FALSE, n)) = Cpp(FALSE, n)
    BY NoChains
  <2>3. ~Cpp(FALSE, n).vec /\ Cpp(FALSE, n).name = n
    BY DEF Cpp
  <2> HIDE DEF n
  <2> QED BY <1>1, <2>2, <2>3 DEF f, forward, Forwards
<1> HIDE DEF n, f, P, r, c
<1>6. Follow(f, n, c) = IF n \in DOMAIN f THEN Follow(f, f[n], c) ELSE n
  BY <1>2, <1>3, <1>4, FollowUnfolds
<1>7. \A m : LastName(types, <<>>, m) = Follow(f, m, c)
  BY DEF LastName, f, c
<1>8. \A m : Unchained(types, m) = Resolved(types, Plain(Follow(f, m, c)))
  <2> TAKE m
  <2>1. resolveTypeName(types, <<>>, m) =
          Resolved(types, EndOf(types, <<>>, LastName(types, <<>>, m)))
    BY ResolveIs
  <2>2. EndOf(types, <<>>, LastName(types, <<>>, m)) = Plain(LastName(types, <<>>, m))
    BY NoChains DEF EndOf
  <2> QED BY <1>7, <2>1, <2>2 DEF Unchained
<1>9. Unchained(types, n) = IF n \in DOMAIN f THEN Unchained(types, f[n]) ELSE Resolved(types, Plain(n))
  BY <1>6, <1>8
<1>10. Resolved(types, Plain(n)) =
         IF types[n].k = "prim" /\ ~types[n].enum THEN String
         ELSE IF types[n].k = "variant" /\ Len(types[n].alts) = 1 THEN types[n].alts[1].cpp
         ELSE Plain(n)
  BY <1>1 DEF Resolved, Plain, Cpp
<1>11. Unchained(types, n) = Alone(types, n)
  BY <1>5, <1>9, <1>10 DEF Alone
<1> QED BY <1>11 DEF n

-----------------------------------------------------------------------------
(* Every definition that is no alias has a serialization. *)

\* A type ends where the same name resolved without chains does, and so does the
\* variant a signature of one type stands for.
SameEnds(types, ord, chain) ==
    \A i \in DOMAIN ord :
        Final(types, chain, Plain(ord[i])) = Final(types, chain, Unchained(types, ord[i]))
SameFolds(types, sigs, chain) ==
    \A s \in DOMAIN sigs : Len(s) = 1 => Final(types, chain, sigs[s]) = Final(types, chain, s[1])
Serialized(types, ord, lines) ==
    \A i \in DOMAIN ord : lines[i].def # "alias" => HasSerialization(types, ord[i])
Paired(types, ord, lines, st) ==
    /\ LoneFolded(types, ord, st.chain)
    /\ SameEnds(types, ord, st.chain)
    /\ SameFolds(types, st.signatures, st.chain)
    /\ Serialized(types, ord, lines)

(* A set of one alternative has one sequence. *)
LEMMA OneAlternative ==
    ASSUME NEW q, NEW s \in SetToSeqs({q})
    PROVE  Len(s) = 1 /\ s[1] = q
<1>1. IsList(s) /\ Len(s) = 1 /\ ToSet(s) = {q}
  BY FS_Singleton, SeqsOfSet
<1>2. s[1] \in ToSet(s)
  BY <1>1, ListFacts DEF ToSet
<1> QED BY <1>1, <1>2

(* Emitting a variant changes the chain of its own name only. *)
LEMMA VariantChanges ==
    ASSUME NEW n, NEW s, NEW st, NEW line, NEW st2,
           \/ \E target : Folds(n, s, st, line, st2, target)
           \/ Stands(n, s, st, line, st2)
    PROVE  Changes(st.chain, st2.chain, Plain(n))
<1>1. CASE Stands(n, s, st, line, st2)
  BY <1>1 DEF Stands, Changes
<1>2. ASSUME NEW target, Folds(n, s, st, line, st2, target)
      PROVE  Changes(st.chain, st2.chain, Plain(n))
  <2>1. st2.chain = Insert(st.chain, Plain(n), target)
    BY <1>2 DEF Folds
  <2> QED BY <2>1 DEF Insert, Changes, Step
<1> QED BY <1>1, <1>2

(* A name used by a type resolves as it does without chains, up to its end. *)
LEMMA SameResolved ==
    ASSUME NEW types, NEW ord, NEW chain, Settled(types, ord, chain),
           LoneFolded(types, ord, chain), SameEnds(types, ord, chain),
           NEW name \in Upto(ord, Len(ord) + 1)
    PROVE  /\ resolveTypeName(types, chain, name) = Final(types, chain, Unchained(types, name))
           /\ Final(types, chain, resolveTypeName(types, chain, name)) =
                Final(types, chain, Unchained(types, name))
<1>1. Len(ord) \in Nat /\ DOMAIN ord = 1..Len(ord) /\ Len(ord) + 1 \in 1..Len(ord) + 1
      /\ (Len(ord) + 1) - 1 = Len(ord) /\ OrderOK(types, ord) /\ ValidAST(types)
  BY OrderFacts DEF Settled
<1>2. PICK i \in DOMAIN ord : name = ord[i]
  BY <1>1 DEF Upto
<1>3. resolveTypeName(types, chain, name) = Final(types, chain, Plain(name))
  BY FoldedResolves
<1>4. Final(types, chain, Plain(name)) = Final(types, chain, Unchained(types, name))
  BY <1>2 DEF SameEnds
<1>5. Before(types, ord, Plain(name), Len(ord) + 1)
  BY <1>1, NameBefore
<1>6. Final(types, chain, Final(types, chain, Plain(name))) = Final(types, chain, Plain(name))
  BY <1>5, FinalTwice
<1> QED BY <1>3, <1>4, <1>6

\* A reference of a type that may come next leads to an earlier one.
LEMMA RefEarlier ==
    ASSUME NEW types, ValidAST(types), NEW ord, NEW n, MayFollow(types, ord, n),
           NEW ref \in TypeRefs(types[n])
    PROVE  /\ Before(types, ord, ref.cpp, Len(ord) + 1)
           /\ ~ref.inline => ref.cpp.name \in Upto(ord, Len(ord) + 1)
<1>1. n \in DOMAIN types /\ Dependencies(types, n) \subseteq Upto(ord, Len(ord) + 1)
  BY AppendedOrder DEF MayFollow
<1>2. Before(types, ord, ref.cpp, Len(ord) + 1)
  BY <1>1, RefBefore
<1>3. ~ref.inline => ref.cpp.name \in DOMAIN types
  BY <1>1 DEF ValidAST, validate
<1> QED BY <1>2, <1>3 DEF Before

\* What the steps below start from: a variant n comes next.
NextVariant(types, ord, lines, st, n, s, line, st2) ==
    /\ Emitted(types, ord, lines, st) /\ Paired(types, ord, lines, st)
    /\ MayFollow(types, ord, n) /\ types[n].k = "variant"
    /\ Emits(types, st, n, s, line, st2)

(* What it is an alias of ends where it does. *)
LEMMA FoldedEnds ==
    ASSUME NEW types, NEW ord, NEW lines, NEW st, NEW n, NEW s, NEW line, NEW st2,
           NextVariant(types, ord, lines, st, n, s, line, st2),
           NEW target, Folds(n, s, st, line, st2, target),
           Before(types, ord, target, Len(ord) + 1)
    PROVE  /\ Plain(n) \in DOMAIN st2.chain
           /\ Final(types, st2.chain, Plain(n)) = Final(types, st.chain, target)
           /\ Len(s) = 1 => Final(types, st2.chain, Plain(n)) = Final(types, st.chain, s[1])
<1>1. Settled(types, ord, st.chain) /\ MayFollow(types, ord, n)
      /\ SameFolds(types, st.signatures, st.chain)
  BY DEF NextVariant, Emitted, Paired
<1>2. Settled(types, Append(ord, n), st2.chain)
  <2>1. Emitted(types, Append(ord, n), Append(lines, line), st2)
    BY EmitKeeps DEF NextVariant
  <2> QED BY <2>1 DEF Emitted
<1>3. st2.chain = Insert(st.chain, Plain(n), target)
  BY DEF Folds
<1>4. Plain(n) \in DOMAIN st2.chain /\ st2.chain[Plain(n)] = target
  BY <1>3 DEF Insert
<1>5. Changes(st.chain, st2.chain, Plain(n))
  BY VariantChanges
<1>6. Before(types, Append(ord, n), Plain(n), Len(Append(ord, n)) + 1)
  <2>1. /\ Len(Append(ord, n)) = Len(ord) + 1 /\ Len(ord) \in Nat
        /\ DOMAIN Append(ord, n) = 1..Len(ord) + 1
        /\ Append(ord, n)[Len(ord) + 1] = n
    BY <1>1, AppendedOrder
  <2> DEFINE new == Append(ord, n)
  <2> HIDE DEF new
  <2>2. Len(ord) + 1 \in 1..(Len(new) + 1) - 1 /\ new[Len(ord) + 1] = n
    BY <2>1 DEF new
  <2>3. n \in Upto(new, Len(new) + 1)
    BY <2>2 DEF Upto
  <2>4. Len(new) + 1 \in 1..Len(new) + 1
    BY <2>1 DEF new
  <2>5. OrderOK(types, new) /\ ValidAST(types)
    BY <1>2 DEF Settled, new
  <2> QED BY <2>3, <2>4, <2>5, NameBefore DEF new
<1>7. Final(types, st2.chain, Plain(n)) = Final(types, st2.chain, target)
  BY <1>2, <1>4, <1>6, FinalUnfolds
<1>8. Final(types, st2.chain, target) = Final(types, st.chain, target)
  BY <1>1, <1>5, FinalStays
<1>9. Len(s) = 1 => Final(types, st.chain, target) = Final(types, st.chain, s[1])
  BY <1>1 DEF Folds, SameFolds
<1> QED BY <1>4, <1>7, <1>8, <1>9

(* A variant with one alternative becomes an alias, of what ends where it does. *)
LEMMA LoneFolds ==
    ASSUME NEW types, NEW ord, NEW lines, NEW st, NEW n, NEW s, NEW line, NEW st2,
           NextVariant(types, ord, lines, st, n, s, line, st2),
           NEW alt, Lone(types, n, alt)
    PROVE  /\ Plain(n) \in DOMAIN st2.chain
           /\ Final(types, st2.chain, Plain(n)) =
                Final(types, st.chain, IF alt.inline THEN alt.cpp
                                       ELSE Unchained(types, alt.cpp.name))
<1> DEFINE q == IF alt.inline THEN alt.cpp ELSE resolveTypeName(types, st.chain, alt.cpp.name)
<1>1. /\ Settled(types, ord, st.chain) /\ ValidAST(types) /\ MayFollow(types, ord, n)
      /\ LoneFolded(types, ord, st.chain) /\ SameEnds(types, ord, st.chain)
      /\ Emitted(types, ord, lines, st) /\ types[n].k = "variant"
      /\ Emits(types, st, n, s, line, st2)
  BY DEF NextVariant, Emitted, Paired, Settled
<1>2. n \in DOMAIN types /\ ASTOK(types)
  BY <1>1 DEF MayFollow, ValidAST
<1>3. ToSet(types[n].alts) = {alt}
  BY <1>2, Alternatives DEF Lone
<1>4. alt \in TypeRefs(types[n])
  BY <1>1, <1>3 DEF TypeRefs
<1>5. processVariantAlternatives(types, st.chain, types[n]) = {q}
  BY <1>3 DEF processVariantAlternatives
<1> HIDE DEF q
<1>6. Len(s) = 1 /\ s[1] = q
  BY <1>1, <1>5, OneAlternative DEF Emits
<1>7. PICK target : /\ Folds(n, s, st, line, st2, target)
                    /\ Before(types, ord, target, Len(ord) + 1)
  BY <1>1, <1>6, VariantEmits DEF Stands
<1>8. /\ Plain(n) \in DOMAIN st2.chain
      /\ Final(types, st2.chain, Plain(n)) = Final(types, st.chain, q)
  BY <1>6, <1>7, FoldedEnds
<1>9. CASE alt.inline
  BY <1>8, <1>9 DEF q
<1>10. CASE ~alt.inline
  <2>1. alt.cpp.name \in Upto(ord, Len(ord) + 1)
    BY <1>1, <1>4, <1>10, RefEarlier
  <2>2. Final(types, st.chain, q) = Final(types, st.chain, Unchained(types, alt.cpp.name))
    BY <1>1, <1>10, <2>1, SameResolved DEF q
  <2> QED BY <1>8, <1>10, <2>2
<1> QED BY <1>9, <1>10

(* A type used inline is its own end. *)
LEMMA InlineIsFinal ==
    ASSUME NEW types, NEW ord, NEW chain, Settled(types, ord, chain),
           NEW x, Before(types, ord, x, Len(ord) + 1),
           ~x.vec /\ x.name \in DOMAIN types => types[x.name].k = "struct"
    PROVE  Final(types, chain, x) = x
<1>1. x \notin DOMAIN chain
  BY Chained
<1>2. Final(types, chain, x) = AsString(types, x)
  BY <1>1, FinalUnfolds
<1> QED BY <1>2 DEF AsString

(* A variant of several types without chains has several with them. *)
LEMMA StandsApart ==
    ASSUME NEW types, NEW ord, NEW lines, NEW st, NEW n, NEW s, NEW line, NEW st2,
           NextVariant(types, ord, lines, st, n, s, line, st2), InlineAreStructs(types),
           Cardinality(processVariantAlternatives(types, <<>>, types[n])) = 1
    PROVE  Len(s) = 1
<1> DEFINE alts == ToSet(types[n].alts)
           With(chain, alt) == IF alt.inline THEN alt.cpp
                               ELSE resolveTypeName(types, chain, alt.cpp.name)
<1>1. /\ Settled(types, ord, st.chain) /\ ValidAST(types) /\ MayFollow(types, ord, n)
      /\ LoneFolded(types, ord, st.chain) /\ SameEnds(types, ord, st.chain)
      /\ types[n].k = "variant" /\ Emits(types, st, n, s, line, st2)
  BY DEF NextVariant, Emitted, Paired, Settled
<1>2. n \in DOMAIN types /\ ASTOK(types)
  BY <1>1 DEF MayFollow, ValidAST
<1>3. PICK t : processVariantAlternatives(types, <<>>, types[n]) = {t}
  BY <1>1, <1>2, ProcessedFinite, FS_Singleton
<1>4. \A alt \in alts : With(<<>>, alt) = t
  BY <1>3 DEF processVariantAlternatives
<1>5. alts = TypeRefs(types[n])
  BY <1>1, <1>2, Alternatives
<1>6. PICK first : first \in alts
  <2>1. 1 \in DOMAIN types[n].alts
    BY <1>1, <1>2, Alternatives
  <2> QED BY <2>1 DEF ToSet
<1>7. \A alt \in alts : alt.inline /\ ~alt.cpp.vec /\ alt.cpp.name \in DOMAIN types =>
                          types[alt.cpp.name].k = "struct"
  BY <1>1, <1>2 DEF InlineAreStructs
<1> HIDE DEF alts
<1>8. ASSUME NEW alt \in alts PROVE With(st.chain, alt) = Final(types, st.chain, t)
  <2>1. CASE alt.inline
    <3>1. alt.cpp = t
      BY <1>4, <2>1
    <3>2. Before(types, ord, alt.cpp, Len(ord) + 1)
      BY <1>1, <1>5, RefEarlier
    <3>3. Final(types, st.chain, alt.cpp) = alt.cpp
      BY <1>1, <1>7, <2>1, <3>2, InlineIsFinal
    <3> QED BY <2>1, <3>1, <3>3
  <2>2. CASE ~alt.inline
    <3>1. Unchained(types, alt.cpp.name) = t
      BY <1>4, <2>2 DEF Unchained
    <3>2. alt.cpp.name \in Upto(ord, Len(ord) + 1)
      BY <1>1, <1>5, <2>2, RefEarlier
    <3>3. resolveTypeName(types, st.chain, alt.cpp.name) = Final(types, st.chain, t)
      BY <1>1, <3>1, <3>2, SameResolved
    <3> QED BY <2>2, <3>3
  <2> QED BY <2>1, <2>2
<1>9. processVariantAlternatives(types, st.chain, types[n]) = {With(st.chain, alt) : alt \in alts}
  BY DEF processVariantAlternatives, alts
<1> HIDE DEF With
<1>10. processVariantAlternatives(types, st.chain, types[n]) = {Final(types, st.chain, t)}
  BY <1>6, <1>8, <1>9
<1> QED BY <1>1, <1>10, OneAlternative DEF Emits

LEMMA OtherSerialized ==
    ASSUME NEW types, ASTOK(types), NEW n \in DOMAIN types, types[n].k # "variant",
           emitOther(n, types[n]).def # "alias"
    PROVE  HasSerialization(types, n)
<1>1. CASE types[n].k = "struct"
  BY <1>1 DEF HasSerialization
<1>2. CASE types[n].k = "array"
  BY <1>2 DEF emitOther, Alias
<1>3. CASE types[n].k = "prim" /\ types[n].enum
  BY <1>3 DEF HasSerialization
<1>4. CASE types[n].k = "prim" /\ ~types[n].enum
  BY <1>4 DEF emitOther, Alias
<1> QED BY <1>1, <1>2, <1>3, <1>4, Kinds

(* Where the new type ends, and whether its definition has a serialization. *)
LEMMA NewVariant ==
    ASSUME NEW types, NEW ord, NEW lines, NEW st, NEW n, NEW s, NEW line, NEW st2,
           NextVariant(types, ord, lines, st, n, s, line, st2), InlineAreStructs(types),
           Unchained(types, n) = Alone(types, n)
    PROVE  /\ Len(types[n].alts) = 1 => Plain(n) \in DOMAIN st2.chain
           /\ Final(types, st2.chain, Plain(n)) = Final(types, st2.chain, Unchained(types, n))
           /\ SameFolds(types, st2.signatures, st2.chain)
           /\ line.def # "alias" => HasSerialization(types, n)
<1>1. /\ Settled(types, ord, st.chain) /\ ValidAST(types) /\ MayFollow(types, ord, n)
      /\ Emitted(types, ord, lines, st) /\ SameFolds(types, st.signatures, st.chain)
      /\ types[n].k = "variant" /\ Emits(types, st, n, s, line, st2)
  BY DEF NextVariant, Emitted, Paired, Settled
<1>2. n \in DOMAIN types /\ ASTOK(types)
  BY <1>1 DEF MayFollow, ValidAST
<1>3. \/ \E target : /\ Folds(n, s, st, line, st2, target)
                     /\ Before(types, ord, target, Len(ord) + 1)
      \/ Stands(n, s, st, line, st2)
  BY <1>1, VariantEmits
<1>4. Changes(st.chain, st2.chain, Plain(n))
  BY <1>3, VariantChanges
<1>5. ASSUME NEW x, Before(types, ord, x, Len(ord) + 1)
      PROVE  Final(types, st2.chain, x) = Final(types, st.chain, x)
  BY <1>1, <1>4, <1>5, FinalStays
<1>6. ASSUME Len(types[n].alts) = 1
      PROVE  /\ Plain(n) \in DOMAIN st2.chain
             /\ Final(types, st2.chain, Plain(n)) = Final(types, st2.chain, Unchained(types, n))
  <2> DEFINE alt == types[n].alts[1]
  <2>1. Lone(types, n, alt)
    BY <1>1, <1>2, <1>6 DEF Lone
  <2>2. ToSet(types[n].alts) = {alt}
    BY <1>1, <1>2, <1>6, Alternatives
  <2>3. Unchained(types, n) = IF alt.inline THEN alt.cpp ELSE Unchained(types, alt.cpp.name)
    BY <1>1, <1>6 DEF Alone
  <2> HIDE DEF alt
  <2>4. alt \in TypeRefs(types[n])
    BY <1>1, <2>2 DEF TypeRefs
  <2>5. Before(types, ord, Unchained(types, n), Len(ord) + 1)
    <3>1. CASE alt.inline
      BY <1>1, <2>3, <2>4, <3>1, RefEarlier
    <3>2. CASE ~alt.inline
      <4>1. alt.cpp.name \in Upto(ord, Len(ord) + 1)
        BY <1>1, <2>4, <3>2, RefEarlier
      <4>2. Len(ord) + 1 \in 1..Len(ord) + 1 /\ Settled(types, ord, <<>>)
        BY <1>1, OrderFacts, NoChains DEF Settled
      <4>3. Before(types, ord, resolveTypeName(types, <<>>, alt.cpp.name), Len(ord) + 1)
        BY <4>1, <4>2, ResolveBefore
      <4> QED BY <2>3, <3>2, <4>3 DEF Unchained
    <3> QED BY <3>1, <3>2
  <2>6. /\ Plain(n) \in DOMAIN st2.chain
        /\ Final(types, st2.chain, Plain(n)) = Final(types, st.chain, Unchained(types, n))
    BY <2>1, <2>3, LoneFolds
  <2> QED BY <1>5, <2>5, <2>6
<1>7. ASSUME Len(types[n].alts) # 1 PROVE Unchained(types, n) = Plain(n)
  BY <1>1, <1>7 DEF Alone
<1>8. SameFolds(types, st2.signatures, st2.chain)
  <2> SUFFICES ASSUME NEW q \in DOMAIN st2.signatures, Len(q) = 1
               PROVE  Final(types, st2.chain, st2.signatures[q]) = Final(types, st2.chain, q[1])
    BY DEF SameFolds
  <2>1. CASE q \in DOMAIN st.signatures /\ st2.signatures[q] = st.signatures[q]
    <3>1. /\ IsList(q) /\ \A c \in ToSet(q) : Before(types, ord, c, Len(ord) + 1)
          /\ \E i \in DOMAIN ord : st.signatures[q] = Plain(ord[i])
      BY <1>1, <2>1 DEF Emitted, SignaturesOK
    <3>2. q[1] \in ToSet(q)
      BY <3>1, ListFacts DEF ToSet
    <3>3. PICK i \in DOMAIN ord : st.signatures[q] = Plain(ord[i])
      BY <3>1
    <3>4. Len(ord) \in Nat /\ DOMAIN ord = 1..Len(ord) /\ Len(ord) + 1 \in 1..Len(ord) + 1
          /\ (Len(ord) + 1) - 1 = Len(ord) /\ OrderOK(types, ord)
      BY <1>1, OrderFacts DEF Settled
    <3>5. ord[i] \in Upto(ord, Len(ord) + 1)
      BY <3>4 DEF Upto
    <3>6. Before(types, ord, st.signatures[q], Len(ord) + 1)
      BY <1>1, <3>3, <3>4, <3>5, NameBefore
    <3>7. Final(types, st.chain, st.signatures[q]) = Final(types, st.chain, q[1])
      BY <1>1, <2>1 DEF SameFolds
    <3> QED BY <1>5, <2>1, <3>1, <3>2, <3>6, <3>7
  <2>2. CASE q = s /\ st2.signatures[q] = Plain(n)
    <3>1. PICK target : /\ Folds(n, s, st, line, st2, target)
                        /\ Before(types, ord, target, Len(ord) + 1)
      BY <1>3, <2>2 DEF Stands
    <3>2. Final(types, st2.chain, Plain(n)) = Final(types, st.chain, s[1])
      BY <2>2, <3>1, FoldedEnds
    <3>3. IsList(s) /\ \A c \in ToSet(s) : Before(types, ord, c, Len(ord) + 1)
      BY <1>1, VariantEmits
    <3>4. s[1] \in ToSet(s)
      BY <2>2, <3>3, ListFacts DEF ToSet
    <3> QED BY <1>5, <2>2, <3>2, <3>3, <3>4
  <2>3. \/ st2.signatures = st.signatures
        \/ st2.signatures = Insert(st.signatures, s, Plain(n))
    BY <1>3 DEF Folds, Stands
  <2>4. CASE st2.signatures = Insert(st.signatures, s, Plain(n))
    <3>1. /\ DOMAIN st2.signatures = DOMAIN st.signatures \cup {s}
          /\ st2.signatures[s] = Plain(n)
          /\ \A z \in DOMAIN st.signatures : z # s => st2.signatures[z] = st.signatures[z]
      BY <2>4 DEF Insert
    <3> QED BY <2>1, <2>2, <3>1
  <2> QED BY <2>1, <2>3, <2>4
<1>9. ASSUME line.def # "alias" PROVE HasSerialization(types, n)
  <2>1. Stands(n, s, st, line, st2)
    BY <1>3, <1>9 DEF Folds, Alias
  <2>2. Len(s) # 1
    BY <2>1 DEF Stands
  <2>3. Cardinality(processVariantAlternatives(types, <<>>, types[n])) # 1
    BY <2>2, StandsApart
  <2> QED BY <1>1, <2>3 DEF HasSerialization
<1> QED BY <1>6, <1>7, <1>8, <1>9

LEMMA PairedGrows ==
    ASSUME NEW types, NEW ord, NEW lines, NEW st, Emitted(types, ord, lines, st),
           InlineAreStructs(types), Paired(types, ord, lines, st), NEW n, MayFollow(types, ord, n),
           NEW s, NEW line, NEW st2, Emits(types, st, n, s, line, st2)
    PROVE  Paired(types, Append(ord, n), Append(lines, line), st2)
<1> DEFINE new == Append(ord, n)
           all == Append(lines, line)
           e == Len(ord) + 1
<1>1. /\ Settled(types, ord, st.chain) /\ ValidAST(types) /\ ASTOK(types) /\ OrderOK(types, ord)
      /\ n \in DOMAIN types /\ LinesOK(types, ord, lines)
      /\ LoneFolded(types, ord, st.chain) /\ SameEnds(types, ord, st.chain)
      /\ SameFolds(types, st.signatures, st.chain) /\ Serialized(types, ord, lines)
  BY DEF Emitted, Settled, ValidAST, MayFollow, Paired
<1>2. /\ Len(ord) \in Nat /\ DOMAIN ord = 1..Len(ord) /\ e \in 1..Len(ord) + 1
      /\ (Len(ord) + 1) - 1 = Len(ord)
      /\ DOMAIN new = 1..Len(ord) + 1
      /\ \A j \in 1..Len(ord) : new[j] = ord[j]
      /\ new[e] = n
  BY AppendedOrder
<1>3. /\ \A j \in 1..Len(ord) : all[j] = lines[j]
      /\ all[e] = line
  <2>1. IsList(lines) /\ Len(lines) = Len(ord)
    BY <1>1 DEF LinesOK
  <2> QED BY <2>1, ListGrows
<1>4. OrderOK(types, new)
  BY OrderGrows
<1>5. Unchained(types, n) = Alone(types, n)
  <2> HIDE DEF new, e
  <2>1. e \in DOMAIN new
    BY <1>2
  <2> QED BY <1>1, <1>2, <1>4, <2>1, UnchainedResolves
<1> HIDE DEF new, all, e
\* The new type.
<1>6. /\ types[n].k = "variant" /\ Len(types[n].alts) = 1 => Plain(n) \in DOMAIN st2.chain
      /\ Final(types, st2.chain, Plain(n)) = Final(types, st2.chain, Unchained(types, n))
      /\ SameFolds(types, st2.signatures, st2.chain)
      /\ line.def # "alias" => HasSerialization(types, n)
      /\ Changes(st.chain, st2.chain, Plain(n))
      /\ DOMAIN st.chain \subseteq DOMAIN st2.chain
  <2>1. CASE types[n].k = "variant"
    <3>1. NextVariant(types, ord, lines, st, n, s, line, st2)
      BY <2>1 DEF NextVariant
    <3>2. \/ \E target : Folds(n, s, st, line, st2, target)
          \/ Stands(n, s, st, line, st2)
      BY <2>1, VariantEmits
    <3>3. DOMAIN st.chain \subseteq DOMAIN st2.chain
      BY <3>2 DEF Folds, Stands, Insert
    <3> QED BY <1>5, <3>1, <3>2, <3>3, NewVariant, VariantChanges
  <2>2. CASE types[n].k # "variant"
    <3>1. line = emitOther(n, types[n]) /\ st2 = st
      BY <2>2 DEF Emits
    <3>2. Changes(st.chain, st2.chain, Plain(n))
      BY <3>1 DEF Changes
    <3>3. line.def # "alias" => HasSerialization(types, n)
      BY <1>1, <2>2, <3>1, OtherSerialized
    <3>4. Final(types, st.chain, Plain(n)) = Final(types, st.chain, Unchained(types, n))
      <4>1. CASE types[n].k = "prim" /\ ~types[n].enum
        <5>1. Settled(types, new, st.chain)
          <6>1. Emitted(types, new, all, st)
            BY <3>1, EmitKeeps DEF new, all
          <6> QED BY <6>1 DEF Emitted
        <5>2. Plain(n) \notin DOMAIN st.chain
          BY <1>1, <2>2, Chained DEF Plain, Cpp
        <5>3. Before(types, new, Plain(n), Len(new) + 1)
          <6>1. Len(new) = Len(ord) + 1
            BY AppendedOrder DEF new
          <6>2. e \in 1..(Len(new) + 1) - 1 /\ Len(new) + 1 \in 1..Len(new) + 1
            BY <1>2, <6>1 DEF e
          <6>3. n \in Upto(new, Len(new) + 1)
            BY <1>2, <6>2 DEF Upto
          <6> QED BY <1>1, <1>4, <6>2, <6>3, NameBefore
        <5>4. Final(types, st.chain, Plain(n)) = AsString(types, Plain(n))
          BY <5>1, <5>2, <5>3, FinalUnfolds
        <5>5. AsString(types, Plain(n)) = String /\ Unchained(types, n) = String
          BY <1>1, <1>5, <4>1 DEF AsString, Alone, Plain, Cpp
        <5>6. Final(types, st.chain, String) = String
          BY <5>1, StringIsFinal
        <5> QED BY <5>4, <5>5, <5>6
      <4>2. CASE ~(types[n].k = "prim" /\ ~types[n].enum)
        BY <1>5, <2>2, <4>2 DEF Alone
      <4> QED BY <4>1, <4>2
    <3> QED BY <1>1, <2>2, <3>1, <3>2, <3>3, <3>4
  <2> QED BY <2>1, <2>2
\* The earlier ones.
<1>7. ASSUME NEW x, Before(types, ord, x, Len(ord) + 1)
      PROVE  Final(types, st2.chain, x) = Final(types, st.chain, x)
  BY <1>1, <1>6, <1>7, FinalStays
<1>8. ASSUME NEW j \in 1..Len(ord)
      PROVE  Final(types, st2.chain, Plain(ord[j])) = Final(types, st2.chain, Unchained(types, ord[j]))
  <2>1. ord[j] \in Upto(ord, Len(ord) + 1) /\ Len(ord) + 1 \in 1..Len(ord) + 1
    BY <1>2 DEF Upto
  <2>2. Before(types, ord, Plain(ord[j]), Len(ord) + 1)
    BY <1>1, <2>1, NameBefore
  <2>3. Settled(types, ord, <<>>)
    BY <1>1, NoChains
  <2>4. Before(types, ord, Unchained(types, ord[j]), Len(ord) + 1)
    BY <2>1, <2>3, ResolveBefore DEF Unchained
  <2>5. Final(types, st.chain, Plain(ord[j])) = Final(types, st.chain, Unchained(types, ord[j]))
    BY <1>1, <1>2 DEF SameEnds
  <2> QED BY <1>7, <2>2, <2>4, <2>5
<1>9. ASSUME NEW j \in DOMAIN new
      PROVE  \/ j \in 1..Len(ord) /\ new[j] = ord[j] /\ all[j] = lines[j]
             \/ new[j] = n /\ all[j] = line
  BY <1>2, <1>3 DEF e
<1>10. LoneFolded(types, new, st2.chain)
  BY <1>1, <1>2, <1>6, <1>9 DEF LoneFolded
<1>11. SameEnds(types, new, st2.chain)
  BY <1>6, <1>8, <1>9 DEF SameEnds
<1>12. Serialized(types, new, all)
  BY <1>1, <1>2, <1>6, <1>9 DEF Serialized
<1> QED BY <1>6, <1>10, <1>11, <1>12 DEF Paired, new, all

LEMMA NothingPaired ==
    ASSUME NEW types PROVE Paired(types, <<>>, <<>>, NewState)
<1>1. NewState.chain = <<>> /\ NewState.signatures = <<>> /\ DOMAIN <<>> = {}
  BY SmallLists DEF NewState
<1> QED BY <1>1 DEF Paired, LoneFolded, SameEnds, SameFolds, Serialized

(* openapi_defs.cpp has what has a serialization. *)
LEMMA DefsCpp ==
    ASSUME NEW types, NEW ord, OrderOK(types, ord), NEW i \in DOMAIN ord,
           HasSerialization(types, ord[i])
    PROVE  ord[i] \in ToSet(generateDefsCpp(types, ord))
<1> DEFINE C == {k \in DOMAIN ord : HasSerialization(types, ord[k])}
<1>1. IsList(ord) /\ DOMAIN ord = 1..Len(ord)
  BY OrderFacts
<1>2. \A k \in DOMAIN ord : k \in C <=> HasSerialization(types, ord[k])
  OBVIOUS
<1>3. i \in (1..Len(ord)) \cap C
  BY <1>1
<1> HIDE DEF C
<1>4. generateDefsCpp(types, ord) = Chosen(ord, C)
  <2>1. Pieces(ord, C) =
          [k \in DOMAIN ord |-> IF HasSerialization(types, ord[k]) THEN <<ord[k]>> ELSE <<>>]
    BY <1>2 DEF Pieces, Piece
  <2> QED BY <2>1 DEF Chosen, generateDefsCpp
<1>5. ToSet(Chosen(ord, C)) = {ord[k] : k \in (1..Len(ord)) \cap C}
  BY <1>1, ChosenFacts
<1> QED BY <1>3, <1>4, <1>5

\* Definitions and serializations go together, when inline alternatives are structs.
Written == phase \in {"client", "server", "cmake", "done"}
BodiesOK ==
    /\ Begun => (InlineAreStructs(ast) => Paired(ast, order, header, emit))
    /\ Written => source = generateDefsCpp(ast, order)

THEOREM BodiesInvariant == Spec => []BodiesOK
<1>1. Init => BodiesOK
  BY DEF Init, BodiesOK, Begun, Written
<1>2. HeaderOK /\ BodiesOK /\ [Next]_vars => BodiesOK'
  <2> SUFFICES ASSUME HeaderOK, BodiesOK, [Next]_vars PROVE BodiesOK'
    OBVIOUS
  <2>1. CASE Reject
    BY <2>1 DEF Reject, BodiesOK, Begun, Written
  <2>2. CASE BuildAST
    BY <2>2 DEF BuildAST, BodiesOK, Begun, Written
  <2>3. CASE ValidateAST
    BY <2>3 DEF ValidateAST, BodiesOK, Begun, Written
  <2>4. CASE Sort
    <3>1. order = <<>> /\ header = <<>> /\ emit = NewState
      BY <2>4 DEF Sort, HeaderOK, Begun
    <3>2. Paired(ast, order, header, emit)
      BY <3>1, NothingPaired
    <3> QED BY <2>4, <3>1, <3>2 DEF Sort, BodiesOK, Begun, Written, input, defs
  <2>5. CASE EmitType
    <3>1. Emitted(ast, order, header, emit)
      BY <2>5 DEF EmitType, HeaderOK, Begun
    <3>2. PICK n, s, line :
            /\ MayFollow(ast, order, n) /\ order' = Append(order, n)
            /\ header' = Append(header, line) /\ Emits(ast, emit, n, s, line, emit')
      BY <2>5, <3>1, EmitTypeEmits
    <3>3. InlineAreStructs(ast) => Paired(ast, order, header, emit)
      BY <2>5 DEF EmitType, BodiesOK, Begun
    <3>4. InlineAreStructs(ast) => Paired(ast, order', header', emit')
      BY <3>1, <3>2, <3>3, PairedGrows
    <3> QED BY <2>5, <3>4 DEF EmitType, BodiesOK, Begun, Written, input
  <2>6. CASE GenerateDefsCpp
    BY <2>6 DEF GenerateDefsCpp, BodiesOK, Begun, Written, input
  <2>7. CASE GenerateClient \/ GenerateServer \/ WriteCMake
    BY <2>7 DEF GenerateClient, GenerateServer, WriteCMake, BodiesOK, Begun, Written, input, defs
  <2>8. CASE UNCHANGED vars
    BY <2>8 DEF vars, BodiesOK, Begun, Written
  <2> QED BY <2>1, <2>2, <2>3, <2>4, <2>5, <2>6, <2>7, <2>8 DEF Next
<1> QED BY <1>1, <1>2, HeaderInvariant, PTL DEF Spec

LEMMA BodiesFollow ==
    ASSUME HeaderOK, BodiesOK PROVE BodiesComplete
<1> SUFFICES ASSUME Written, InlineAreStructs(ast), NEW d \in ToSet(header), d.def # "alias"
             PROVE  d.name \in ToSet(source)
  BY DEF BodiesComplete, Written
<1>1. Begun
  BY DEF Written, Begun
<1>2. Emitted(ast, order, header, emit) /\ Paired(ast, order, header, emit)
      /\ source = generateDefsCpp(ast, order)
  BY <1>1 DEF HeaderOK, BodiesOK
<1>3. OrderOK(ast, order) /\ LinesOK(ast, order, header) /\ Serialized(ast, order, header)
  BY <1>2 DEF Emitted, Settled, Paired
<1>4. DOMAIN header = DOMAIN order
  BY <1>3, OrderFacts, ListFacts DEF LinesOK
<1>5. PICK i \in DOMAIN order : d = header[i]
  BY <1>4 DEF ToSet
<1>6. HasSerialization(ast, order[i]) /\ d.name = order[i]
  BY <1>3, <1>5 DEF Serialized, LinesOK, LineOK
<1> QED BY <1>2, <1>3, <1>6, DefsCpp

(* Every struct, enum and variant of its own that openapi_defs.hpp defines has its *)
(* tag_invoke in openapi_defs.cpp, though generateDefsCpp resolves names without   *)
(* the typedef chains generateDefsHpp builds up: for every document in which no     *)
(* component takes the name of an inline alternative, and every order.              *)
THEOREM BodiesAreComplete == Spec => []BodiesComplete
BY HeaderInvariant, BodiesInvariant, BodiesFollow, PTL
=============================================================================
