--------------------------- MODULE SequenceFacts ---------------------------
(* Facts about sequences that the proofs about the generator's passes rest on:
   what concatenating a list of lists (FlattenSeq) gives, step by step.

   The theorems of the library on induction take the formula to be proved as an
   operator; the provers at hand cannot instantiate that.  Induction is done with
   a set instead: SetInduction, from the fact that < is well-founded on Nat. *)
EXTENDS Integers, Sequences, SequencesExt, FiniteSetTheorems, SequenceTheorems,
        NaturalsInduction, WellFoundedInduction, TLAPS

-----------------------------------------------------------------------------
(* Induction. *)

(* A set of naturals that is not empty has a least member. *)
LEMMA NatMin ==
    ASSUME NEW T \in SUBSET Nat, T # {}
    PROVE  \E m \in T : \A n \in T : m <= n
<1>1. PICK x \in T : \A y \in T : ~(<<y, x>> \in OpToRel(<, Nat))
  BY NatLessThanWellFounded, WFMin, Zenon
<1>2. \A y \in T : ~(y < x)
  BY <1>1 DEF OpToRel
<1> QED BY <1>2

(* A set with 0 and with the successor of each of its members has all naturals. *)
LEMMA SetInduction ==
    ASSUME NEW G, 0 \in G, \A n \in Nat : n \in G => n + 1 \in G
    PROVE  Nat \subseteq G
<1> SUFFICES ASSUME Nat \ G # {}
             PROVE  FALSE
  OBVIOUS
<1>1. PICK m \in Nat \ G : \A n \in Nat \ G : m <= n
  BY NatMin
<1>2. m # 0 /\ m - 1 \in Nat
  BY <1>1
<1>3. m - 1 \in G
  BY <1>1, <1>2
<1> QED BY <1>1, <1>2, <1>3

-----------------------------------------------------------------------------
(* Lists: sequences of whatever they have. *)

IsList(s) == s \in Seq(ToSet(s))

(* A sequence over any set is a list, and the other way round. *)
LEMMA SeqIsList ==
    ASSUME NEW S, NEW s \in Seq(S)
    PROVE  IsList(s) /\ ToSet(s) \subseteq S
<1>1. Len(s) \in Nat /\ DOMAIN s = 1..Len(s) /\ s \in [1..Len(s) -> S]
  BY LenProperties
<1>2. s \in [1..Len(s) -> ToSet(s)] /\ ToSet(s) \subseteq S
  BY <1>1 DEF ToSet
<1> QED BY <1>1, <1>2, SeqDef DEF IsList

(* What is known of a list. *)
LEMMA ListFacts ==
    ASSUME NEW s, IsList(s)
    PROVE  /\ Len(s) \in Nat
           /\ DOMAIN s = 1..Len(s)
           /\ s = [i \in 1..Len(s) |-> s[i]]
           /\ \A S : ToSet(s) \subseteq S => s \in Seq(S)
<1>1. s \in Seq(ToSet(s))
  BY DEF IsList
<1>2. Len(s) \in Nat /\ DOMAIN s = 1..Len(s) /\ s \in [1..Len(s) -> ToSet(s)]
  BY <1>1, LenProperties
<1>3. \A S : ToSet(s) \subseteq S => s \in Seq(S)
  BY <1>1, SeqMonotonic
<1> QED BY <1>2, <1>3

(* A function on 1..n is a list of length n. *)
LEMMA FunctionIsList ==
    ASSUME NEW n \in Nat, NEW f, f = [i \in 1..n |-> f[i]]
    PROVE  IsList(f) /\ Len(f) = n /\ DOMAIN f = 1..n
<1>1. DOMAIN f = 1..n
  BY Zenon
<1>2. f \in [1..n -> ToSet(f)]
  BY <1>1 DEF ToSet
<1>3. f \in Seq(ToSet(f))
  BY <1>2, SeqDef
<1>4. Len(f) \in Nat /\ DOMAIN f = 1..Len(f)
  BY <1>3, LenProperties
<1>5. Len(f) = n
  BY <1>1, <1>4
<1> QED BY <1>1, <1>3, <1>5 DEF IsList

(* Lists of the same length with the same elements are the same. *)
LEMMA ListEqual ==
    ASSUME NEW s, NEW t, IsList(s), IsList(t), Len(s) = Len(t),
           \A i \in 1..Len(s) : s[i] = t[i]
    PROVE  s = t
<1>1. /\ s = [i \in 1..Len(s) |-> s[i]]
      /\ t = [i \in 1..Len(t) |-> t[i]]
  BY ListFacts, Zenon
<1>2. [i \in 1..Len(s) |-> s[i]] = [i \in 1..Len(t) |-> t[i]]
  OBVIOUS
<1> QED BY <1>1, <1>2, Zenon

(* Two lists one after the other. *)
LEMMA ConcatFacts ==
    ASSUME NEW s, NEW t, IsList(s), IsList(t)
    PROVE  /\ IsList(s \o t)
           /\ Len(s \o t) = Len(s) + Len(t)
           /\ DOMAIN (s \o t) = 1..Len(s) + Len(t)
           /\ \A i \in 1..Len(s) : (s \o t)[i] = s[i]
           /\ \A i \in 1..Len(t) : (s \o t)[Len(s) + i] = t[i]
           /\ ToSet(s \o t) = ToSet(s) \cup ToSet(t)
<1> DEFINE S == ToSet(s) \cup ToSet(t)
<1>1. s \in Seq(S) /\ t \in Seq(S)
  BY ListFacts
<1>2. /\ s \o t \in Seq(S) /\ Len(s \o t) = Len(s) + Len(t)
      /\ \A i \in 1..Len(s) + Len(t) :
             (s \o t)[i] = IF i <= Len(s) THEN s[i] ELSE t[i - Len(s)]
  BY <1>1, ConcatProperties
<1>3. IsList(s \o t)
  BY <1>2, SeqIsList
<1>4. /\ Len(s) \in Nat /\ Len(t) \in Nat
      /\ DOMAIN s = 1..Len(s) /\ DOMAIN t = 1..Len(t)
      /\ DOMAIN (s \o t) = 1..Len(s) + Len(t)
  BY <1>2, <1>3, ListFacts
<1>5. \A i \in 1..Len(s) : i \in 1..Len(s) + Len(t) /\ (s \o t)[i] = s[i]
  BY <1>2, <1>4
<1>6. ASSUME NEW i \in 1..Len(t)
      PROVE  Len(s) + i \in 1..Len(s) + Len(t) /\ (s \o t)[Len(s) + i] = t[i]
  <2>1. /\ Len(s) + i \in 1..Len(s) + Len(t) /\ ~(Len(s) + i <= Len(s))
        /\ (Len(s) + i) - Len(s) = i
    BY <1>4
  <2> QED BY <1>2, <2>1
<1>7. S \subseteq ToSet(s \o t)
  BY <1>4, <1>5, <1>6 DEF ToSet
<1>8. ToSet(s \o t) \subseteq S
  BY <1>2, SeqIsList
<1> QED BY <1>2, <1>3, <1>4, <1>5, <1>6, <1>7, <1>8

(* The empty list, and a list with one element. *)
LEMMA SmallLists ==
    /\ IsList(<<>>) /\ Len(<<>>) = 0 /\ ToSet(<<>>) = {}
    /\ \A x : IsList(<<x>>) /\ Len(<<x>>) = 1 /\ <<x>>[1] = x /\ ToSet(<<x>>) = {x}
    /\ \A t : IsList(t) => <<>> \o t = t /\ t \o <<>> = t
    /\ \A t : IsList(t) /\ Len(t) = 0 => t = <<>>
<1>1. IsList(<<>>) /\ Len(<<>>) = 0 /\ ToSet(<<>>) = {}
  BY EmptySeq DEF IsList, ToSet
<1>2. ASSUME NEW x
      PROVE  IsList(<<x>>) /\ Len(<<x>>) = 1 /\ <<x>>[1] = x /\ ToSet(<<x>>) = {x}
  <2>1. <<x>> \in Seq({x}) /\ Len(<<x>>) = 1 /\ <<x>>[1] = x
    OBVIOUS
  <2>2. DOMAIN <<x>> = 1..1
    OBVIOUS
  <2>3. ToSet(<<x>>) = {x}
    BY <2>1, <2>2 DEF ToSet
  <2> QED BY <2>1, <2>3 DEF IsList
<1>3. ASSUME NEW t, IsList(t)
      PROVE  <<>> \o t = t /\ t \o <<>> = t
  BY <1>3, ConcatEmptySeq DEF IsList
<1>4. ASSUME NEW t, IsList(t), Len(t) = 0
      PROVE  t = <<>>
  BY <1>4, EmptySeq DEF IsList
<1> QED BY <1>1, <1>2, <1>3, <1>4

(* Appending an element is concatenating the list with that element alone. *)
LEMMA AppendFacts ==
    ASSUME NEW s, IsList(s), NEW x
    PROVE  /\ Append(s, x) = s \o <<x>>
           /\ IsList(Append(s, x))
           /\ Len(Append(s, x)) = Len(s) + 1
           /\ \A i \in 1..Len(s) : Append(s, x)[i] = s[i]
           /\ Append(s, x)[Len(s) + 1] = x
           /\ ToSet(Append(s, x)) = ToSet(s) \cup {x}
<1>1. s \in Seq(ToSet(s) \cup {x})
  BY ListFacts
<1>2. Append(s, x) = s \o <<x>>
  BY <1>1, AppendIsConcat
<1>3. /\ IsList(s \o <<x>>) /\ Len(s \o <<x>>) = Len(s) + 1
      /\ ToSet(s \o <<x>>) = ToSet(s) \cup {x}
  BY SmallLists, ConcatFacts
<1>4. /\ \A i \in 1..Len(s) : Append(s, x)[i] = s[i]
      /\ Append(s, x)[Len(s) + 1] = x
  BY <1>1, AppendProperties
<1> QED BY <1>2, <1>3, <1>4

-----------------------------------------------------------------------------
(* FlattenSeq. *)

(* A list of lists. *)
IsListOfLists(ss) == IsList(ss) /\ \A i \in 1..Len(ss) : IsList(ss[i])

(* f has the concatenations of the first lists of ss. *)
Flattens(f, ss) ==
    \A i \in 1..Len(ss) : f[i] = IF i = 1 THEN ss[i] ELSE f[i - 1] \o ss[i]

UpTo(ss, n) == [i \in 1..n |-> ss[i]]

(* There is such a function: one for n lists gives one for n + 1. *)
LEMMA FlatteningExists ==
    ASSUME NEW ss, IsListOfLists(ss)
    PROVE  \E f : f = [i \in 1..Len(ss) |-> IF i = 1 THEN ss[i] ELSE f[i - 1] \o ss[i]]
<1> DEFINE Has(n) == \E f : f = [i \in 1..n |-> IF i = 1 THEN ss[i] ELSE f[i - 1] \o ss[i]]
           G == {n \in Nat : Has(n)}
<1>1. 0 \in G
  <2> DEFINE f == [i \in 1..0 |-> ss[i]]
             g == [i \in 1..0 |-> IF i = 1 THEN ss[i] ELSE f[i - 1] \o ss[i]]
  <2>1. 1..0 = {}
    OBVIOUS
  <2>2. f = g
    BY <2>1
  <2>3. Has(0)
    <3> WITNESS f
    <3> QED BY <2>2
  <2> QED BY <2>3
<1>2. ASSUME NEW n \in Nat, n \in G
      PROVE  n + 1 \in G
  <2>1. PICK f : f = [i \in 1..n |-> IF i = 1 THEN ss[i] ELSE f[i - 1] \o ss[i]]
    BY <1>2
  <2> DEFINE Next(i) == IF i = 1 THEN ss[i] ELSE f[i - 1] \o ss[i]
             g == [i \in 1..n + 1 |-> Next(i)]
  <2>2. \A i \in 1..n : f[i] = Next(i) /\ g[i] = f[i]
    <3>1. f = [i \in 1..n |-> Next(i)]
      BY <2>1
    <3> HIDE DEF Next
    <3> QED BY <3>1
  <2>3. \A i \in 1..n + 1 : g[i] = IF i = 1 THEN ss[i] ELSE g[i - 1] \o ss[i]
    <3> SUFFICES ASSUME NEW i \in 1..n + 1, i # 1
                 PROVE  g[i] = g[i - 1] \o ss[i]
      OBVIOUS
    <3>1. i - 1 \in 1..n
      OBVIOUS
    <3>2. g[i - 1] = f[i - 1]
      BY <2>2, <3>1
    <3>3. g[i] = f[i - 1] \o ss[i]
      OBVIOUS
    <3> HIDE DEF g
    <3> QED BY <3>2, <3>3
  <2> HIDE DEF Next
  <2>4. g = [i \in 1..n + 1 |-> g[i]]
    OBVIOUS
  <2> HIDE DEF g
  <2>5. g = [i \in 1..n + 1 |-> IF i = 1 THEN ss[i] ELSE g[i - 1] \o ss[i]]
    BY <2>3, <2>4
  <2>6. Has(n + 1)
    <3> WITNESS g
    <3> QED BY <2>5
  <2> HIDE DEF Has
  <2> QED BY <2>6
<1>3. Nat \subseteq G
  <2> HIDE DEF G
  <2> QED BY <1>1, <1>2, SetInduction
<1> QED BY <1>3, ListFacts DEF IsListOfLists

(* There is one such function, as far as it matters. *)
LEMMA FlatteningUnique ==
    ASSUME NEW ss, IsListOfLists(ss), NEW f, NEW g, Flattens(f, ss), Flattens(g, ss)
    PROVE  \A i \in 1..Len(ss) : f[i] = g[i]
<1> DEFINE G == {n \in Nat : n \in 1..Len(ss) => f[n] = g[n]}
<1>0. Len(ss) \in Nat
  BY ListFacts DEF IsListOfLists
<1>1. 0 \in G
  OBVIOUS
<1>2. ASSUME NEW n \in Nat, n \in G
      PROVE  n + 1 \in G
  <2> SUFFICES ASSUME n + 1 \in 1..Len(ss)
               PROVE  f[n + 1] = g[n + 1]
    OBVIOUS
  <2>1. CASE n = 0
    BY <2>1 DEF Flattens
  <2>2. CASE n # 0
    <3>1. n \in 1..Len(ss) /\ n + 1 # 1 /\ (n + 1) - 1 = n
      BY <1>0, <2>2
    <3>2. f[n + 1] = f[n] \o ss[n + 1] /\ g[n + 1] = g[n] \o ss[n + 1]
      BY <3>1 DEF Flattens
    <3> QED BY <1>2, <3>1, <3>2
  <2> QED BY <2>1, <2>2
<1>3. Nat \subseteq G
  <2> HIDE DEF G
  <2> QED BY <1>1, <1>2, SetInduction
<1> QED BY <1>0, <1>3

(* FlattenSeq has the last value of it. *)
LEMMA FlattenIs ==
    ASSUME NEW ss, IsListOfLists(ss), Len(ss) # 0, NEW f, Flattens(f, ss)
    PROVE  FlattenSeq(ss) = f[Len(ss)]
<1> DEFINE flatten[i \in 1..Len(ss)] == IF i = 1 THEN ss[i] ELSE flatten[i-1] \o ss[i]
<1>1. flatten = [i \in 1..Len(ss) |-> IF i = 1 THEN ss[i] ELSE flatten[i-1] \o ss[i]]
  BY FlatteningExists, Zenon
<1>2. FlattenSeq(ss) = flatten[Len(ss)]
  BY DEF FlattenSeq
<1> HIDE DEF flatten
<1>3. Flattens(flatten, ss)
  BY <1>1 DEF Flattens
<1>4. Len(ss) \in 1..Len(ss)
  BY ListFacts DEF IsListOfLists
<1> QED BY <1>2, <1>3, <1>4, FlatteningUnique

(* A list of lists up to some point. *)
LEMMA UpToFacts ==
    ASSUME NEW ss, IsList(ss), NEW n \in 0..Len(ss)
    PROVE  /\ IsList(UpTo(ss, n)) /\ Len(UpTo(ss, n)) = n
           /\ \A i \in 1..n : UpTo(ss, n)[i] = ss[i]
           /\ IsListOfLists(ss) => IsListOfLists(UpTo(ss, n))
<1>0. Len(ss) \in Nat /\ n \in Nat /\ \A i \in 1..n : i \in 1..Len(ss)
  BY ListFacts
<1> DEFINE f == UpTo(ss, n)
<1>1. f = [i \in 1..n |-> f[i]] /\ \A i \in 1..n : f[i] = ss[i]
  BY DEF UpTo
<1> HIDE DEF f
<1>2. IsList(f) /\ Len(f) = n
  BY <1>0, <1>1, FunctionIsList
<1>3. IsListOfLists(ss) => IsListOfLists(f)
  BY <1>0, <1>1, <1>2 DEF IsListOfLists
<1> QED BY <1>1, <1>2, <1>3 DEF f

(* Concatenating lists: nothing gives nothing, and one list more comes last. *)
LEMMA FlattenSteps ==
    ASSUME NEW ss, IsListOfLists(ss)
    PROVE  /\ FlattenSeq(UpTo(ss, 0)) = <<>>
           /\ FlattenSeq(UpTo(ss, Len(ss))) = FlattenSeq(ss)
           /\ \A n \in 0..Len(ss) - 1 :
                 FlattenSeq(UpTo(ss, n + 1)) = FlattenSeq(UpTo(ss, n)) \o ss[n + 1]
<1>0. Len(ss) \in Nat /\ IsList(ss) /\ \A i \in 1..Len(ss) : IsList(ss[i])
  BY ListFacts DEF IsListOfLists
<1>1. FlattenSeq(UpTo(ss, 0)) = <<>>
  <2>1. Len(UpTo(ss, 0)) = 0 /\ IsList(UpTo(ss, 0))
    BY <1>0, UpToFacts
  <2>2. UpTo(ss, 0) = <<>>
    BY <2>1, SmallLists
  <2> QED BY <2>1, <2>2 DEF FlattenSeq
<1>2. UpTo(ss, Len(ss)) = ss
  BY <1>0, ListFacts DEF UpTo
<1>3. PICK f : f = [i \in 1..Len(ss) |-> IF i = 1 THEN ss[i] ELSE f[i - 1] \o ss[i]]
  BY FlatteningExists
<1>4. \A i \in 1..Len(ss) : f[i] = IF i = 1 THEN ss[i] ELSE f[i - 1] \o ss[i]
  BY <1>3
<1>5. ASSUME NEW n \in 1..Len(ss)
      PROVE  FlattenSeq(UpTo(ss, n)) = f[n]
  <2>1. /\ IsListOfLists(UpTo(ss, n)) /\ Len(UpTo(ss, n)) = n /\ n # 0
        /\ \A i \in 1..n : UpTo(ss, n)[i] = ss[i] /\ i \in 1..Len(ss)
    BY <1>0, UpToFacts
  <2>2. Flattens(f, UpTo(ss, n))
    BY <1>4, <2>1 DEF Flattens
  <2> QED BY <2>1, <2>2, FlattenIs
<1>6. ASSUME NEW n \in 0..Len(ss) - 1
      PROVE  FlattenSeq(UpTo(ss, n + 1)) = FlattenSeq(UpTo(ss, n)) \o ss[n + 1]
  <2>1. n + 1 \in 1..Len(ss) /\ FlattenSeq(UpTo(ss, n + 1)) = f[n + 1]
    BY <1>0, <1>5
  <2>2. CASE n = 0
    <3>1. f[n + 1] = ss[n + 1] /\ IsList(ss[n + 1])
      BY <1>0, <1>4, <2>1, <2>2
    <3> QED BY <1>1, <2>1, <2>2, <3>1, SmallLists
  <2>3. CASE n # 0
    <3>1. n \in 1..Len(ss) /\ n + 1 # 1 /\ (n + 1) - 1 = n
      BY <1>0, <2>3
    <3>2. f[n + 1] = f[n] \o ss[n + 1]
      BY <1>4, <2>1, <3>1
    <3> QED BY <1>5, <2>1, <3>1, <3>2
  <2> QED BY <2>2, <2>3
<1> QED BY <1>1, <1>2, <1>6

(* Concatenating is associative. *)
LEMMA ConcatTwice ==
    ASSUME NEW s, NEW t, NEW u, IsList(s), IsList(t), IsList(u)
    PROVE  (s \o t) \o u = s \o (t \o u)
<1> DEFINE S == ToSet(s) \cup ToSet(t) \cup ToSet(u)
<1>1. s \in Seq(S) /\ t \in Seq(S) /\ u \in Seq(S)
  BY ListFacts
<1> QED BY <1>1, ConcatAssociative

(* The lists concatenated are a list of what they have. *)
LEMMA FlattenFacts ==
    ASSUME NEW ss, IsListOfLists(ss)
    PROVE  /\ IsList(FlattenSeq(ss))
           /\ ToSet(FlattenSeq(ss)) = UNION {ToSet(ss[i]) : i \in 1..Len(ss)}
<1>0. Len(ss) \in Nat /\ IsList(ss) /\ \A i \in 1..Len(ss) : IsList(ss[i])
  BY ListFacts DEF IsListOfLists
<1> DEFINE Flat(n) == FlattenSeq(UpTo(ss, n))
           Has(n) == IsList(Flat(n)) /\ ToSet(Flat(n)) = UNION {ToSet(ss[i]) : i \in 1..n}
           G == {n \in Nat : n <= Len(ss) => Has(n)}
<1>1. Flat(0) = <<>> /\ Flat(Len(ss)) = FlattenSeq(ss)
  BY FlattenSteps
<1>2. ASSUME NEW n \in Nat, n + 1 <= Len(ss)
      PROVE  Flat(n + 1) = Flat(n) \o ss[n + 1] /\ IsList(ss[n + 1]) /\ n <= Len(ss)
  <2>1. n \in 0..Len(ss) - 1 /\ n + 1 \in 1..Len(ss) /\ n <= Len(ss)
    BY <1>0, <1>2
  <2> QED BY <1>0, <2>1, FlattenSteps
<1> HIDE DEF Flat
<1>3. 0 \in G
  BY <1>1, SmallLists
<1>4. ASSUME NEW n \in Nat, n \in G
      PROVE  n + 1 \in G
  <2> SUFFICES ASSUME n + 1 <= Len(ss)
               PROVE  Has(n + 1)
    OBVIOUS
  <2>1. Has(n)
    BY <1>2, <1>4
  <2>2. IsList(Flat(n + 1)) /\ ToSet(Flat(n + 1)) = ToSet(Flat(n)) \cup ToSet(ss[n + 1])
    <3>1. Flat(n + 1) = Flat(n) \o ss[n + 1] /\ IsList(ss[n + 1]) /\ IsList(Flat(n))
      BY <1>2, <2>1
    <3>2. /\ IsList(Flat(n) \o ss[n + 1])
          /\ ToSet(Flat(n) \o ss[n + 1]) = ToSet(Flat(n)) \cup ToSet(ss[n + 1])
      <4>1. IsList(ss[n + 1]) /\ IsList(Flat(n))
        BY <3>1
      <4> QED BY <4>1, ConcatFacts
    <3> QED BY <3>1, <3>2
  <2>3. 1..n + 1 = (1..n) \cup {n + 1}
    OBVIOUS
  <2>4. UNION {ToSet(ss[i]) : i \in 1..n + 1}
           = (UNION {ToSet(ss[i]) : i \in 1..n}) \cup ToSet(ss[n + 1])
    BY <2>3
  <2> QED BY <2>1, <2>2, <2>4
<1>5. Nat \subseteq G
  <2> HIDE DEF G
  <2> QED BY <1>3, <1>4, SetInduction
<1> QED BY <1>0, <1>1, <1>5

(* The concatenation of two lists of lists. *)
LEMMA FlattenConcat ==
    ASSUME NEW ss, NEW tt, IsListOfLists(ss), IsListOfLists(tt)
    PROVE  FlattenSeq(ss \o tt) = FlattenSeq(ss) \o FlattenSeq(tt)
<1>0. /\ Len(ss) \in Nat /\ IsList(ss) /\ \A i \in 1..Len(ss) : IsList(ss[i])
      /\ Len(tt) \in Nat /\ IsList(tt) /\ \A i \in 1..Len(tt) : IsList(tt[i])
  BY ListFacts DEF IsListOfLists
<1> DEFINE uu == ss \o tt
           Flat(n) == FlattenSeq(UpTo(tt, n))
           G == {n \in Nat : n <= Len(tt) =>
                                FlattenSeq(UpTo(uu, Len(ss) + n)) = FlattenSeq(ss) \o Flat(n)}
<1>1. /\ IsList(uu) /\ Len(uu) = Len(ss) + Len(tt)
      /\ \A i \in 1..Len(ss) : uu[i] = ss[i]
      /\ \A i \in 1..Len(tt) : uu[Len(ss) + i] = tt[i]
  BY <1>0, ConcatFacts
<1> HIDE DEF uu
<1>2. IsListOfLists(uu)
  <2> SUFFICES ASSUME NEW i \in 1..Len(uu)
               PROVE  IsList(uu[i])
    BY <1>1 DEF IsListOfLists
  <2>1. CASE i <= Len(ss)
    BY <1>0, <1>1, <2>1
  <2>2. CASE ~(i <= Len(ss))
    <3>1. i - Len(ss) \in 1..Len(tt) /\ Len(ss) + (i - Len(ss)) = i
      BY <1>0, <1>1, <2>2
    <3> QED BY <1>0, <1>1, <3>1
  <2> QED BY <2>1, <2>2
<1>3. UpTo(uu, Len(ss)) = ss
  <2>1. /\ IsList(UpTo(uu, Len(ss))) /\ Len(UpTo(uu, Len(ss))) = Len(ss)
        /\ \A i \in 1..Len(ss) : UpTo(uu, Len(ss))[i] = uu[i]
    BY <1>0, <1>1, UpToFacts
  <2> QED BY <1>0, <1>1, <2>1, ListEqual
<1>4. Flat(0) = <<>> /\ IsList(FlattenSeq(ss))
  BY FlattenSteps, FlattenFacts
<1>5. ASSUME NEW n \in Nat, n + 1 <= Len(tt)
      PROVE  /\ Flat(n + 1) = Flat(n) \o tt[n + 1] /\ IsList(tt[n + 1]) /\ IsList(Flat(n))
             /\ FlattenSeq(UpTo(uu, Len(ss) + (n + 1)))
                   = FlattenSeq(UpTo(uu, Len(ss) + n)) \o tt[n + 1]
             /\ n <= Len(tt)
  <2>1. n \in 0..Len(tt) - 1 /\ n + 1 \in 1..Len(tt) /\ n \in 0..Len(tt) /\ n <= Len(tt)
    BY <1>0, <1>5
  <2>2. Flat(n + 1) = Flat(n) \o tt[n + 1] /\ IsList(tt[n + 1])
    BY <1>0, <2>1, FlattenSteps
  <2>3. IsList(Flat(n))
    BY <1>0, <2>1, UpToFacts, FlattenFacts
  <2> DEFINE m == Len(ss) + n
  <2>4. m \in 0..Len(uu) - 1 /\ m + 1 = Len(ss) + (n + 1)
    <3>1. Len(ss) \in Nat /\ Len(tt) \in Nat /\ Len(uu) = Len(ss) + Len(tt)
      BY <1>0, <1>1, ZenonT(60)
    <3>2. n \in Nat /\ n + 1 <= Len(tt)
      BY <1>5
    <3> QED BY <3>1, <3>2
  <2> HIDE DEF m
  <2>5. FlattenSeq(UpTo(uu, m + 1)) = FlattenSeq(UpTo(uu, m)) \o uu[m + 1]
    BY <1>2, <2>4, FlattenSteps
  <2>6. uu[m + 1] = tt[n + 1]
    BY <1>1, <2>1, <2>4
  <2> QED BY <2>1, <2>2, <2>3, <2>4, <2>5, <2>6 DEF m
<1> HIDE DEF Flat
<1>6. 0 \in G
  <2>1. Len(ss) + 0 = Len(ss)
    BY <1>0
  <2> QED BY <1>3, <1>4, <2>1, SmallLists
<1>7. ASSUME NEW n \in Nat, n \in G
      PROVE  n + 1 \in G
  <2> SUFFICES ASSUME n + 1 <= Len(tt)
               PROVE  FlattenSeq(UpTo(uu, Len(ss) + (n + 1))) = FlattenSeq(ss) \o Flat(n + 1)
    OBVIOUS
  <2>1. FlattenSeq(UpTo(uu, Len(ss) + n)) = FlattenSeq(ss) \o Flat(n)
    BY <1>5, <1>7
  <2>2. /\ Flat(n + 1) = Flat(n) \o tt[n + 1] /\ IsList(tt[n + 1]) /\ IsList(Flat(n))
        /\ FlattenSeq(UpTo(uu, Len(ss) + (n + 1)))
              = FlattenSeq(UpTo(uu, Len(ss) + n)) \o tt[n + 1]
    BY <1>5
  <2>3. (FlattenSeq(ss) \o Flat(n)) \o tt[n + 1] = FlattenSeq(ss) \o (Flat(n) \o tt[n + 1])
    <3> DEFINE a == FlattenSeq(ss)
               b == Flat(n)
               c == tt[n + 1]
    <3>1. IsList(a) /\ IsList(b) /\ IsList(c)
      BY <1>4, <2>2
    <3> HIDE DEF a, b, c
    <3>2. (a \o b) \o c = a \o (b \o c)
      BY <3>1, ConcatTwice, SMTT(30)
    <3> QED BY <3>2 DEF a, b, c
  <2> QED BY <2>1, <2>2, <2>3
<1>8. Nat \subseteq G
  <2> HIDE DEF G
  <2> QED BY <1>6, <1>7, SetInduction
<1>9. FlattenSeq(UpTo(uu, Len(uu))) = FlattenSeq(ss) \o Flat(Len(tt))
  BY <1>0, <1>1, <1>8
<1> QED BY <1>2, <1>9, FlattenSteps DEF uu, Flat

(* What is in one of the lists is in all of them together, in the same order. *)
LEMMA FlattenHas ==
    ASSUME NEW ss, IsListOfLists(ss), NEW i \in 1..Len(ss)
    PROVE  \E off \in Nat : /\ off + Len(ss[i]) <= Len(FlattenSeq(ss))
                            /\ \A k \in 1..Len(ss[i]) : FlattenSeq(ss)[off + k] = ss[i][k]
<1> DEFINE Flat(n) == FlattenSeq(UpTo(ss, n))
           s == ss[i]
           N == Len(ss)
           Has(n) == \E off \in Nat : /\ IsList(Flat(n)) /\ off + Len(s) <= Len(Flat(n))
                                      /\ \A k \in 1..Len(s) : Flat(n)[off + k] = s[k]
           G == {n \in Nat : n <= N => IsList(Flat(n)) /\ (i <= n => Has(n))}
<1>0. N \in Nat /\ IsList(ss) /\ i \in Nat /\ \A n \in 1..N : IsList(ss[n]) /\ Len(ss[n]) \in Nat
  BY ListFacts DEF IsListOfLists
<1>1. Flat(0) = <<>> /\ Flat(N) = FlattenSeq(ss)
  BY FlattenSteps
<1>2. \A m \in 0..N - 1 : Flat(m + 1) = Flat(m) \o ss[m + 1]
  BY FlattenSteps
<1> HIDE DEF Flat
<1>3. 0 \in G
  BY <1>0, <1>1, SmallLists
<1>4. ASSUME NEW n \in Nat, n \in G PROVE n + 1 \in G
  <2> SUFFICES ASSUME n + 1 <= N
               PROVE  IsList(Flat(n + 1)) /\ (i <= n + 1 => Has(n + 1))
    <3> HIDE DEF Has
    <3> QED OBVIOUS
  <2> DEFINE a == Flat(n)
             b == ss[n + 1]
             c == Flat(n + 1)
  <2>1. n \in 0..N - 1 /\ n <= N /\ n + 1 \in 1..N
    BY <1>0
  <2>2. c = a \o b /\ IsList(a) /\ IsList(b) /\ Len(b) \in Nat /\ (i <= n => Has(n))
    BY <1>0, <1>2, <1>4, <2>1
  <2> HIDE DEF b, c
  <2>3. IsList(a) /\ IsList(b)
    BY <2>2
  <2>4. IsList(c)
    <3>1. IsList(a \o b)
      BY <2>3, ConcatFacts
    <3> QED BY <2>2, <3>1
  <2>5. Len(c) = Len(a) + Len(b)
    <3>1. Len(a \o b) = Len(a) + Len(b)
      BY <2>3, ConcatFacts
    <3> QED BY <2>2, <3>1
  <2>6. \A k \in 1..Len(a) : c[k] = a[k]
    <3>1. \A k \in 1..Len(a) : (a \o b)[k] = a[k]
      BY <2>3, ConcatFacts
    <3> QED BY <2>2, <3>1
  <2>7. \A k \in 1..Len(b) : c[Len(a) + k] = b[k]
    <3>1. \A k \in 1..Len(b) : (a \o b)[Len(a) + k] = b[k]
      BY <2>3, ConcatFacts
    <3> QED BY <2>2, <3>1
  <2>8. Len(a) \in Nat /\ Len(s) \in Nat
    BY <1>0, <2>3, ListFacts
  <2>9. CASE i <= n
    <3>1. PICK off \in Nat : off + Len(s) <= Len(a) /\ \A k \in 1..Len(s) : a[off + k] = s[k]
      BY <2>2, <2>9
    <3> HIDE DEF a, s
    <3>2. \A k \in 1..Len(s) : off + k \in 1..Len(a)
      BY <2>8, <3>1
    <3>3. off + Len(s) <= Len(c) /\ \A k \in 1..Len(s) : c[off + k] = s[k]
      BY <2>2, <2>5, <2>6, <2>8, <3>1, <3>2
    <3> QED BY <2>4, <3>3 DEF c
  <2>10. CASE i = n + 1
    <3>1. s = b
      BY <2>10 DEF b
    <3> HIDE DEF a, s
    <3>2. Len(a) + Len(s) <= Len(c) /\ \A k \in 1..Len(s) : c[Len(a) + k] = s[k]
      BY <2>2, <2>5, <2>7, <2>8, <3>1
    <3> QED BY <2>4, <2>8, <3>2 DEF c
  <2> QED BY <1>0, <2>4, <2>9, <2>10 DEF c
<1>5. Nat \subseteq G
  <2> HIDE DEF G
  <2> QED BY <1>3, <1>4, SetInduction
<1>6. Has(N)
  <2>1. N \in G /\ i <= N
    BY <1>0, <1>5
  <2> QED BY <2>1
<1> QED BY <1>1, <1>6

-----------------------------------------------------------------------------
(* Lists made from other lists. *)

(* F applied to every element. *)
Mapped(F, s) == [k \in DOMAIN s |-> F[s[k]]]

(* What it gives for one list, and for two lists one after the other. *)
LEMMA MappedFacts ==
    ASSUME NEW F, NEW s, IsList(s)
    PROVE  /\ IsList(Mapped(F, s)) /\ Len(Mapped(F, s)) = Len(s)
           /\ \A k \in 1..Len(s) : Mapped(F, s)[k] = F[s[k]]
<1> DEFINE f == Mapped(F, s)
<1>0. Len(s) \in Nat /\ DOMAIN s = 1..Len(s)
  BY ListFacts
<1>1. f = [k \in 1..Len(s) |-> f[k]] /\ \A k \in 1..Len(s) : f[k] = F[s[k]]
  BY <1>0 DEF Mapped
<1> HIDE DEF f
<1>2. IsList(f) /\ Len(f) = Len(s)
  BY <1>0, <1>1, FunctionIsList
<1> QED BY <1>1, <1>2 DEF f

LEMMA MappedConcat ==
    ASSUME NEW F, NEW s, NEW t, IsList(s), IsList(t)
    PROVE  Mapped(F, s \o t) = Mapped(F, s) \o Mapped(F, t)
<1> DEFINE a == Mapped(F, s)
           b == Mapped(F, t)
           u == s \o t
           c == Mapped(F, u)
           d == a \o b
<1>0. Len(s) \in Nat /\ Len(t) \in Nat
  BY ListFacts
<1>1. /\ IsList(a) /\ Len(a) = Len(s) /\ \A k \in 1..Len(s) : a[k] = F[s[k]]
      /\ IsList(b) /\ Len(b) = Len(t) /\ \A k \in 1..Len(t) : b[k] = F[t[k]]
  BY MappedFacts
<1>2. /\ IsList(u) /\ Len(u) = Len(s) + Len(t)
      /\ \A k \in 1..Len(s) : u[k] = s[k]
      /\ \A k \in 1..Len(t) : u[Len(s) + k] = t[k]
  BY ConcatFacts
<1> HIDE DEF a, b, u
<1>3. IsList(c) /\ Len(c) = Len(u) /\ \A k \in 1..Len(u) : c[k] = F[u[k]]
  BY <1>2, MappedFacts
<1>4. /\ IsList(d) /\ Len(d) = Len(s) + Len(t)
      /\ \A k \in 1..Len(s) : d[k] = a[k]
      /\ \A k \in 1..Len(t) : d[Len(s) + k] = b[k]
  BY <1>1, ConcatFacts
<1> HIDE DEF c, d
<1>5. ASSUME NEW k \in 1..Len(c)
      PROVE  c[k] = d[k]
  <2>1. CASE k <= Len(s)
    <3>1. k \in 1..Len(s) /\ k \in 1..Len(u)
      BY <1>0, <1>2, <1>3, <2>1
    <3> QED BY <1>1, <1>2, <1>3, <1>4, <3>1
  <2>2. CASE ~(k <= Len(s))
    <3>1. k - Len(s) \in 1..Len(t) /\ Len(s) + (k - Len(s)) = k /\ k \in 1..Len(u)
      BY <1>0, <1>2, <1>3, <2>2
    <3> DEFINE m == k - Len(s)
    <3>2. m \in 1..Len(t) /\ Len(s) + m = k
      BY <3>1
    <3> HIDE DEF m
    <3>3. d[k] = b[m] /\ b[m] = F[t[m]] /\ u[k] = t[m]
      BY <1>1, <1>2, <1>4, <3>2
    <3> QED BY <1>3, <3>1, <3>3
  <2> QED BY <2>1, <2>2
<1>6. c = d
  BY <1>2, <1>3, <1>4, <1>5, ListEqual
<1> QED BY <1>6 DEF a, b, c, d, u

(* Mapping and concatenating a list of lists, in either order. *)
LEMMA MappedFlatten ==
    ASSUME NEW F, NEW ss, IsListOfLists(ss), NEW tt, IsList(tt), Len(tt) = Len(ss),
           \A i \in 1..Len(ss) : tt[i] = Mapped(F, ss[i])
    PROVE  FlattenSeq(tt) = Mapped(F, FlattenSeq(ss))
<1>0. Len(ss) \in Nat /\ IsList(ss) /\ \A i \in 1..Len(ss) : IsList(ss[i])
  BY ListFacts DEF IsListOfLists
<1>1. IsListOfLists(tt)
  BY <1>0, MappedFacts DEF IsListOfLists
<1> DEFINE S(n) == FlattenSeq(UpTo(ss, n))
           T(n) == FlattenSeq(UpTo(tt, n))
           G == {n \in Nat : n <= Len(ss) => T(n) = Mapped(F, S(n))}
<1>2. S(0) = <<>> /\ T(0) = <<>> /\ S(Len(ss)) = FlattenSeq(ss) /\ T(Len(ss)) = FlattenSeq(tt)
  BY <1>1, FlattenSteps
<1>3. ASSUME NEW n \in Nat, n + 1 <= Len(ss)
      PROVE  /\ S(n + 1) = S(n) \o ss[n + 1] /\ T(n + 1) = T(n) \o tt[n + 1]
             /\ IsList(S(n)) /\ IsList(ss[n + 1]) /\ n <= Len(ss)
             /\ tt[n + 1] = Mapped(F, ss[n + 1])
  <2>1. n \in 0..Len(ss) - 1 /\ n + 1 \in 1..Len(ss) /\ n \in 0..Len(ss) /\ n <= Len(ss)
    BY <1>0, <1>3
  <2>2. S(n + 1) = S(n) \o ss[n + 1] /\ T(n + 1) = T(n) \o tt[n + 1]
    BY <1>1, <2>1, FlattenSteps
  <2>3. IsList(S(n))
    BY <1>0, <2>1, UpToFacts, FlattenFacts
  <2> QED BY <1>0, <2>1, <2>2, <2>3
<1> HIDE DEF S, T
<1>4. 0 \in G
  <2>1. Mapped(F, <<>>) = <<>>
    BY MappedFacts, SmallLists
  <2> QED BY <1>2, <2>1
<1>5. ASSUME NEW n \in Nat, n \in G
      PROVE  n + 1 \in G
  <2> SUFFICES ASSUME n + 1 <= Len(ss)
               PROVE  T(n + 1) = Mapped(F, S(n + 1))
    OBVIOUS
  <2> DEFINE a == S(n)
             b == ss[n + 1]
  <2>1. /\ S(n + 1) = a \o b /\ T(n + 1) = T(n) \o Mapped(F, b) /\ T(n) = Mapped(F, a)
        /\ IsList(a) /\ IsList(b)
    BY <1>3, <1>5
  <2> HIDE DEF a, b
  <2>2. IsList(a) /\ IsList(b)
    BY <2>1
  <2>3. Mapped(F, a \o b) = Mapped(F, a) \o Mapped(F, b)
    BY <2>2, MappedConcat
  <2> QED BY <2>1, <2>3
<1>6. Nat \subseteq G
  <2> HIDE DEF G
  <2> QED BY <1>4, <1>5, SetInduction
<1>7. T(Len(ss)) = Mapped(F, S(Len(ss)))
  BY <1>0, <1>6
<1> QED BY <1>2, <1>7

(* The elements at the places C. *)
Piece(s, C, k) == IF k \in C THEN <<s[k]>> ELSE <<>>
Pieces(s, C) == [k \in DOMAIN s |-> Piece(s, C, k)]
Chosen(s, C) == FlattenSeq(Pieces(s, C))

(* What each place gives. *)
LEMMA PiecesFacts ==
    ASSUME NEW s, NEW C, IsList(s)
    PROVE  /\ IsListOfLists(Pieces(s, C)) /\ Len(Pieces(s, C)) = Len(s)
           /\ \A k \in 1..Len(s) : Pieces(s, C)[k] = Piece(s, C, k)
<1> DEFINE f == Pieces(s, C)
<1>0. Len(s) \in Nat /\ DOMAIN s = 1..Len(s)
  BY ListFacts
<1>1. /\ f = [k \in 1..Len(s) |-> f[k]]
      /\ \A k \in 1..Len(s) : f[k] = Piece(s, C, k)
  BY <1>0 DEF Pieces
<1> HIDE DEF f
<1>2. IsList(f) /\ Len(f) = Len(s)
  BY <1>0, <1>1, FunctionIsList
<1>3. \A k \in 1..Len(s) : IsList(f[k])
  BY <1>1, SmallLists DEF Piece
<1> QED BY <1>1, <1>2, <1>3 DEF f, IsListOfLists

(* One place after the other. *)
LEMMA ChosenSteps ==
    ASSUME NEW s, NEW C, IsList(s)
    PROVE  /\ Chosen(UpTo(s, 0), C) = <<>>
           /\ Chosen(UpTo(s, Len(s)), C) = Chosen(s, C)
           /\ \A n \in 0..Len(s) - 1 :
                 Chosen(UpTo(s, n + 1), C)
                    = Chosen(UpTo(s, n), C) \o Piece(s, C, n + 1)
<1> DEFINE f == Pieces(s, C)
<1>0. /\ Len(s) \in Nat /\ IsListOfLists(f) /\ Len(f) = Len(s)
      /\ \A k \in 1..Len(s) : f[k] = Piece(s, C, k)
  BY ListFacts, PiecesFacts
<1>1. ASSUME NEW n \in 0..Len(s)
      PROVE  Chosen(UpTo(s, n), C) = FlattenSeq(UpTo(f, n))
  <2>1. \A k \in 1..n : k \in 1..Len(s) /\ k \in DOMAIN s
    BY <1>0, ListFacts
  <2>2. DOMAIN UpTo(s, n) = 1..n /\ \A k \in 1..n : UpTo(s, n)[k] = s[k]
    BY DEF UpTo
  <2>3. Pieces(UpTo(s, n), C) = UpTo(f, n)
    <3>1. Pieces(UpTo(s, n), C) = [k \in 1..n |-> Piece(s, C, k)]
      BY <2>2 DEF Pieces, Piece
    <3>2. UpTo(f, n) = [k \in 1..n |-> Piece(s, C, k)]
      BY <1>0, <2>1 DEF UpTo
    <3> QED BY <3>1, <3>2
  <2> QED BY <2>3 DEF Chosen
<1>2. Chosen(s, C) = FlattenSeq(f)
  BY DEF Chosen
<1> HIDE DEF f
<1>3. 0 \in 0..Len(s) /\ Len(s) \in 0..Len(s)
  BY <1>0
<1>4. Chosen(UpTo(s, 0), C) = <<>> /\ Chosen(UpTo(s, Len(s)), C) = Chosen(s, C)
  BY <1>0, <1>1, <1>2, <1>3, FlattenSteps
<1>5. ASSUME NEW n \in 0..Len(s) - 1
      PROVE  Chosen(UpTo(s, n + 1), C)
                = Chosen(UpTo(s, n), C) \o Piece(s, C, n + 1)
  <2>1. n \in 0..Len(s) /\ n + 1 \in 0..Len(s) /\ n + 1 \in 1..Len(s) /\ n \in 0..Len(f) - 1
    BY <1>0
  <2>2. FlattenSeq(UpTo(f, n + 1)) = FlattenSeq(UpTo(f, n)) \o f[n + 1]
    BY <1>0, <2>1, FlattenSteps
  <2> QED BY <1>0, <1>1, <2>1, <2>2
<1> QED BY <1>4, <1>5

(* A list without repetitions stays one when something new follows. *)
LEMMA ConcatInjective ==
    ASSUME NEW s, NEW t, IsList(s), IsList(t), IsInjective(s), IsInjective(t),
           ToSet(s) \cap ToSet(t) = {}
    PROVE  IsInjective(s \o t)
<1> DEFINE u == s \o t
<1>0. /\ Len(s) \in Nat /\ Len(t) \in Nat
      /\ DOMAIN s = 1..Len(s) /\ DOMAIN t = 1..Len(t)
  BY ListFacts
<1>1. /\ DOMAIN u = 1..Len(s) + Len(t)
      /\ \A k \in 1..Len(s) : u[k] = s[k]
      /\ \A k \in 1..Len(t) : u[Len(s) + k] = t[k]
  BY ConcatFacts
<1> HIDE DEF u
<1>2. ASSUME NEW i \in DOMAIN u
      PROVE  \/ i \in 1..Len(s) /\ u[i] = s[i] /\ u[i] \in ToSet(s)
             \/ /\ i - Len(s) \in 1..Len(t) /\ u[i] = t[i - Len(s)] /\ u[i] \in ToSet(t)
                /\ i \in Int
  <2>1. CASE i <= Len(s)
    <3>1. i \in 1..Len(s)
      BY <1>0, <1>1, <2>1
    <3> QED BY <1>0, <1>1, <3>1 DEF ToSet
  <2>2. CASE ~(i <= Len(s))
    <3> DEFINE m == i - Len(s)
    <3>1. m \in 1..Len(t) /\ Len(s) + m = i /\ i \in Int
      BY <1>0, <1>1, <2>2
    <3> HIDE DEF m
    <3>2. u[i] = t[m] /\ u[i] \in ToSet(t)
      BY <1>0, <1>1, <3>1 DEF ToSet
    <3> QED BY <3>1, <3>2 DEF m
  <2> QED BY <2>1, <2>2
<1>3. ASSUME NEW i \in DOMAIN u, NEW j \in DOMAIN u, u[i] = u[j]
      PROVE  i = j
  <2>1. CASE i \in 1..Len(s) /\ u[i] = s[i] /\ u[i] \in ToSet(s)
    <3>1. j \in 1..Len(s) /\ u[j] = s[j]
      BY <1>2, <1>3, <2>1
    <3> QED BY <1>0, <1>3, <2>1, <3>1 DEF IsInjective
  <2>2. CASE /\ i - Len(s) \in 1..Len(t) /\ u[i] = t[i - Len(s)] /\ u[i] \in ToSet(t)
             /\ i \in Int
    <3>1. j - Len(s) \in 1..Len(t) /\ u[j] = t[j - Len(s)] /\ j \in Int
      BY <1>2, <1>3, <2>2
    <3>2. i - Len(s) = j - Len(s)
      BY <1>0, <1>3, <2>2, <3>1 DEF IsInjective
    <3> QED BY <1>0, <2>2, <3>1, <3>2
  <2> QED BY <1>2, <2>1, <2>2
<1>4. IsInjective(u)
  BY <1>3 DEF IsInjective
<1> QED BY <1>4 DEF u

(* The chosen elements are a list of what the places have, without repetitions if
   the places have different elements. *)
LEMMA ChosenFacts ==
    ASSUME NEW s, NEW C, IsList(s)
    PROVE  /\ IsList(Chosen(s, C))
           /\ ToSet(Chosen(s, C)) = {s[k] : k \in (1..Len(s)) \cap C}
           /\ (\A j, k \in (1..Len(s)) \cap C : s[j] = s[k] => j = k) => IsInjective(Chosen(s, C))
<1> DEFINE H(n) == Chosen(UpTo(s, n), C)
           Different == \A j, k \in (1..Len(s)) \cap C : s[j] = s[k] => j = k
           Has(n) == /\ IsList(H(n))
                     /\ ToSet(H(n)) = {s[k] : k \in (1..n) \cap C}
                     /\ Different => IsInjective(H(n))
           G == {n \in Nat : n <= Len(s) => Has(n)}
<1>0. Len(s) \in Nat
  BY ListFacts
<1>1. H(0) = <<>> /\ H(Len(s)) = Chosen(s, C)
  BY ChosenSteps
<1>2. ASSUME NEW n \in Nat, n + 1 <= Len(s)
      PROVE  /\ H(n + 1) = H(n) \o Piece(s, C, n + 1)
             /\ n <= Len(s)
  <2>1. n \in 0..Len(s) - 1 /\ n <= Len(s)
    BY <1>0, <1>2
  <2>2. \A m \in 0..Len(s) - 1 :
            Chosen(UpTo(s, m + 1), C)
               = Chosen(UpTo(s, m), C) \o Piece(s, C, m + 1)
    BY ChosenSteps
  <2> QED BY <2>1, <2>2, Zenon
<1> HIDE DEF H
<1>3. IsInjective(<<>>) /\ \A x : IsInjective(<<x>>)
  BY DEF IsInjective
<1>4. 0 \in G
  BY <1>1, <1>3, SmallLists
<1>5. ASSUME NEW n \in Nat, n \in G
      PROVE  n + 1 \in G
  <2> SUFFICES ASSUME n + 1 <= Len(s)
               PROVE  Has(n + 1)
    BY <1>5
  <2>1. Has(n) /\ 1..n + 1 = (1..n) \cup {n + 1}
    <3>1. n <= Len(s)
      BY <1>2
    <3>2. Has(n)
      BY <1>5, <3>1
    <3>3. 1..n + 1 = (1..n) \cup {n + 1}
      OBVIOUS
    <3> HIDE DEF Has
    <3> QED BY <3>2, <3>3
  <2>2. CASE n + 1 \notin C
    <3>1. H(n + 1) = H(n) \o <<>> /\ IsList(H(n))
      BY <1>2, <2>1, <2>2 DEF Piece
    <3>2. H(n + 1) = H(n)
      BY <3>1, SmallLists
    <3>3. (1..n + 1) \cap C = (1..n) \cap C
      BY <2>1, <2>2
    <3> QED BY <2>1, <3>2, <3>3
  <2>3. CASE n + 1 \in C
    <3> DEFINE a == H(n)
               b == <<s[n + 1]>>
    <3>1. H(n + 1) = a \o b
      BY <1>2, <2>3 DEF Piece
    <3>2. IsList(a) /\ IsList(b) /\ IsInjective(b) /\ ToSet(b) = {s[n + 1]}
      BY <1>3, <2>1, SmallLists
    <3>3. ToSet(a) = {s[k] : k \in (1..n) \cap C} /\ (Different => IsInjective(a))
      BY <2>1
    <3>4. Different => ToSet(a) \cap ToSet(b) = {}
      <4> SUFFICES ASSUME Different, s[n + 1] \in ToSet(a)
                   PROVE  FALSE
        BY <3>2
      <4>1. PICK k \in (1..n) \cap C : s[k] = s[n + 1]
        BY <3>3
      <4>2. /\ k \in (1..Len(s)) \cap C /\ n + 1 \in (1..Len(s)) \cap C /\ k # n + 1
        BY <1>0, <2>3, <4>1
      <4> QED BY <4>1, <4>2
    <3> HIDE DEF a, b, Different
    <3>5. IsList(a \o b) /\ ToSet(a \o b) = ToSet(a) \cup ToSet(b)
      BY <3>2, ConcatFacts
    <3>6. Different => IsInjective(a \o b)
      BY <3>2, <3>3, <3>4, ConcatInjective
    <3>7. {s[k] : k \in (1..n + 1) \cap C} = {s[k] : k \in (1..n) \cap C} \cup {s[n + 1]}
      BY <2>1, <2>3
    <3> QED BY <3>1, <3>2, <3>3, <3>5, <3>6, <3>7
  <2> QED BY <2>2, <2>3
<1>6. Nat \subseteq G
  <2> HIDE DEF G
  <2> QED BY <1>4, <1>5, SetInduction
<1>7. Has(Len(s))
  BY <1>0, <1>6
<1> QED BY <1>1, <1>7

(* The places of the chosen elements, in their order. *)
IsEnumeration(pl, n, C) ==
    /\ IsList(pl) /\ ToSet(pl) = (1..n) \cap C
    /\ \A j, k \in 1..Len(pl) : j < k => pl[j] < pl[k]

LEMMA ChosenPlaces ==
    ASSUME NEW s, NEW C, IsList(s)
    PROVE  \E pl : /\ IsEnumeration(pl, Len(s), C) /\ Len(pl) = Len(Chosen(s, C))
                   /\ \A k \in 1..Len(pl) : Chosen(s, C)[k] = s[pl[k]]
<1> DEFINE H(n) == Chosen(UpTo(s, n), C)
           Enumerates(pl, n) == /\ IsEnumeration(pl, n, C) /\ Len(pl) = Len(H(n)) /\ IsList(H(n))
                          /\ \A k \in 1..Len(pl) : H(n)[k] = s[pl[k]]
           Has(n) == \E pl : Enumerates(pl, n)
           G == {n \in Nat : n <= Len(s) => Has(n)}
<1>0. Len(s) \in Nat
  BY ListFacts
<1>1. H(0) = <<>> /\ H(Len(s)) = Chosen(s, C)
  BY ChosenSteps
<1>2. ASSUME NEW n \in Nat, n + 1 <= Len(s)
      PROVE  H(n + 1) = H(n) \o Piece(s, C, n + 1) /\ n <= Len(s)
  <2>1. n \in 0..Len(s) - 1 /\ n <= Len(s)
    BY <1>0, <1>2
  <2>2. \A m \in 0..Len(s) - 1 :
            Chosen(UpTo(s, m + 1), C) = Chosen(UpTo(s, m), C) \o Piece(s, C, m + 1)
    BY ChosenSteps
  <2> QED BY <2>1, <2>2, Zenon
<1> HIDE DEF H
<1>3. Has(0)
  <2>1. IsEnumeration(<<>>, 0, C) /\ Len(<<>>) = 0 /\ IsList(<<>>)
    BY SmallLists DEF IsEnumeration
  <2>2. Enumerates(<<>>, 0)
    BY <1>1, <2>1
  <2> QED BY <2>2
<1>4. ASSUME NEW n \in Nat, n + 1 <= Len(s), NEW pl, Enumerates(pl, n)
      PROVE  Has(n + 1)
  <2>1. /\ IsList(pl) /\ ToSet(pl) = (1..n) \cap C /\ Len(pl) \in Nat /\ DOMAIN pl = 1..Len(pl)
        /\ \A j, k \in 1..Len(pl) : j < k => pl[j] < pl[k]
        /\ Len(pl) = Len(H(n)) /\ IsList(H(n))
        /\ \A k \in 1..Len(pl) : H(n)[k] = s[pl[k]]
    BY <1>4, ListFacts DEF IsEnumeration
  <2>2. CASE n + 1 \notin C
    <3>1. H(n + 1) = H(n) \o <<>>
      BY <1>2, <1>4, <2>2 DEF Piece
    <3>2. H(n + 1) = H(n)
      BY <2>1, <3>1, SmallLists
    <3>3. (1..n + 1) \cap C = (1..n) \cap C
      BY <2>2
    <3>4. Enumerates(pl, n + 1)
      BY <2>1, <3>2, <3>3 DEF IsEnumeration
    <3> QED BY <3>4
  <2>3. CASE n + 1 \in C
    <3> DEFINE ql == Append(pl, n + 1)
               h == H(n)
               e == s[n + 1]
    <3>1. H(n + 1) = h \o <<e>>
      BY <1>2, <1>4, <2>3 DEF Piece
    <3> HIDE DEF h, e
    <3>2. IsList(h) /\ Len(h) = Len(pl) /\ \A k \in 1..Len(pl) : h[k] = s[pl[k]]
      BY <2>1 DEF h
    <3>3. H(n + 1) = Append(h, e)
      BY <3>1, <3>2, AppendFacts
    <3>4. IsList(Append(h, e)) /\ Len(Append(h, e)) = Len(h) + 1
      BY <3>2, AppendFacts
    <3>5. /\ \A k \in 1..Len(h) : Append(h, e)[k] = h[k]
          /\ Append(h, e)[Len(h) + 1] = e
      BY <3>2, AppendFacts
    <3>6. IsList(ql) /\ Len(ql) = Len(pl) + 1 /\ ToSet(ql) = ToSet(pl) \cup {n + 1}
      BY <2>1, AppendFacts
    <3>7. (\A k \in 1..Len(pl) : ql[k] = pl[k]) /\ ql[Len(pl) + 1] = n + 1
      BY <2>1, AppendFacts
    <3> HIDE DEF ql
    <3>8. ToSet(ql) = (1..n + 1) \cap C
      BY <2>1, <2>3, <3>6
    <3>9. \A k \in 1..Len(pl) : pl[k] \in 1..n
      BY <2>1 DEF ToSet
    <3>10. ASSUME NEW j \in 1..Len(ql), NEW k \in 1..Len(ql), j < k
           PROVE  ql[j] < ql[k]
      <4>1. j \in 1..Len(pl) /\ ql[j] = pl[j] /\ pl[j] \in 1..n
        BY <2>1, <3>6, <3>7, <3>9, <3>10
      <4>2. CASE k \in 1..Len(pl)
        BY <2>1, <3>7, <3>10, <4>1, <4>2
      <4>3. CASE k = Len(pl) + 1
        BY <3>7, <4>1, <4>3
      <4> QED BY <2>1, <3>6, <4>2, <4>3
    <3>11. ASSUME NEW k \in 1..Len(ql)
           PROVE  H(n + 1)[k] = s[ql[k]]
      <4>1. CASE k \in 1..Len(pl)
        BY <3>2, <3>3, <3>5, <3>7, <4>1, SMTT(30)
      <4>2. CASE k = Len(pl) + 1
        BY <3>2, <3>3, <3>5, <3>7, <4>2 DEF e
      <4> QED BY <2>1, <3>6, <4>1, <4>2
    <3>12. Len(H(n + 1)) = Len(ql) /\ IsList(H(n + 1))
      BY <3>2, <3>3, <3>4, <3>6
    <3>13. Enumerates(ql, n + 1)
      BY <3>6, <3>8, <3>10, <3>11, <3>12 DEF IsEnumeration
    <3> QED BY <3>13
  <2> QED BY <2>2, <2>3
<1>5. Nat \subseteq G
  <2>1. 0 \in G
    BY <1>3
  <2>2. ASSUME NEW n \in Nat, n \in G PROVE n + 1 \in G
    <3> SUFFICES ASSUME n + 1 <= Len(s) PROVE Has(n + 1)
      OBVIOUS
    <3>1. Has(n)
      BY <1>2, <2>2
    <3> HIDE DEF Enumerates
    <3> QED BY <1>4, <3>1
  <2> HIDE DEF G
  <2> QED BY <2>1, <2>2, SetInduction
<1>6. Has(Len(s))
  BY <1>0, <1>5
<1> QED BY <1>1, <1>6
=============================================================================
