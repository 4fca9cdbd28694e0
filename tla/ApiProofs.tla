----------------------------- MODULE ApiProofs -----------------------------
(* parseEndpoints loses no operation and no parameter, one kind of credentials
   serves all endpoints of a generated client, routing replies with the methods of
   the endpoints only, match_path decides a match segment by segment,
   handle_request finds the method of the request's path and verb, and a call of
   the client arrives as the call it was: for every document, every order of its
   hash maps and every request.

   An operation of a document d is known by its place <<i, o>>: operation o of
   path i.  The definitions take the document as an argument, so that what they
   say of a document does not change in a step. *)
EXTENDS Api, SequenceFacts

-----------------------------------------------------------------------------
(* The places of the document's operations. *)

PlacesOf(d) == [i \in DOMAIN d.paths |-> [o \in DOMAIN d.paths[i].ops |-> <<i, o>>]]
PlacesUpTo(d, n) == FlattenSeq(UpTo(PlacesOf(d), n))
AllPlaces(d) == FlattenSeq(PlacesOf(d))

OpAt(d, r) == d.paths[r[1]].ops[r[2]]

(* The places where a supported method is. *)
Supported(d, rs) == {k \in DOMAIN rs : OpAt(d, rs[k]).method \in Methods}
SupportedPlaces(d, rs) == Chosen(rs, Supported(d, rs))

(* What is collected and what is asked for at a place. *)
CollectedAt(d, r) ==
    [path |-> d.paths[r[1]].path, method |-> OpAt(d, r).method,
     op_params |-> Resolved(OpAt(d, r).params),
     hasOpSecurity |-> OpAt(d, r).security]

ParamKey(p) == <<p.name, p.in>>

OperationOf(d, i, o) ==
    [method |-> d.paths[i].ops[o].method, path |-> d.paths[i].path,
     params |-> ToSet(d.paths[i].ops[o].params)
                  \cup {p \in ToSet(d.paths[i].params) :
                           ParamKey(p) \notin {ParamKey(q) : q \in ToSet(d.paths[i].ops[o].params)}}]

OperationAt(d, r) == OperationOf(d, r[1], r[2])

(* What the assumption on documents says of one. *)
LEMMA DocumentFacts ==
    ASSUME NEW d \in Documents
    PROVE  /\ IsList(d.paths) /\ Len(d.paths) \in Nat /\ DOMAIN d.paths = 1..Len(d.paths)
           /\ \A i \in 1..Len(d.paths) :
                 /\ IsList(d.paths[i].params) /\ Len(d.paths[i].params) \in Nat
                 /\ DOMAIN d.paths[i].params = 1..Len(d.paths[i].params)
                 /\ IsList(d.paths[i].ops) /\ Len(d.paths[i].ops) \in Nat
                 /\ DOMAIN d.paths[i].ops = 1..Len(d.paths[i].ops)
                 /\ \A k \in 1..Len(d.paths[i].params) : IsParam(d.paths[i].params[k])
                 /\ \A o \in 1..Len(d.paths[i].ops) :
                       /\ IsList(d.paths[i].ops[o].params)
                       /\ \A k \in DOMAIN d.paths[i].ops[o].params :
                             IsParam(d.paths[i].ops[o].params[k])
<1>1. IsDocument(d)
  BY DocumentsAssumption
<1>2. IsList(d.paths)
  BY <1>1 DEF IsDocument, IsList
<1>3. Len(d.paths) \in Nat /\ DOMAIN d.paths = 1..Len(d.paths)
  BY <1>2, ListFacts
<1>4. ASSUME NEW i \in 1..Len(d.paths)
      PROVE  /\ IsList(d.paths[i].params) /\ Len(d.paths[i].params) \in Nat
             /\ DOMAIN d.paths[i].params = 1..Len(d.paths[i].params)
             /\ IsList(d.paths[i].ops) /\ Len(d.paths[i].ops) \in Nat
             /\ DOMAIN d.paths[i].ops = 1..Len(d.paths[i].ops)
             /\ \A k \in 1..Len(d.paths[i].params) : IsParam(d.paths[i].params[k])
             /\ \A o \in 1..Len(d.paths[i].ops) :
                   /\ IsList(d.paths[i].ops[o].params)
                   /\ \A k \in DOMAIN d.paths[i].ops[o].params :
                         IsParam(d.paths[i].ops[o].params[k])
  <2> DEFINE ps == d.paths[i].params
             os == d.paths[i].ops
  <2>1. i \in DOMAIN d.paths
    BY <1>3
  <2>2. IsList(ps) /\ IsList(os)
    BY <1>1, <2>1 DEF IsDocument, IsList
  <2>3. /\ \A k \in DOMAIN ps : IsParam(ps[k])
        /\ \A o \in DOMAIN os : \A k \in DOMAIN os[o].params : IsParam(os[o].params[k])
    BY <1>1, <2>1 DEF IsDocument
  <2>4. \A o \in DOMAIN os : IsList(os[o].params)
    BY <1>1, <2>1 DEF IsDocument, IsList
  <2> HIDE DEF ps, os
  <2>5. /\ Len(ps) \in Nat /\ DOMAIN ps = 1..Len(ps)
        /\ Len(os) \in Nat /\ DOMAIN os = 1..Len(os)
    BY <2>2, ListFacts
  <2>6. /\ IsList(ps) /\ Len(ps) \in Nat /\ DOMAIN ps = 1..Len(ps)
        /\ IsList(os) /\ Len(os) \in Nat /\ DOMAIN os = 1..Len(os)
        /\ \A k \in 1..Len(ps) : IsParam(ps[k])
        /\ \A o \in 1..Len(os) :
              IsList(os[o].params) /\ \A k \in DOMAIN os[o].params : IsParam(os[o].params[k])
    BY <2>2, <2>3, <2>4, <2>5
  <2> QED BY <2>6 DEF ps, os
<1> QED BY <1>2, <1>3, <1>4

(* The places path by path. *)
LEMMA PlacesFacts ==
    ASSUME NEW d \in Documents
    PROVE  /\ IsListOfLists(PlacesOf(d)) /\ Len(PlacesOf(d)) = Len(d.paths)
           /\ \A i \in 1..Len(d.paths) :
                 /\ IsList(PlacesOf(d)[i])
                 /\ Len(PlacesOf(d)[i]) = Len(d.paths[i].ops)
                 /\ \A o \in 1..Len(d.paths[i].ops) : PlacesOf(d)[i][o] = <<i, o>>
<1> DEFINE f == PlacesOf(d)
<1>0. Len(d.paths) \in Nat /\ DOMAIN d.paths = 1..Len(d.paths)
  BY DocumentFacts
<1>1. /\ f = [i \in 1..Len(d.paths) |-> f[i]]
      /\ \A i \in 1..Len(d.paths) : f[i] = [o \in DOMAIN d.paths[i].ops |-> <<i, o>>]
  BY <1>0 DEF PlacesOf
<1> HIDE DEF f
<1>2. IsList(f) /\ Len(f) = Len(d.paths)
  BY <1>0, <1>1, FunctionIsList
<1>3. ASSUME NEW i \in 1..Len(d.paths)
      PROVE  /\ IsList(f[i]) /\ Len(f[i]) = Len(d.paths[i].ops)
             /\ \A o \in 1..Len(d.paths[i].ops) : f[i][o] = <<i, o>>
  <2> DEFINE g == f[i]
             n == Len(d.paths[i].ops)
  <2>1. n \in Nat /\ DOMAIN d.paths[i].ops = 1..n
    BY DocumentFacts
  <2>2. g = [o \in 1..n |-> <<i, o>>]
    BY <1>1, <2>1
  <2> HIDE DEF g, n
  <2>3. g = [o \in 1..n |-> g[o]] /\ \A o \in 1..n : g[o] = <<i, o>>
    BY <2>2
  <2>4. IsList(g) /\ Len(g) = n
    BY <2>1, <2>3, FunctionIsList
  <2> QED BY <2>3, <2>4 DEF g, n
<1> QED BY <1>2, <1>3 DEF f, IsListOfLists

(* All of them: a list of places in the document. *)
LEMMA PlacesAreInside ==
    ASSUME NEW d \in Documents, NEW n \in 0..Len(d.paths)
    PROVE  /\ IsList(PlacesUpTo(d, n))
           /\ \A r \in ToSet(PlacesUpTo(d, n)) :
                 \E i \in 1..Len(d.paths) : \E o \in 1..Len(d.paths[i].ops) : r = <<i, o>>
<1> DEFINE u == UpTo(PlacesOf(d), n)
<1>0. /\ IsListOfLists(PlacesOf(d)) /\ Len(PlacesOf(d)) = Len(d.paths)
      /\ Len(d.paths) \in Nat /\ IsList(PlacesOf(d))
  BY PlacesFacts, DocumentFacts DEF IsListOfLists
<1>1. IsListOfLists(u) /\ Len(u) = n /\ \A i \in 1..n : u[i] = PlacesOf(d)[i]
  BY <1>0, UpToFacts
<1> HIDE DEF u
<1>2. IsList(FlattenSeq(u)) /\ ToSet(FlattenSeq(u)) = UNION {ToSet(u[i]) : i \in 1..Len(u)}
  BY <1>1, FlattenFacts
<1>3. ASSUME NEW r \in ToSet(FlattenSeq(u))
      PROVE  \E i \in 1..Len(d.paths) : \E o \in 1..Len(d.paths[i].ops) : r = <<i, o>>
  <2>1. PICK i \in 1..n : r \in ToSet(u[i])
    BY <1>1, <1>2
  <2>2. i \in 1..Len(d.paths)
    BY <1>0
  <2> DEFINE g == PlacesOf(d)[i]
  <2>3. /\ IsList(g) /\ Len(g) = Len(d.paths[i].ops)
        /\ \A o \in 1..Len(d.paths[i].ops) : g[o] = <<i, o>>
    BY <2>2, PlacesFacts
  <2>4. r \in ToSet(g)
    BY <1>1, <2>1
  <2> HIDE DEF g
  <2>5. PICK o \in DOMAIN g : r = g[o]
    BY <2>4 DEF ToSet
  <2>6. DOMAIN g = 1..Len(d.paths[i].ops)
    BY <2>3, ListFacts
  <2> QED BY <2>2, <2>3, <2>5, <2>6
<1> QED BY <1>2, <1>3 DEF u, PlacesUpTo

-----------------------------------------------------------------------------
(* The operations that are asked for, by their places. *)

(* The supported ones among two lists of places. *)
LEMMA SupportedConcat ==
    ASSUME NEW d, NEW s, NEW t, IsList(s), IsList(t)
    PROVE  SupportedPlaces(d, s \o t) = SupportedPlaces(d, s) \o SupportedPlaces(d, t)
<1> DEFINE u == s \o t
           a == Pieces(s, Supported(d, s))
           b == Pieces(t, Supported(d, t))
           c == Pieces(u, Supported(d, u))
           e == a \o b
<1>0. /\ Len(s) \in Nat /\ Len(t) \in Nat
      /\ DOMAIN s = 1..Len(s) /\ DOMAIN t = 1..Len(t)
  BY ListFacts
<1>1. /\ IsListOfLists(a) /\ Len(a) = Len(s)
      /\ \A k \in 1..Len(s) : a[k] = Piece(s, Supported(d, s), k)
      /\ IsListOfLists(b) /\ Len(b) = Len(t)
      /\ \A k \in 1..Len(t) : b[k] = Piece(t, Supported(d, t), k)
  BY PiecesFacts
<1>2. /\ IsList(u) /\ Len(u) = Len(s) + Len(t) /\ DOMAIN u = 1..Len(s) + Len(t)
      /\ \A k \in 1..Len(s) : u[k] = s[k]
      /\ \A k \in 1..Len(t) : u[Len(s) + k] = t[k]
  BY ConcatFacts
<1> HIDE DEF a, b, u
<1>3. /\ IsListOfLists(c) /\ Len(c) = Len(u)
      /\ \A k \in 1..Len(u) : c[k] = Piece(u, Supported(d, u), k)
  BY <1>2, PiecesFacts
<1>4. IsList(a) /\ IsList(b) /\ IsList(c)
  BY <1>1, <1>3 DEF IsListOfLists
<1>5. /\ IsList(e) /\ Len(e) = Len(s) + Len(t)
      /\ \A k \in 1..Len(s) : e[k] = a[k]
      /\ \A k \in 1..Len(t) : e[Len(s) + k] = b[k]
  BY <1>1, <1>4, ConcatFacts
<1> HIDE DEF c, e
<1>6. ASSUME NEW k \in 1..Len(c)
      PROVE  c[k] = e[k]
  <2>0. c[k] = Piece(u, Supported(d, u), k) /\ k \in DOMAIN u
    BY <1>2, <1>3
  <2>1. CASE k <= Len(s)
    <3>1. k \in 1..Len(s)
      BY <1>0, <1>2, <1>3, <2>1
    <3>2. e[k] = Piece(s, Supported(d, s), k) /\ u[k] = s[k]
      BY <1>1, <1>2, <1>5, <3>1
    <3> QED BY <1>0, <2>0, <3>1, <3>2 DEF Piece, Supported
  <2>2. CASE ~(k <= Len(s))
    <3> DEFINE m == k - Len(s)
    <3>1. m \in 1..Len(t) /\ Len(s) + m = k
      BY <1>0, <1>2, <1>3, <2>2
    <3> HIDE DEF m
    <3>2. e[k] = Piece(t, Supported(d, t), m) /\ u[k] = t[m]
      BY <1>1, <1>2, <1>5, <3>1
    <3> QED BY <1>0, <2>0, <3>1, <3>2 DEF Piece, Supported
  <2> QED BY <2>1, <2>2
<1>7. c = e
  BY <1>2, <1>3, <1>4, <1>5, <1>6, ListEqual
<1>8. FlattenSeq(e) = FlattenSeq(a) \o FlattenSeq(b)
  BY <1>1, FlattenConcat DEF e
<1> QED BY <1>7, <1>8 DEF SupportedPlaces, Chosen, a, b, c, u

(* The supported ones of the document, path by path. *)
LEMMA SupportedByPath ==
    ASSUME NEW d \in Documents, NEW ss, IsListOfLists(ss), Len(ss) = Len(d.paths),
           \A i \in 1..Len(d.paths) : ss[i] = SupportedPlaces(d, PlacesOf(d)[i])
    PROVE  FlattenSeq(ss) = SupportedPlaces(d, AllPlaces(d))
<1> DEFINE pp == PlacesOf(d)
           S(n) == FlattenSeq(UpTo(ss, n))
           P(n) == FlattenSeq(UpTo(pp, n))
           G == {n \in Nat : n <= Len(ss) => S(n) = SupportedPlaces(d, P(n))}
<1>0. /\ Len(ss) \in Nat /\ IsListOfLists(pp) /\ Len(pp) = Len(ss) /\ IsList(pp)
      /\ \A i \in 1..Len(ss) : IsList(pp[i])
  BY DocumentFacts, PlacesFacts DEF IsListOfLists
<1> HIDE DEF pp
<1>1. S(0) = <<>> /\ P(0) = <<>> /\ S(Len(ss)) = FlattenSeq(ss) /\ P(Len(ss)) = FlattenSeq(pp)
  BY <1>0, FlattenSteps
<1>2. ASSUME NEW n \in Nat, n + 1 <= Len(ss)
      PROVE  /\ S(n + 1) = S(n) \o ss[n + 1] /\ P(n + 1) = P(n) \o pp[n + 1]
             /\ IsList(P(n)) /\ IsList(pp[n + 1]) /\ n <= Len(ss)
             /\ ss[n + 1] = SupportedPlaces(d, pp[n + 1])
  <2>1. n \in 0..Len(ss) - 1 /\ n + 1 \in 1..Len(ss) /\ n \in 0..Len(ss) /\ n <= Len(ss)
    BY <1>0, <1>2
  <2>2. S(n + 1) = S(n) \o ss[n + 1] /\ P(n + 1) = P(n) \o pp[n + 1]
    BY <1>0, <2>1, FlattenSteps
  <2>3. IsList(P(n))
    BY <1>0, <2>1, UpToFacts, FlattenFacts
  <2>4. ss[n + 1] = SupportedPlaces(d, pp[n + 1])
    BY <2>1 DEF pp
  <2> QED BY <1>0, <2>1, <2>2, <2>3, <2>4
<1> HIDE DEF S, P
<1>3. 0 \in G
  <2>1. IsList(<<>>) /\ Len(<<>>) = 0
    BY SmallLists
  <2>2. ToSet(SupportedPlaces(d, <<>>)) = {} /\ IsList(SupportedPlaces(d, <<>>))
    BY <2>1, ChosenFacts DEF SupportedPlaces
  <2>3. SupportedPlaces(d, <<>>) = <<>>
    <3> DEFINE e == SupportedPlaces(d, <<>>)
    <3>1. Len(e) \in Nat /\ DOMAIN e = 1..Len(e) /\ DOMAIN e = {}
      BY <2>2, ListFacts, ZenonT(60) DEF ToSet
    <3> HIDE DEF e
    <3>2. Len(e) = 0
      <4>1. Len(e) \notin DOMAIN e
        BY <3>1
      <4> QED BY <3>1, <4>1
    <3> QED BY <2>2, <3>2, SmallLists DEF e
  <2> QED BY <1>1, <2>3
<1>4. ASSUME NEW n \in Nat, n \in G
      PROVE  n + 1 \in G
  <2> SUFFICES ASSUME n + 1 <= Len(ss)
               PROVE  S(n + 1) = SupportedPlaces(d, P(n + 1))
    OBVIOUS
  <2> DEFINE a == P(n)
             b == pp[n + 1]
  <2>1. /\ P(n + 1) = a \o b /\ IsList(a) /\ IsList(b)
        /\ S(n + 1) = SupportedPlaces(d, a) \o SupportedPlaces(d, b)
    BY <1>2, <1>4
  <2> HIDE DEF a, b
  <2>2. IsList(a) /\ IsList(b)
    BY <2>1
  <2>3. SupportedPlaces(d, a \o b) = SupportedPlaces(d, a) \o SupportedPlaces(d, b)
    BY <2>2, SupportedConcat
  <2> QED BY <2>1, <2>3
<1>5. Nat \subseteq G
  <2> HIDE DEF G
  <2> QED BY <1>3, <1>4, SetInduction
<1>6. S(Len(ss)) = SupportedPlaces(d, P(Len(ss)))
  BY <1>0, <1>5
<1> QED BY <1>1, <1>6 DEF AllPlaces, pp

(* The operations of one path as Operations has them. *)
Wanted(d, i, o) ==
    IF d.paths[i].ops[o].method \notin Methods THEN <<>> ELSE <<OperationOf(d, i, o)>>
OperationsOf(d, i) == FlattenSeq([o \in DOMAIN d.paths[i].ops |-> Wanted(d, i, o)])

LEMMA OperationsAre ==
    Operations = FlattenSeq([i \in DOMAIN doc.paths |-> OperationsOf(doc, i)])
BY Zenon DEF Operations, OperationsOf, Wanted, OperationOf, ParamKey

(* They are those at the supported places of the path. *)
LEMMA OperationsOfPath ==
    ASSUME NEW d \in Documents, NEW i \in 1..Len(d.paths),
           NEW F, \A o \in 1..Len(d.paths[i].ops) : F[<<i, o>>] = OperationOf(d, i, o)
    PROVE  OperationsOf(d, i) = Mapped(F, SupportedPlaces(d, PlacesOf(d)[i]))
<1> DEFINE n == Len(d.paths[i].ops)
           g == PlacesOf(d)[i]
           ss == Pieces(g, Supported(d, g))
           tt == [o \in DOMAIN d.paths[i].ops |-> Wanted(d, i, o)]
<1>0. n \in Nat /\ DOMAIN d.paths[i].ops = 1..n
  BY DocumentFacts
<1>1. IsList(g) /\ Len(g) = n /\ \A o \in 1..n : g[o] = <<i, o>>
  BY PlacesFacts
<1>2. tt = [o \in 1..n |-> tt[o]] /\ \A o \in 1..n : tt[o] = Wanted(d, i, o)
  BY <1>0
<1> HIDE DEF g, tt
<1>3. IsList(tt) /\ Len(tt) = n
  <2> HIDE DEF n
  <2> QED BY <1>0, <1>2, FunctionIsList
<1>4. DOMAIN g = 1..n
  BY <1>1, ListFacts
<1>5. /\ IsListOfLists(ss) /\ Len(ss) = n
      /\ \A o \in 1..n : ss[o] = Piece(g, Supported(d, g), o)
  BY <1>1, PiecesFacts
<1> HIDE DEF ss
<1>6. ASSUME NEW o \in 1..n
      PROVE  tt[o] = Mapped(F, ss[o])
  <2>1. g[o] = <<i, o>> /\ OpAt(d, g[o]) = d.paths[i].ops[o]
    BY <1>1 DEF OpAt
  <2>2. o \in Supported(d, g) <=> d.paths[i].ops[o].method \in Methods
    BY <1>4, <2>1 DEF Supported
  <2>3. CASE d.paths[i].ops[o].method \in Methods
    <3>1. ss[o] = <<g[o]>> /\ tt[o] = <<OperationOf(d, i, o)>>
      BY <1>2, <1>5, <2>2, <2>3 DEF Piece, Wanted
    <3>2. F[g[o]] = OperationOf(d, i, o)
      BY <2>1
    <3>3. Mapped(F, <<g[o]>>) = <<F[g[o]]>>
      BY DEF Mapped
    <3> QED BY <3>1, <3>2, <3>3
  <2>4. CASE d.paths[i].ops[o].method \notin Methods
    <3>1. ss[o] = <<>> /\ tt[o] = <<>>
      BY <1>2, <1>5, <2>2, <2>4 DEF Piece, Wanted
    <3>2. Mapped(F, <<>>) = <<>>
      BY MappedFacts, SmallLists
    <3> QED BY <3>1, <3>2
  <2> QED BY <2>3, <2>4
<1>7. FlattenSeq(tt) = Mapped(F, FlattenSeq(ss))
  <2> HIDE DEF n
  <2> QED BY <1>3, <1>5, <1>6, MappedFlatten
<1> QED BY <1>7 DEF OperationsOf, SupportedPlaces, Chosen, tt, ss, g

(* So the document's operations are those at its supported places, in order. *)
LEMMA OperationsByPlace ==
    ASSUME doc \in Documents
    PROVE  /\ IsList(SupportedPlaces(doc, AllPlaces(doc)))
           /\ IsList(Operations)
           /\ Len(Operations) = Len(SupportedPlaces(doc, AllPlaces(doc)))
           /\ \A k \in 1..Len(Operations) :
                 Operations[k] = OperationAt(doc, SupportedPlaces(doc, AllPlaces(doc))[k])
<1> DEFINE all == AllPlaces(doc)
           sup == SupportedPlaces(doc, all)
           F == [r \in ToSet(all) |-> OperationAt(doc, r)]
           n == Len(doc.paths)
           tt == [i \in DOMAIN doc.paths |-> OperationsOf(doc, i)]
           ss == [i \in DOMAIN doc.paths |-> SupportedPlaces(doc, PlacesOf(doc)[i])]
<1>0. n \in Nat /\ DOMAIN doc.paths = 1..n
  BY DocumentFacts
<1>1. /\ IsListOfLists(PlacesOf(doc)) /\ Len(PlacesOf(doc)) = n
      /\ \A i \in 1..n : /\ IsList(PlacesOf(doc)[i])
                         /\ Len(PlacesOf(doc)[i]) = Len(doc.paths[i].ops)
                         /\ \A o \in 1..Len(doc.paths[i].ops) : PlacesOf(doc)[i][o] = <<i, o>>
  BY PlacesFacts
<1>2. IsList(all) /\ ToSet(all) = UNION {ToSet(PlacesOf(doc)[i]) : i \in 1..n}
  BY <1>1, FlattenFacts DEF AllPlaces
<1>3. IsList(sup) /\ ToSet(sup) \subseteq ToSet(all)
  <2>1. /\ IsList(sup)
        /\ ToSet(sup) = {all[k] : k \in (1..Len(all)) \cap Supported(doc, all)}
    BY <1>2, ChosenFacts DEF SupportedPlaces
  <2>2. DOMAIN all = 1..Len(all)
    BY <1>2, ListFacts
  <2> HIDE DEF all, sup
  <2> QED BY <2>1, <2>2 DEF ToSet
<1>4. /\ tt = [i \in 1..n |-> tt[i]] /\ \A i \in 1..n : tt[i] = OperationsOf(doc, i)
      /\ ss = [i \in 1..n |-> ss[i]]
      /\ \A i \in 1..n : ss[i] = SupportedPlaces(doc, PlacesOf(doc)[i])
  BY <1>0
<1>5. Operations = FlattenSeq(tt)
  BY OperationsAre
<1> HIDE DEF tt, ss
<1>6. IsList(tt) /\ Len(tt) = n /\ IsList(ss) /\ Len(ss) = n
  <2> HIDE DEF n
  <2> QED BY <1>0, <1>4, FunctionIsList
<1>7. IsListOfLists(ss)
  <2> SUFFICES ASSUME NEW i \in 1..n
               PROVE  IsList(SupportedPlaces(doc, PlacesOf(doc)[i]))
    BY <1>4, <1>6 DEF IsListOfLists
  <2>1. IsList(PlacesOf(doc)[i])
    BY <1>1
  <2> QED BY <2>1, ChosenFacts DEF SupportedPlaces
<1>8. ASSUME NEW i \in 1..n
      PROVE  tt[i] = Mapped(F, ss[i])
  <2>1. \A o \in 1..Len(doc.paths[i].ops) : F[<<i, o>>] = OperationOf(doc, i, o)
    <3> SUFFICES ASSUME NEW o \in 1..Len(doc.paths[i].ops)
                 PROVE  F[<<i, o>>] = OperationOf(doc, i, o)
      OBVIOUS
    <3>1. PlacesOf(doc)[i][o] = <<i, o>> /\ o \in DOMAIN PlacesOf(doc)[i]
      BY <1>1, ListFacts
    <3>2. <<i, o>> \in ToSet(PlacesOf(doc)[i])
      BY <3>1 DEF ToSet
    <3>3. <<i, o>> \in ToSet(all)
      BY <1>2, <3>2
    <3> HIDE DEF all
    <3> QED BY <3>3 DEF OperationAt
  <2> HIDE DEF F
  <2>2. OperationsOf(doc, i) = Mapped(F, SupportedPlaces(doc, PlacesOf(doc)[i]))
    BY <2>1, OperationsOfPath
  <2> QED BY <1>4, <2>2
<1>9. Operations = Mapped(F, sup)
  <2>1. FlattenSeq(ss) = sup
    BY <1>4, <1>6, <1>7, SupportedByPath
  <2>2. FlattenSeq(tt) = Mapped(F, FlattenSeq(ss))
    <3> HIDE DEF F, n
    <3> QED BY <1>6, <1>7, <1>8, MappedFlatten
  <2> QED BY <1>5, <2>1, <2>2
<1> HIDE DEF all, sup
<1>10. /\ IsList(Operations) /\ Len(Operations) = Len(sup)
       /\ \A k \in 1..Len(sup) : Operations[k] = F[sup[k]]
  <2> HIDE DEF F
  <2>1. IsList(sup)
    BY <1>3
  <2>2. /\ IsList(Mapped(F, sup)) /\ Len(Mapped(F, sup)) = Len(sup)
        /\ \A k \in 1..Len(sup) : Mapped(F, sup)[k] = F[sup[k]]
    BY <2>1, MappedFacts
  <2> QED BY <1>9, <2>2
<1>11. \A k \in 1..Len(sup) : sup[k] \in ToSet(all)
  BY <1>3, ListFacts DEF ToSet
<1> QED BY <1>3, <1>10, <1>11 DEF sup, all

-----------------------------------------------------------------------------
(* The merge of parameters. *)

(* The image of an interval is finite; it has as many members as the interval if
   no two numbers go to the same one. *)
LEMMA ImageOfInterval ==
    ASSUME NEW n \in Nat, NEW f, f = [k \in 1..n |-> f[k]],
           NEW T, T = {f[k] : k \in 1..n}
    PROVE  /\ IsFiniteSet(T)
           /\ (\A j, k \in 1..n : f[j] = f[k] => j = k) => Cardinality(T) = n
<1> DEFINE D == 1..n
<1>1. IsFiniteSet(D) /\ Cardinality(D) = n
  BY FS_Interval
<1>2. f \in [D -> T] /\ \A t \in T : \E k \in D : f[k] = t
  OBVIOUS
<1>3. f \in Surjection(D, T)
  BY <1>2 DEF Surjection
<1>4. (\A j, k \in D : f[j] = f[k] => j = k) => f \in Injection(D, T)
  BY <1>2 DEF Injection, IsInjective
<1> HIDE DEF D
<1>5. IsFiniteSet(T) /\ (Cardinality(T) = Cardinality(D) <=> f \in Injection(D, T))
  BY <1>1, <1>3, FS_Surjection
<1>6. IsFiniteSet(T) /\ ((\A j, k \in D : f[j] = f[k] => j = k) => Cardinality(T) = n)
  BY <1>1, <1>4, <1>5
<1> QED BY <1>6 DEF D

(* The fields of a resolved parameter. *)
LEMMA ResolvedFields ==
    ASSUME NEW p
    PROVE  LET q == ResolveParameter(p)
           IN /\ q.name = p.name /\ q.wire_name = p.name /\ q.location = p.in
              /\ q.required = p.required
              /\ q.is_string_type = ~p.ref
BY DEF ResolveParameter

(* Resolving the parameters of a list one by one. *)
LEMMA ResolvedFacts ==
    ASSUME NEW ps, IsList(ps)
    PROVE  /\ IsList(Resolved(ps)) /\ Len(Resolved(ps)) = Len(ps)
           /\ DOMAIN Resolved(ps) = DOMAIN ps
           /\ \A k \in DOMAIN ps : /\ Resolved(ps)[k] = ResolveParameter(ps[k])
                                   /\ Resolved(ps)[k].name = ps[k].name
<1> DEFINE f == Resolved(ps)
<1>0. Len(ps) \in Nat /\ DOMAIN ps = 1..Len(ps)
  BY ListFacts
<1>1. /\ f = [k \in 1..Len(ps) |-> f[k]]
      /\ \A k \in DOMAIN ps : f[k] = ResolveParameter(ps[k])
  BY <1>0 DEF Resolved
<1>2. \A k \in DOMAIN ps : f[k].name = ps[k].name
  BY <1>1, ResolvedFields
<1> HIDE DEF f
<1>3. IsList(f) /\ Len(f) = Len(ps) /\ DOMAIN f = 1..Len(ps)
  BY <1>0, <1>1, FunctionIsList
<1> QED BY <1>0, <1>1, <1>2, <1>3 DEF f

(* A map filled from a list has the names of the list, each with one of the
   elements of that name. *)
LEMMA ByNameFacts ==
    ASSUME NEW ps, IsList(ps)
    PROVE  /\ DOMAIN ByName(ps) = {ps[k].name : k \in DOMAIN ps}
           /\ IsFiniteSet(DOMAIN ByName(ps))
           /\ \A n \in DOMAIN ByName(ps) :
                 \E k \in DOMAIN ps : ps[k].name = n /\ ByName(ps)[n] = ps[k]
<1> DEFINE N == {ps[k].name : k \in DOMAIN ps}
<1>0. Len(ps) \in Nat /\ DOMAIN ps = 1..Len(ps)
  BY ListFacts
<1>1. DOMAIN ByName(ps) = N
  BY DEF ByName
<1>2. IsFiniteSet(N)
  <2> DEFINE f == [k \in 1..Len(ps) |-> ps[k].name]
  <2>1. f = [k \in 1..Len(ps) |-> f[k]] /\ N = {f[k] : k \in 1..Len(ps)}
    BY <1>0
  <2> HIDE DEF f, N
  <2> QED BY <1>0, <2>1, ImageOfInterval
<1>3. ASSUME NEW n \in N
      PROVE  \E k \in DOMAIN ps : ps[k].name = n /\ ByName(ps)[n] = ps[k]
  <2> DEFINE IsLast(k) == ps[k].name = n /\ \A m \in k + 1..Len(ps) : ps[m].name # n
             T == {Len(ps) - k : k \in {j \in DOMAIN ps : ps[j].name = n}}
  <2>1. T # {} /\ T \in SUBSET Nat
    BY <1>0
  <2>2. PICK t \in T : \A u \in T : t <= u
    <3> HIDE DEF T
    <3> QED BY <2>1, NatMin
  <2>3. PICK k \in DOMAIN ps : ps[k].name = n /\ t = Len(ps) - k
    OBVIOUS
  <2>4. ASSUME NEW m \in k + 1..Len(ps), ps[m].name = n
        PROVE  FALSE
    <3>1. m \in DOMAIN ps /\ k \in 1..Len(ps)
      BY <1>0
    <3>2. Len(ps) - m \in T
      BY <2>4, <3>1
    <3>3. t <= Len(ps) - m
      BY <2>2, <3>2
    <3> QED BY <1>0, <2>3, <3>1, <3>3
  <2>5. IsLast(k)
    BY <2>3, <2>4
  <2> DEFINE c == CHOOSE j \in DOMAIN ps : IsLast(j)
  <2>6. c \in DOMAIN ps /\ IsLast(c)
    BY <2>5, Zenon
  <2>7. ByName(ps)[n] = ps[c]
    BY DEF ByName
  <2> QED BY <2>6, <2>7
<1> QED BY <1>1, <1>2, <1>3

(* An iteration order of a finite map has every key once. *)
LEMMA OrderFacts ==
    ASSUME NEW S, IsFiniteSet(S), NEW o \in SetToSeqs(S)
    PROVE  IsList(o) /\ IsInjective(o) /\ ToSet(o) = S
<1> DEFINE n == Cardinality(S)
           D == 1..n
<1>0. n \in Nat /\ IsFiniteSet(D) /\ Cardinality(D) = n
  BY FS_CardinalityType, FS_Interval
<1>1. o \in [D -> S] /\ \A i, j \in D : i # j => o[i] # o[j]
  BY DEF SetToSeqs
<1>2. IsInjective(o) /\ o \in Injection(D, S)
  BY <1>1 DEF IsInjective, Injection
<1>3. o \in Surjection(D, S)
  <2> HIDE DEF D
  <2> QED BY <1>0, <1>2, FS_Injection
<1>4. IsList(o)
  <2>1. o = [i \in 1..n |-> o[i]]
    BY <1>1
  <2> HIDE DEF n
  <2> QED BY <1>0, <2>1, FunctionIsList
<1>5. ToSet(o) = S
  BY <1>1, <1>3 DEF Surjection, ToSet
<1> QED BY <1>2, <1>4, <1>5

(* Keep chooses the places whose elements are wanted. *)
LEMMA KeepFacts ==
    ASSUME NEW s, NEW S, IsList(s)
    PROVE  /\ IsList(Keep(s, S)) /\ ToSet(Keep(s, S)) = ToSet(s) \cap S
           /\ IsInjective(s) => IsInjective(Keep(s, S))
<1> DEFINE C == {k \in DOMAIN s : s[k] \in S}
<1>0. Len(s) \in Nat /\ DOMAIN s = 1..Len(s)
  BY ListFacts
<1>1. Keep(s, S) = Chosen(s, C)
  <2>1. Pieces(s, C) = [k \in DOMAIN s |-> IF s[k] \in S THEN <<s[k]>> ELSE <<>>]
    BY DEF Pieces, Piece
  <2> QED BY <2>1 DEF Keep, Chosen
<1>2. /\ IsList(Chosen(s, C)) /\ ToSet(Chosen(s, C)) = {s[k] : k \in (1..Len(s)) \cap C}
      /\ (\A j, k \in (1..Len(s)) \cap C : s[j] = s[k] => j = k) => IsInjective(Chosen(s, C))
  <2> HIDE DEF C
  <2> QED BY ChosenFacts
<1>3. {s[k] : k \in (1..Len(s)) \cap C} = ToSet(s) \cap S
  BY <1>0 DEF ToSet
<1>4. IsInjective(s) => \A j, k \in (1..Len(s)) \cap C : s[j] = s[k] => j = k
  BY <1>0 DEF IsInjective
<1> QED BY <1>1, <1>2, <1>3, <1>4

(* Every name in question gets one argument. *)
LEMMA ParamOrderFacts ==
    ASSUME IsFiniteSet(DOMAIN path_params_map), order \in SetToSeqs(DOMAIN path_params_map),
           NEW co, IsList(co.op_params)
    PROVE  /\ IsList(ParamOrder(co)) /\ IsInjective(ParamOrder(co))
           /\ ToSet(ParamOrder(co)) = DOMAIN path_params_map
                                        \cup {co.op_params[k].name : k \in DOMAIN co.op_params}
<1> DEFINE own == co.op_params
           names == [k \in DOMAIN own |-> own[k].name]
           M == DOMAIN path_params_map
           C == {k \in DOMAIN own : /\ own[k].name \notin M
                                    /\ \A m \in 1..k - 1 : own[m].name # own[k].name}
           new == Chosen(names, C)
<1>0. Len(own) \in Nat /\ DOMAIN own = 1..Len(own)
  BY ListFacts
<1>1. /\ names = [k \in 1..Len(own) |-> names[k]]
      /\ \A k \in 1..Len(own) : names[k] = own[k].name
  BY <1>0
<1>2. ParamOrder(co) = order \o new
  <2>1. Pieces(names, C) = [k \in DOMAIN own |->
           IF /\ own[k].name \notin DOMAIN path_params_map
              /\ \A m \in 1..k - 1 : own[m].name # own[k].name THEN <<own[k].name>> ELSE <<>>]
    BY DEF Pieces, Piece
  <2> HIDE DEF C
  <2> QED BY <2>1, Zenon DEF ParamOrder, Chosen
<1>3. IsList(names) /\ Len(names) = Len(own)
  <2> HIDE DEF names, own
  <2> QED BY <1>0, <1>1, FunctionIsList
<1>4. /\ IsList(new) /\ ToSet(new) = {names[k] : k \in (1..Len(own)) \cap C}
      /\ (\A j, k \in (1..Len(own)) \cap C : names[j] = names[k] => j = k) => IsInjective(new)
  <2> HIDE DEF names, C, own
  <2> QED BY <1>3, ChosenFacts
<1>5. ASSUME NEW j \in (1..Len(own)) \cap C, NEW k \in (1..Len(own)) \cap C, names[j] = names[k]
      PROVE  j = k
  <2>1. own[j].name = own[k].name /\ j \in Nat /\ k \in Nat
    BY <1>1, <1>5
  <2>2. /\ \A m \in 1..j - 1 : own[m].name # own[j].name
        /\ \A m \in 1..k - 1 : own[m].name # own[k].name
    OBVIOUS
  <2>3. ~(j < k) /\ ~(k < j)
    <3>1. j \in 1..Len(own) /\ k \in 1..Len(own)
      OBVIOUS
    <3> QED BY <2>1, <2>2, <3>1
  <2> QED BY <2>1, <2>3
<1>6. ASSUME NEW n \in {own[k].name : k \in DOMAIN own}, n \notin M
      PROVE  n \in ToSet(new)
  <2> DEFINE T == {k \in DOMAIN own : own[k].name = n}
  <2>1. T # {} /\ T \in SUBSET Nat
    BY <1>0
  <2>2. PICK k \in T : \A j \in T : k <= j
    <3> HIDE DEF T
    <3> QED BY <2>1, NatMin
  <2>3. k \in 1..Len(own) /\ own[k].name = n
    BY <1>0
  <2>4. ASSUME NEW m \in 1..k - 1
        PROVE  own[m].name # own[k].name
    <3>1. m \in DOMAIN own /\ ~(k <= m)
      BY <1>0, <2>3
    <3> QED BY <2>2, <2>3, <3>1
  <2>5. k \in (1..Len(own)) \cap C
    BY <1>0, <1>6, <2>3, <2>4
  <2> QED BY <1>1, <1>4, <2>3, <2>5
<1>7. ToSet(new) \subseteq {own[k].name : k \in DOMAIN own} /\ ToSet(new) \cap M = {}
  BY <1>0, <1>1, <1>4
<1>8. IsList(order) /\ IsInjective(order) /\ ToSet(order) = M
  BY OrderFacts
<1>9. IsInjective(new)
  BY <1>4, <1>5
<1> HIDE DEF new, M
<1>10. IsList(order \o new) /\ ToSet(order \o new) = ToSet(order) \cup ToSet(new)
  BY <1>4, <1>8, ConcatFacts
<1>11. IsInjective(order \o new)
  BY <1>4, <1>7, <1>8, <1>9, ConcatInjective
<1>12. ToSet(order \o new) = M \cup {own[k].name : k \in DOMAIN own}
  BY <1>6, <1>7, <1>8, <1>10
<1> QED BY <1>2, <1>10, <1>11, <1>12 DEF M

(* Equal but for the name that C++ sees. *)
SameParam(a, b) ==
    /\ a.wire_name = b.wire_name /\ a.location = b.location
    /\ a.required = b.required /\ a.is_string_type = b.is_string_type

Placed == {"path", "query", "header"}

(* The merged parameters of an operation are those that were looked up and are not
   cookies, each once. *)
LEMMA MergedFacts ==
    ASSUME NEW co, IsList(ParamOrder(co)), IsInjective(ParamOrder(co)),
           \A n \in ToSet(ParamOrder(co)) :
               \E p : p.name = n /\ Lookup(co, n) = ResolveParameter(p)
    PROVE  /\ IsList(MergedParams(co))
           /\ \A j, k \in DOMAIN MergedParams(co) :
                 MergedParams(co)[j].wire_name = MergedParams(co)[k].wire_name => j = k
           /\ \A k \in DOMAIN MergedParams(co) :
                 \E n \in ToSet(ParamOrder(co)) :
                    /\ Lookup(co, n).location \in Placed
                    /\ SameParam(MergedParams(co)[k], Lookup(co, n))
           /\ \A n \in ToSet(ParamOrder(co)) :
                 Lookup(co, n).location \in Placed =>
                    \E k \in DOMAIN MergedParams(co) : SameParam(MergedParams(co)[k], Lookup(co, n))
<1> DEFINE names == ParamOrder(co)
           all == [k \in DOMAIN names |-> Lookup(co, names[k])]
           a == At(all, "path")
           b == At(all, "query")
           c == At(all, "header")
           ordered == (a \o b) \o c
           m == [k \in DOMAIN ordered |-> [ordered[k] EXCEPT !.name = SanitizeParamName(@)]]
<1>0. MergedParams(co) = m
  BY Zenon DEF MergedParams
<1>1. Len(names) \in Nat /\ DOMAIN names = 1..Len(names)
  BY ListFacts
<1>2. /\ all = [k \in 1..Len(names) |-> all[k]]
      /\ \A k \in 1..Len(names) : all[k] = Lookup(co, names[k])
  BY <1>1
<1>3. \A n \in ToSet(names) : Lookup(co, n).wire_name = n
  BY ResolvedFields
<1>4. IsList(all) /\ Len(all) = Len(names) /\ DOMAIN all = 1..Len(names)
  <2> HIDE DEF all, names
  <2> QED BY <1>1, <1>2, FunctionIsList
<1> HIDE DEF all
<1>5. \A k \in 1..Len(names) : all[k].wire_name = names[k] /\ names[k] \in ToSet(names)
  BY <1>1, <1>2, <1>3 DEF ToSet
<1>6. IsInjective(all)
  BY <1>1, <1>4, <1>5 DEF IsInjective
<1>7. ToSet(all) = {Lookup(co, n) : n \in ToSet(names)}
  BY <1>1, <1>2, <1>4 DEF ToSet
<1>8. \A p, q \in ToSet(all) : p.wire_name = q.wire_name => p = q
  BY <1>3, <1>7
<1>9. ASSUME NEW l
      PROVE  /\ IsList(At(all, l)) /\ IsInjective(At(all, l))
             /\ ToSet(At(all, l)) = {p \in ToSet(all) : p.location = l}
  <2> DEFINE S == {p \in ToSet(all) : p.location = l}
  <2>1. IsList(Keep(all, S)) /\ ToSet(Keep(all, S)) = ToSet(all) \cap S /\ IsInjective(Keep(all, S))
    <3> HIDE DEF S
    <3> QED BY <1>4, <1>6, KeepFacts
  <2>2. ToSet(all) \cap S = S
    OBVIOUS
  <2> QED BY <2>1, <2>2 DEF At
<1>10. /\ IsList(a) /\ IsInjective(a) /\ ToSet(a) = {p \in ToSet(all) : p.location = "path"}
       /\ IsList(b) /\ IsInjective(b) /\ ToSet(b) = {p \in ToSet(all) : p.location = "query"}
       /\ IsList(c) /\ IsInjective(c) /\ ToSet(c) = {p \in ToSet(all) : p.location = "header"}
  BY <1>9
<1> HIDE DEF a, b, c
<1>11. /\ IsList(a \o b) /\ IsInjective(a \o b)
       /\ ToSet(a \o b) = {p \in ToSet(all) : p.location \in {"path", "query"}}
  <2>1. ToSet(a) \cap ToSet(b) = {}
    BY <1>10
  <2>2. IsList(a \o b) /\ ToSet(a \o b) = ToSet(a) \cup ToSet(b)
    BY <1>10, ConcatFacts
  <2>3. IsInjective(a \o b)
    BY <1>10, <2>1, ConcatInjective
  <2> QED BY <1>10, <2>2, <2>3
<1>12. /\ IsList(ordered) /\ IsInjective(ordered)
       /\ ToSet(ordered) = {p \in ToSet(all) : p.location \in Placed}
  <2> DEFINE d == a \o b
  <2>0. /\ IsList(d) /\ IsInjective(d) /\ IsList(c) /\ IsInjective(c)
        /\ ToSet(d) = {p \in ToSet(all) : p.location \in {"path", "query"}}
    BY <1>10, <1>11
  <2> HIDE DEF d
  <2>1. ToSet(d) \cap ToSet(c) = {}
    BY <1>10, <2>0
  <2>2. IsList(d \o c) /\ ToSet(d \o c) = ToSet(d) \cup ToSet(c)
    BY <2>0, ConcatFacts
  <2>3. IsInjective(d \o c)
    BY <2>0, <2>1, ConcatInjective
  <2>4. ToSet(d \o c) = {p \in ToSet(all) : p.location \in Placed}
    BY <1>10, <2>0, <2>2 DEF Placed
  <2> QED BY <2>2, <2>3, <2>4 DEF d
<1> HIDE DEF ordered
<1>13. Len(ordered) \in Nat /\ DOMAIN ordered = 1..Len(ordered)
  BY <1>12, ListFacts
<1>14. ASSUME NEW k \in DOMAIN ordered
       PROVE  /\ SameParam(m[k], ordered[k])
              /\ ordered[k] \in ToSet(all) /\ ordered[k].location \in Placed
  <2>1. ordered[k] \in ToSet(ordered)
    BY DEF ToSet
  <2>2. PICK n \in ToSet(names) : ordered[k] = Lookup(co, n)
    BY <1>7, <1>12, <2>1
  <2>3. PICK p : ordered[k] = ResolveParameter(p)
    BY <2>2
  <2>4. m[k] = [ResolveParameter(p) EXCEPT !.name = SanitizeParamName(@)]
    BY <2>3
  <2>5. /\ m[k].wire_name = p.name /\ m[k].location = p.in
        /\ m[k].required = p.required /\ m[k].is_string_type = ~p.ref
    BY <2>4 DEF ResolveParameter
  <2> QED BY <1>12, <2>1, <2>3, <2>5, ResolvedFields DEF SameParam
<1>15. m = [k \in 1..Len(ordered) |-> m[k]]
  BY <1>13
<1> HIDE DEF m
<1>16. IsList(m) /\ DOMAIN m = 1..Len(ordered)
  BY <1>13, <1>15, FunctionIsList
<1>17. ASSUME NEW j \in DOMAIN m, NEW k \in DOMAIN m, m[j].wire_name = m[k].wire_name
       PROVE  j = k
  <2>1. ordered[j] = ordered[k]
    BY <1>8, <1>13, <1>14, <1>16, <1>17 DEF SameParam
  <2> QED BY <1>12, <1>13, <1>16, <2>1 DEF IsInjective
<1>18. ASSUME NEW k \in DOMAIN m
       PROVE  \E n \in ToSet(names) : /\ Lookup(co, n).location \in Placed
                                      /\ SameParam(m[k], Lookup(co, n))
  <2>1. /\ SameParam(m[k], ordered[k])
        /\ ordered[k] \in ToSet(all) /\ ordered[k].location \in Placed
    BY <1>13, <1>14, <1>16
  <2> QED BY <1>7, <2>1
<1>19. ASSUME NEW n \in ToSet(names), Lookup(co, n).location \in Placed
       PROVE  \E k \in DOMAIN m : SameParam(m[k], Lookup(co, n))
  <2>1. Lookup(co, n) \in ToSet(ordered)
    BY <1>7, <1>12, <1>19
  <2>2. PICK k \in DOMAIN ordered : ordered[k] = Lookup(co, n)
    BY <2>1 DEF ToSet
  <2> QED BY <1>13, <1>14, <1>16, <2>2
<1> QED BY <1>0, <1>16, <1>17, <1>18, <1>19

-----------------------------------------------------------------------------
(* What path_params_map has while the paths are read. *)

(* m has the path-level parameters of the first n paths, one for every name. *)
MapOf(d, n, m) ==
    /\ IsFiniteSet(DOMAIN m)
    /\ \A i \in 1..n : \A k \in DOMAIN d.paths[i].params : d.paths[i].params[k].name \in DOMAIN m
    /\ \A x \in DOMAIN m :
          \E i \in 1..n : \E k \in DOMAIN d.paths[i].params :
             d.paths[i].params[k].name = x /\ m[x] = ResolveParameter(d.paths[i].params[k])

(* NamesAreUnambiguous of a document. *)
Shared(d) == UNION {ToSet(item.params) : item \in ToSet(d.paths)}
Owns(d) == UNION {{ToSet(op.params) : op \in ToSet(item.ops)} : item \in ToSet(d.paths)}
Unambiguous(d) ==
    /\ \A p, q \in Shared(d) \cup UNION Owns(d) : p.name = q.name => p.in = q.in
    /\ \A ps \in Owns(d) \cup {Shared(d)} : \A p, q \in ps : p.name = q.name => p = q

LEMMA UnambiguousIs == NamesAreUnambiguous <=> Unambiguous(doc)
BY DEF NamesAreUnambiguous, Unambiguous, Shared, Owns

(* Reading one more path. *)
LEMMA MapGrows ==
    ASSUME NEW d \in Documents, NEW n \in 0..Len(d.paths) - 1, NEW m, MapOf(d, n, m)
    PROVE  MapOf(d, n + 1, Put(ByName(Resolved(d.paths[n + 1].params)), m))
<1> DEFINE ps == d.paths[n + 1].params
           rs == Resolved(ps)
           b == ByName(rs)
           u == Put(b, m)
<1>0. n + 1 \in 1..Len(d.paths) /\ n \in Nat
  BY DocumentFacts
<1>1. IsList(ps)
  BY <1>0, DocumentFacts
<1> HIDE DEF ps
<1>2. /\ IsList(rs) /\ DOMAIN rs = DOMAIN ps
      /\ \A k \in DOMAIN ps : rs[k] = ResolveParameter(ps[k]) /\ rs[k].name = ps[k].name
  BY <1>1, ResolvedFacts
<1> HIDE DEF rs
<1>3. /\ DOMAIN b = {rs[k].name : k \in DOMAIN rs} /\ IsFiniteSet(DOMAIN b)
      /\ \A x \in DOMAIN b : \E k \in DOMAIN rs : rs[k].name = x /\ b[x] = rs[k]
  BY <1>2, ByNameFacts, ZenonT(60)
<1> HIDE DEF b
<1>4. /\ DOMAIN u = DOMAIN b \cup DOMAIN m
      /\ \A x \in DOMAIN u : u[x] = IF x \in DOMAIN b THEN b[x] ELSE m[x]
  BY DEF Put
<1> HIDE DEF u
<1>5. IsFiniteSet(DOMAIN u)
  <2>1. IsFiniteSet(DOMAIN b) /\ IsFiniteSet(DOMAIN m)
    BY <1>3 DEF MapOf
  <2> QED BY <1>4, <2>1, FS_Union
<1>6. ASSUME NEW i \in 1..n + 1, NEW k \in DOMAIN d.paths[i].params
      PROVE  d.paths[i].params[k].name \in DOMAIN u
  <2>1. CASE i = n + 1
    <3>1. k \in DOMAIN ps /\ d.paths[i].params[k] = ps[k]
      BY <2>1 DEF ps
    <3> QED BY <1>2, <1>3, <1>4, <3>1
  <2>2. CASE i # n + 1
    <3>1. i \in 1..n
      BY <1>0, <2>2
    <3> QED BY <1>4, <3>1 DEF MapOf
  <2> QED BY <2>1, <2>2
<1>7. ASSUME NEW x \in DOMAIN u
      PROVE  \E i \in 1..n + 1 : \E k \in DOMAIN d.paths[i].params :
                d.paths[i].params[k].name = x /\ u[x] = ResolveParameter(d.paths[i].params[k])
  <2>1. CASE x \in DOMAIN b
    <3>1. PICK k \in DOMAIN rs : rs[k].name = x /\ b[x] = rs[k]
      BY <1>3, <2>1
    <3>2. k \in DOMAIN ps /\ ps[k].name = x /\ u[x] = ResolveParameter(ps[k])
      BY <1>2, <1>4, <2>1, <3>1
    <3>3. n + 1 \in 1..n + 1
      BY <1>0
    <3> QED BY <3>2, <3>3 DEF ps
  <2>2. CASE x \notin DOMAIN b
    <3>1. x \in DOMAIN m /\ u[x] = m[x]
      BY <1>4, <2>2
    <3>2. PICK i \in 1..n : \E k \in DOMAIN d.paths[i].params :
             d.paths[i].params[k].name = x /\ m[x] = ResolveParameter(d.paths[i].params[k])
      BY <3>1 DEF MapOf
    <3>3. i \in 1..n + 1
      BY <1>0
    <3> QED BY <3>1, <3>2, <3>3
  <2> QED BY <2>1, <2>2
<1>8. MapOf(d, n + 1, u)
  BY <1>5, <1>6, <1>7 DEF MapOf
<1> QED BY <1>8 DEF u, b, rs, ps

(* What an endpoint says of the operation at r it is made from. *)
SameOperation(d, e, r) ==
    e.method = OpAt(d, r).method /\ e.path = d.paths[r[1]].path
KeepsParams(d, e, r) ==
    /\ Passable(OperationAt(d, r).params) \subseteq Arguments(e)
    /\ Len(e.params) = Cardinality(Arguments(e))
WellFormed(e) ==
    /\ e.method \in Methods
    /\ e.auth_type \in {"none", "apiKey", "bearer"}
    /\ \A p \in ToSet(e.params) : p.location \in Locations \ {"cookie"}
    /\ IsPath(e.path) /\ IsList(e.params)
    /\ \A j, k \in DOMAIN e.params : e.params[j].wire_name = e.params[k].wire_name => j = k
    /\ e.function_name = GenerateFunctionName(e.method, e.path)
    /\ e.path_template = PathTemplate(e.path, {p.name : p \in ToSet(At(e.params, "path"))})

(* Looking up a name gives a parameter of that name: one of the operation's own if
   it has one, and one of some path otherwise. *)
LEMMA LookupFacts ==
    ASSUME NEW d \in Documents, NEW i \in 1..Len(d.paths), NEW o \in 1..Len(d.paths[i].ops),
           MapOf(d, Len(d.paths), path_params_map),
           NEW x \in DOMAIN path_params_map
                       \cup {q.name : q \in ToSet(d.paths[i].ops[o].params)}
    PROVE  \E p : /\ p.name = x
                  /\ Lookup(CollectedAt(d, <<i, o>>), x) = ResolveParameter(p)
                  /\ IF x \in {q.name : q \in ToSet(d.paths[i].ops[o].params)}
                       THEN p \in ToSet(d.paths[i].ops[o].params)
                       ELSE p \in Shared(d)
<1> DEFINE co == CollectedAt(d, <<i, o>>)
           ps == d.paths[i].ops[o].params
           rs == Resolved(ps)
           b == ByName(rs)
           N == {q.name : q \in ToSet(ps)}
<1>1. IsList(ps)
  BY DocumentFacts
<1>2. co.op_params = rs
  BY DEF CollectedAt, OpAt
<1> HIDE DEF ps
<1>3. /\ IsList(rs) /\ DOMAIN rs = DOMAIN ps
      /\ \A k \in DOMAIN ps : rs[k] = ResolveParameter(ps[k]) /\ rs[k].name = ps[k].name
  BY <1>1, ResolvedFacts
<1> HIDE DEF rs
<1>4. /\ DOMAIN b = {rs[k].name : k \in DOMAIN rs}
      /\ \A y \in DOMAIN b : \E k \in DOMAIN rs : rs[k].name = y /\ b[y] = rs[k]
  <2>1. IsList(rs)
    BY <1>3
  <2> QED BY <2>1, ByNameFacts, ZenonT(60)
<1>5. DOMAIN b = N
  <2> HIDE DEF b
  <2>1. ToSet(ps) = {ps[k] : k \in DOMAIN ps}
    BY DEF ToSet
  <2>2. DOMAIN b = {ps[k].name : k \in DOMAIN ps}
    BY <1>3, <1>4, ZenonT(60)
  <2>3. N = {ps[k].name : k \in DOMAIN ps}
    <3>1. ASSUME NEW y \in N PROVE \E k \in DOMAIN ps : y = ps[k].name
      BY <2>1, <3>1, ZenonT(60)
    <3>2. ASSUME NEW k \in DOMAIN ps PROVE ps[k].name \in N
      BY <2>1, <3>2, ZenonT(60)
    <3> HIDE DEF N
    <3> QED BY <3>1, <3>2, ZenonT(60)
  <2> QED BY <2>2, <2>3
<1>6. Lookup(co, x) = IF x \in DOMAIN b THEN b[x] ELSE path_params_map[x]
  BY <1>2 DEF Lookup
<1> HIDE DEF b, co
<1>7. CASE x \in N
  <2>1. PICK k \in DOMAIN rs : rs[k].name = x /\ b[x] = rs[k]
    BY <1>4, <1>5, <1>7
  <2>2. ps[k] \in ToSet(ps) /\ ps[k].name = x /\ Lookup(co, x) = ResolveParameter(ps[k])
    BY <1>3, <1>5, <1>6, <1>7, <2>1 DEF ToSet
  <2> QED BY <1>7, <2>2 DEF ps, co
<1>8. CASE x \notin N
  <2>1. x \in DOMAIN path_params_map
    BY <1>8 DEF ps
  <2>2. PICK j \in 1..Len(d.paths) : \E k \in DOMAIN d.paths[j].params :
           /\ d.paths[j].params[k].name = x
           /\ path_params_map[x] = ResolveParameter(d.paths[j].params[k])
    BY <2>1 DEF MapOf
  <2>3. PICK k \in DOMAIN d.paths[j].params :
           /\ d.paths[j].params[k].name = x
           /\ path_params_map[x] = ResolveParameter(d.paths[j].params[k])
    BY <2>2
  <2> DEFINE p == d.paths[j].params[k]
  <2>4. p \in Shared(d)
    <3>0. DOMAIN d.paths = 1..Len(d.paths)
      BY DocumentFacts
    <3>1. d.paths[j] \in ToSet(d.paths)
      BY <3>0, ZenonT(60) DEF ToSet
    <3>2. p \in ToSet(d.paths[j].params)
      BY <2>3, ZenonT(60) DEF ToSet
    <3> HIDE DEF p
    <3> QED BY <3>1, <3>2, ZenonT(60) DEF Shared
  <2>5. Lookup(co, x) = ResolveParameter(p) /\ p.name = x
    BY <1>5, <1>6, <1>8, <2>3
  <2> QED BY <1>8, <2>4, <2>5 DEF ps, co
<1> QED BY <1>7, <1>8

(* The names that get an argument, and what their look-up gives, for one operation. *)
LEMMA OperationNames ==
    ASSUME NEW d \in Documents, NEW i \in 1..Len(d.paths), NEW o \in 1..Len(d.paths[i].ops),
           MapOf(d, Len(d.paths), path_params_map), order \in SetToSeqs(DOMAIN path_params_map),
           NEW co, co = CollectedAt(d, <<i, o>>)
    PROVE  /\ IsList(ParamOrder(co)) /\ IsInjective(ParamOrder(co))
           /\ ToSet(ParamOrder(co)) = DOMAIN path_params_map
                                        \cup {q.name : q \in ToSet(d.paths[i].ops[o].params)}
           /\ \A x \in ToSet(ParamOrder(co)) :
                 \E p : p.name = x /\ Lookup(co, x) = ResolveParameter(p)
<1> DEFINE ps == d.paths[i].ops[o].params
           rs == co.op_params
<1>1. IsList(ps)
  BY DocumentFacts
<1>2. rs = Resolved(ps)
  BY DEF CollectedAt, OpAt
<1>3. /\ IsList(rs) /\ DOMAIN rs = DOMAIN ps
      /\ \A k \in DOMAIN ps : rs[k].name = ps[k].name
  <2> HIDE DEF ps
  <2> QED BY <1>1, <1>2, ResolvedFacts
<1>4. {rs[k].name : k \in DOMAIN rs} = {q.name : q \in ToSet(ps)}
  <2> HIDE DEF ps, rs
  <2> QED BY <1>3 DEF ToSet
<1>5. IsFiniteSet(DOMAIN path_params_map)
  BY DEF MapOf
<1>6. /\ IsList(ParamOrder(co)) /\ IsInjective(ParamOrder(co))
      /\ ToSet(ParamOrder(co)) = DOMAIN path_params_map \cup {rs[k].name : k \in DOMAIN rs}
  BY <1>3, <1>5, ParamOrderFacts, SMTT(30)
<1>7. ToSet(ParamOrder(co)) = DOMAIN path_params_map \cup {q.name : q \in ToSet(ps)}
  BY <1>4, <1>6
<1>8. ASSUME NEW x \in ToSet(ParamOrder(co))
      PROVE  \E p : p.name = x /\ Lookup(co, x) = ResolveParameter(p)
  <2>1. x \in DOMAIN path_params_map \cup {q.name : q \in ToSet(ps)}
    BY <1>7
  <2> QED BY <2>1, LookupFacts
<1> QED BY <1>6, <1>7, <1>8

(* A parameter that applies to the operation is the one its name is looked up as. *)
LEMMA OwnVersion ==
    ASSUME NEW d \in Documents, NEW i \in 1..Len(d.paths), NEW o \in 1..Len(d.paths[i].ops),
           MapOf(d, Len(d.paths), path_params_map), Unambiguous(d),
           NEW p \in OperationOf(d, i, o).params
    PROVE  /\ IsParam(p)
           /\ p.name \in DOMAIN path_params_map \cup {q.name : q \in ToSet(d.paths[i].ops[o].params)}
           /\ Lookup(CollectedAt(d, <<i, o>>), p.name) = ResolveParameter(p)
<1> DEFINE ps == d.paths[i].ops[o].params
           is == d.paths[i].params
           co == CollectedAt(d, <<i, o>>)
           N == {q.name : q \in ToSet(ps)}
<1>0. /\ d.paths[i] \in ToSet(d.paths) /\ d.paths[i].ops[o] \in ToSet(d.paths[i].ops)
      /\ \A k \in DOMAIN ps : IsParam(ps[k])
      /\ \A k \in DOMAIN is : IsParam(is[k])
  BY DocumentFacts DEF ToSet
<1>1. ToSet(ps) \in Owns(d) /\ ToSet(is) \subseteq Shared(d)
  BY <1>0 DEF Owns, Shared
<1>2. p \in ToSet(ps) \/ (p \in ToSet(is) /\ \A q \in ToSet(ps) : ParamKey(p) # ParamKey(q))
  BY DEF OperationOf
<1>3. IsParam(p)
  BY <1>0, <1>2 DEF ToSet
<1>4. p \in ToSet(is) => p.name \in DOMAIN path_params_map
  BY DEF MapOf, ToSet
<1>5. p.name \in DOMAIN path_params_map \cup N
  BY <1>2, <1>4
<1>6. PICK q : /\ q.name = p.name /\ Lookup(co, p.name) = ResolveParameter(q)
               /\ IF p.name \in N THEN q \in ToSet(ps) ELSE q \in Shared(d)
  <2> DEFINE x == p.name
  <2>1. x \in DOMAIN path_params_map \cup N
    BY <1>5
  <2> HIDE DEF x
  <2>2. \E q : /\ q.name = x /\ Lookup(co, x) = ResolveParameter(q)
               /\ IF x \in N THEN q \in ToSet(ps) ELSE q \in Shared(d)
    BY <2>1, LookupFacts
  <2> QED BY <2>2 DEF x
<1> HIDE DEF ps, is, co
<1>7. CASE p \in ToSet(ps)
  <2>1. q \in ToSet(ps)
    BY <1>6, <1>7
  <2>2. p = q
    BY <1>1, <1>6, <1>7, <2>1 DEF Unambiguous
  <2> QED BY <1>3, <1>5, <1>6, <2>2 DEF ps, co
<1>8. CASE p \in ToSet(is) /\ \A r \in ToSet(ps) : ParamKey(p) # ParamKey(r)
  <2>1. p \in Shared(d)
    BY <1>1, <1>8
  <2>2. p.name \notin N
    <3> SUFFICES ASSUME NEW r \in ToSet(ps), r.name = p.name
                 PROVE  FALSE
      OBVIOUS
    <3>1. r \in UNION Owns(d)
      BY <1>1
    <3>2. r.in = p.in
      BY <2>1, <3>1 DEF Unambiguous
    <3> QED BY <1>8, <3>2 DEF ParamKey
  <2>3. p = q
    BY <1>6, <2>1, <2>2 DEF Unambiguous
  <2> QED BY <1>3, <1>5, <1>6, <2>3 DEF ps, co
<1> QED BY <1>2, <1>7, <1>8

(* The document's view of a parameter of an endpoint. *)
Argument(p) ==
    [name |-> p.wire_name, in |-> p.location, required |-> p.required, ref |-> ~p.is_string_type]

(* Parameters with different names are as many arguments. *)
LEMMA ArgumentsDiffer ==
    ASSUME NEW m, IsList(m),
           \A j, k \in DOMAIN m : m[j].wire_name = m[k].wire_name => j = k
    PROVE  Cardinality({Argument(m[k]) : k \in DOMAIN m}) = Len(m)
<1> DEFINE n == Len(m)
           f == [k \in 1..n |-> Argument(m[k])]
<1>1. n \in Nat /\ DOMAIN m = 1..n
  BY ListFacts
<1>2. f = [k \in 1..n |-> f[k]] /\ \A k \in 1..n : f[k] = Argument(m[k])
  OBVIOUS
<1>3. \A k \in 1..n : f[k].name = m[k].wire_name
  BY <1>2 DEF Argument
<1> HIDE DEF f, n
<1>4. \A j, k \in 1..n : f[j] = f[k] => j = k
  BY <1>1, <1>3
<1> DEFINE T == {Argument(m[k]) : k \in DOMAIN m}
<1>5. T = {f[k] : k \in 1..n}
  BY <1>1, <1>2
<1> HIDE DEF T
<1>6. Cardinality(T) = n
  BY <1>1, <1>2, <1>4, <1>5, ImageOfInterval
<1> QED BY <1>6 DEF n, T

(* The endpoint of an operation keeps the parameters that apply to it. *)
LEMMA EndpointKeepsParams ==
    ASSUME NEW d \in Documents, NEW i \in 1..Len(d.paths), NEW o \in 1..Len(d.paths[i].ops),
           MapOf(d, Len(d.paths), path_params_map), order \in SetToSeqs(DOMAIN path_params_map),
           Unambiguous(d)
    PROVE  KeepsParams(d, EndpointOf(CollectedAt(d, <<i, o>>)), <<i, o>>)
<1> DEFINE co == CollectedAt(d, <<i, o>>)
           e == EndpointOf(co)
           m == MergedParams(co)
           names == ParamOrder(co)
<1>0. /\ IsList(names) /\ IsInjective(names)
      /\ ToSet(names) = DOMAIN path_params_map
                          \cup {q.name : q \in ToSet(d.paths[i].ops[o].params)}
      /\ \A x \in ToSet(names) : \E p : p.name = x /\ Lookup(co, x) = ResolveParameter(p)
  <2> HIDE DEF co
  <2>1. co = CollectedAt(d, <<i, o>>)
    BY DEF co
  <2>2. IsList(names) /\ IsInjective(names)
    BY <2>1, OperationNames
  <2>3. ToSet(names) = DOMAIN path_params_map
                         \cup {q.name : q \in ToSet(d.paths[i].ops[o].params)}
    BY <2>1, OperationNames
  <2>4. ASSUME NEW x \in ToSet(names)
        PROVE  \E p : p.name = x /\ Lookup(co, x) = ResolveParameter(p)
    BY <2>1, <2>4, OperationNames
  <2> QED BY <2>2, <2>3, <2>4
<1>1. /\ IsList(m)
      /\ \A j, k \in DOMAIN m : m[j].wire_name = m[k].wire_name => j = k
      /\ \A x \in ToSet(names) :
            Lookup(co, x).location \in Placed =>
               \E k \in DOMAIN m : SameParam(m[k], Lookup(co, x))
  <2> HIDE DEF co
  <2> QED BY <1>0, MergedFacts
<1>2. e.params = m
  BY DEF EndpointOf
<1>3. Arguments(e) = {Argument(m[k]) : k \in DOMAIN m}
  BY <1>2 DEF Arguments, Argument, ToSet
<1>4. Len(m) \in Nat /\ DOMAIN m = 1..Len(m)
  BY <1>1, ListFacts
<1>5. Cardinality(Arguments(e)) = Len(m)
  <2>1. IsList(m) /\ \A j, k \in DOMAIN m : m[j].wire_name = m[k].wire_name => j = k
    BY <1>1
  <2> HIDE DEF m, e
  <2>2. Cardinality({Argument(m[k]) : k \in DOMAIN m}) = Len(m)
    BY <2>1, ArgumentsDiffer
  <2> QED BY <1>3, <2>2
<1>6. ASSUME NEW p \in OperationOf(d, i, o).params, p.in \notin {"cookie", Nowhere}
      PROVE  p \in Arguments(e)
  <2>1. IsParam(p) /\ p.name \in ToSet(names) /\ Lookup(co, p.name) = ResolveParameter(p)
    BY <1>0, OwnVersion
  <2>2. p.in \in Placed
    BY <1>6, <2>1 DEF IsParam, Locations, Placed, Nowhere
  <2>3. Lookup(co, p.name).location \in Placed
    BY <2>1, <2>2, ResolvedFields
  <2>4. PICK k \in DOMAIN m : SameParam(m[k], ResolveParameter(p))
    BY <1>1, <2>1, <2>3
  <2> HIDE DEF m, e, co
  <2>5. /\ m[k].wire_name = p.name /\ m[k].location = p.in
        /\ m[k].required = p.required /\ m[k].is_string_type = ~p.ref
    BY <2>4, ResolvedFields DEF SameParam
  <2>6. p \in [name : STRING, in : Locations \cup {Nowhere}, required : BOOLEAN, ref : BOOLEAN]
    BY <2>1 DEF IsParam
  <2>7. p.ref \in BOOLEAN /\ p = [name |-> p.name, in |-> p.in, required |-> p.required, ref |-> p.ref]
    BY <2>6
  <2>8. (~m[k].is_string_type) = p.ref
    BY <2>5, <2>7
  <2>9. Argument(m[k]) = p
    BY <2>5, <2>7, <2>8 DEF Argument
  <2> QED BY <1>3, <2>9
<1>7. Passable(OperationAt(d, <<i, o>>).params) \subseteq Arguments(e)
  <2>1. OperationAt(d, <<i, o>>) = OperationOf(d, i, o)
    BY DEF OperationAt
  <2> HIDE DEF e
  <2> QED BY <1>6, <2>1 DEF Passable
<1> QED BY <1>2, <1>5, <1>7 DEF KeepsParams

(* It is that operation's, and well-formed. *)
LEMMA EndpointIsOfOperation ==
    ASSUME NEW d \in Documents, NEW i \in 1..Len(d.paths), NEW o \in 1..Len(d.paths[i].ops),
           MapOf(d, Len(d.paths), path_params_map), order \in SetToSeqs(DOMAIN path_params_map),
           d.paths[i].ops[o].method \in Methods
    PROVE  /\ SameOperation(d, EndpointOf(CollectedAt(d, <<i, o>>)), <<i, o>>)
           /\ WellFormed(EndpointOf(CollectedAt(d, <<i, o>>)))
<1> DEFINE co == CollectedAt(d, <<i, o>>)
           e == EndpointOf(co)
           m == MergedParams(co)
           names == ParamOrder(co)
<1>0. /\ IsList(names) /\ IsInjective(names)
      /\ \A x \in ToSet(names) : \E p : p.name = x /\ Lookup(co, x) = ResolveParameter(p)
  <2> HIDE DEF co
  <2>1. co = CollectedAt(d, <<i, o>>)
    BY DEF co
  <2> QED BY <2>1, OperationNames
<1>1. \A k \in DOMAIN m : \E x \in ToSet(names) :
         Lookup(co, x).location \in Placed /\ SameParam(m[k], Lookup(co, x))
  <2> HIDE DEF co
  <2> QED BY <1>0, MergedFacts
<1>m. IsList(m) /\ \A j, k \in DOMAIN m : m[j].wire_name = m[k].wire_name => j = k
  <2> HIDE DEF co
  <2> QED BY <1>0, MergedFacts
<1>p. IsPath(d.paths[i].path)
  BY DocumentFacts, DocumentsAssumption DEF IsDocument
<1>2. co.method = d.paths[i].ops[o].method /\ co.path = d.paths[i].path
  BY DEF CollectedAt, OpAt
<1>3. /\ e.method = co.method /\ e.path = co.path /\ e.params = m /\ e.auth_type = AuthType(co)
      /\ e.function_name = GenerateFunctionName(co.method, co.path)
      /\ e.path_template = PathTemplate(co.path, {p.name : p \in ToSet(At(m, "path"))})
  BY DEF EndpointOf
<1>4. AuthType(co) \in {"none", "apiKey", "bearer"}
  BY DEF AuthType
<1>5. \A p \in ToSet(m) : p.location \in Locations \ {"cookie"}
  <2> HIDE DEF m, co
  <2> QED BY <1>1 DEF ToSet, SameParam, Placed, Locations
<1> HIDE DEF m, co, e
<1>6. SameOperation(d, e, <<i, o>>)
  BY <1>2, <1>3 DEF SameOperation, OpAt
<1>7. WellFormed(e)
  BY <1>2, <1>3, <1>4, <1>5, <1>m, <1>p DEF WellFormed
<1> QED BY <1>6, <1>7 DEF e, co

-----------------------------------------------------------------------------
(* The inductive invariant. *)

(* While the paths are read: what is collected are the operations of the paths that
   were read, in order, and the map has their parameters. *)
CollectInv ==
    /\ doc \in Documents
    /\ read \in 0..Len(doc.paths)
    /\ phase \in {"collect", "build", "done"}
    /\ phase # "collect" => read = Len(doc.paths)
    /\ IsList(collected)
    /\ Len(collected) = Len(PlacesUpTo(doc, read))
    /\ \A k \in 1..Len(collected) : collected[k] = CollectedAt(doc, PlacesUpTo(doc, read)[k])
    /\ MapOf(doc, read, path_params_map)
    /\ order \in IF phase = "collect" THEN {<<>>} ELSE SetToSeqs(DOMAIN path_params_map)
    /\ scheme \in Schemes \cup {"none"}

(* The places that are built after n of the collected operations. *)
BuiltPlaces(d, n) == Chosen(UpTo(AllPlaces(d), n), Supported(d, AllPlaces(d)))

MadeFrom(d, e, r) ==
    /\ SameOperation(d, e, r)
    /\ WellFormed(e)
    /\ Unambiguous(d) => KeepsParams(d, e, r)

(* While endpoints are built: there is one for every operation so far that has a
   supported method, and it is made from that operation. *)
BuildInv ==
    /\ IsList(endpoints)
    /\ built \in 0..Len(collected)
    /\ phase = "collect" => built = 0
    /\ phase = "done" => built = Len(collected)
    /\ Len(endpoints) = Len(BuiltPlaces(doc, built))
    /\ \A k \in 1..Len(endpoints) : MadeFrom(doc, endpoints[k], BuiltPlaces(doc, built)[k])

(* Reading a path object (lines 84-135). *)
LEMMA ReadPathKeeps ==
    ASSUME CollectInv, BuildInv, ReadPath
    PROVE  CollectInv' /\ BuildInv'
<1> DEFINE n == read
           r1 == PlacesUpTo(doc, n)
           r2 == PlacesOf(doc)[n + 1]
           part == [k \in DOMAIN doc.paths[n + 1].ops |->
                       [path |-> doc.paths[n + 1].path, method |-> doc.paths[n + 1].ops[k].method,
                        op_params |-> Resolved(doc.paths[n + 1].ops[k].params),
                        hasOpSecurity |-> doc.paths[n + 1].ops[k].security]]
           c == collected \o part
<1>0. /\ doc \in Documents /\ Len(doc.paths) \in Nat /\ n \in Nat /\ n < Len(doc.paths)
      /\ n \in 0..Len(doc.paths) - 1 /\ n + 1 \in 1..Len(doc.paths) /\ n \in 0..Len(doc.paths)
      /\ phase = "collect"
  <2>1. doc \in Documents /\ read \in 0..Len(doc.paths)
    BY DEF CollectInv
  <2>2. Len(doc.paths) \in Nat
    BY <2>1, DocumentFacts
  <2>3. phase = "collect" /\ read < Len(doc.paths)
    BY DEF ReadPath
  <2> QED BY <2>1, <2>2, <2>3
<1>1. /\ collected' = c /\ read' = n + 1 /\ doc' = doc /\ phase' = phase
      /\ order' = order /\ scheme' = scheme /\ built' = built /\ endpoints' = endpoints
      /\ path_params_map' = Put(ByName(Resolved(doc.paths[n + 1].params)), path_params_map)
  BY DEF ReadPath
<1>2. PlacesUpTo(doc, n + 1) = r1 \o r2
  <2>1. IsListOfLists(PlacesOf(doc)) /\ n \in 0..Len(PlacesOf(doc)) - 1
    BY <1>0, PlacesFacts
  <2> QED BY <2>1, FlattenSteps DEF PlacesUpTo
<1>3. /\ IsList(r1) /\ IsList(r2) /\ Len(r2) = Len(doc.paths[n + 1].ops)
      /\ \A o \in 1..Len(doc.paths[n + 1].ops) : r2[o] = <<n + 1, o>>
  BY <1>0, PlacesAreInside, PlacesFacts
<1> DEFINE l == Len(doc.paths[n + 1].ops)
<1>4. l \in Nat /\ DOMAIN doc.paths[n + 1].ops = 1..l
  BY <1>0, DocumentFacts
<1>5. /\ part = [k \in 1..l |-> part[k]]
      /\ \A k \in 1..l : part[k] = CollectedAt(doc, <<n + 1, k>>)
  BY <1>4 DEF CollectedAt, OpAt
<1> HIDE DEF part, l, r1, r2
<1>6. IsList(part) /\ Len(part) = l
  BY <1>4, <1>5, FunctionIsList
<1>7. /\ IsList(collected) /\ Len(collected) = Len(r1) /\ Len(r1) \in Nat
      /\ \A k \in 1..Len(collected) : collected[k] = CollectedAt(doc, r1[k])
  BY <1>3, ListFacts DEF CollectInv, r1
<1>8. /\ IsList(c) /\ Len(c) = Len(collected) + Len(part)
      /\ \A k \in 1..Len(collected) : c[k] = collected[k]
      /\ \A k \in 1..Len(part) : c[Len(collected) + k] = part[k]
  BY <1>6, <1>7, ConcatFacts, SMTT(30)
<1> DEFINE r == r1 \o r2
<1>9. /\ IsList(r) /\ Len(r) = Len(r1) + Len(r2)
      /\ \A k \in 1..Len(r1) : r[k] = r1[k]
      /\ \A k \in 1..Len(r2) : r[Len(r1) + k] = r2[k]
  BY <1>3, ConcatFacts, SMTT(30)
<1>10. Len(r2) = l /\ \A o \in 1..l : r2[o] = <<n + 1, o>>
  BY <1>3 DEF l
<1> HIDE DEF c, r
<1>11. ASSUME NEW k \in 1..Len(c)
       PROVE  c[k] = CollectedAt(doc, r[k])
  <2>1. CASE k <= Len(r1)
    <3>1. k \in 1..Len(r1)
      BY <1>7, <2>1
    <3> QED BY <1>7, <1>8, <1>9, <3>1
  <2>2. CASE ~(k <= Len(r1))
    <3> DEFINE m == k - Len(r1)
    <3>1. m \in 1..l /\ Len(r1) + m = k
      BY <1>4, <1>6, <1>7, <1>8, <2>2
    <3> HIDE DEF m
    <3>2. c[k] = part[m] /\ r[k] = r2[m]
      BY <1>6, <1>7, <1>8, <1>9, <1>10, <3>1
    <3> QED BY <1>5, <1>10, <3>1, <3>2
  <2> QED BY <2>1, <2>2
<1>12. Len(c) = Len(r)
  BY <1>6, <1>7, <1>8, <1>9, <1>10
<1>13. MapOf(doc', read', path_params_map')
  <2>1. MapOf(doc, n, path_params_map)
    BY DEF CollectInv
  <2>2. MapOf(doc, n + 1, Put(ByName(Resolved(doc.paths[n + 1].params)), path_params_map))
    BY <1>0, <2>1, MapGrows
  <2> QED BY <1>1, <2>2
<1>14. PlacesUpTo(doc', read') = r
  BY <1>1, <1>2 DEF r
<1>15. CollectInv'
  <2>1. /\ doc' \in Documents /\ read' \in 0..Len(doc'.paths) /\ phase' = "collect"
        /\ order' = <<>> /\ scheme' \in Schemes \cup {"none"}
    BY <1>0, <1>1 DEF CollectInv
  <2>2. /\ IsList(collected') /\ Len(collected') = Len(PlacesUpTo(doc', read'))
        /\ \A k \in 1..Len(collected') :
              collected'[k] = CollectedAt(doc', PlacesUpTo(doc', read')[k])
    BY <1>1, <1>8, <1>11, <1>12, <1>14
  <2> QED BY <1>13, <2>1, <2>2 DEF CollectInv
<1>16. BuildInv'
  <2>1. built = 0 /\ built' = 0 /\ Len(c) \in Nat
    BY <1>0, <1>1, <1>8, ListFacts DEF BuildInv
  <2>2. built' \in 0..Len(collected') /\ phase' = "collect"
    BY <1>0, <1>1, <2>1
  <2> QED BY <1>1, <2>1, <2>2 DEF BuildInv
<1> QED BY <1>15, <1>16

(* The end of the paths (the hash maps are complete). *)
LEMMA EndOfPathsKeeps ==
    ASSUME CollectInv, BuildInv, EndOfPaths
    PROVE  CollectInv' /\ BuildInv'
<1>1. /\ phase = "collect" /\ phase' = "build" /\ read = Len(doc.paths)
      /\ doc' = doc /\ read' = read /\ path_params_map' = path_params_map
      /\ collected' = collected /\ built' = built /\ endpoints' = endpoints
      /\ order' \in SetToSeqs(DOMAIN path_params_map)
      /\ scheme' \in IF doc.schemes = {} THEN {"none"} ELSE doc.schemes
  BY DEF EndOfPaths
<1>2. scheme' \in Schemes \cup {"none"}
  BY <1>1, DocumentsAssumption DEF CollectInv, IsDocument
<1>3. CollectInv'
  BY <1>1, <1>2 DEF CollectInv
<1>4. BuildInv'
  BY <1>1 DEF BuildInv
<1> QED BY <1>3, <1>4

(* Building an endpoint (lines 139-228). *)
LEMMA BuildEndpointKeeps ==
    ASSUME CollectInv, BuildInv, BuildEndpoint
    PROVE  CollectInv' /\ BuildInv'
<1> DEFINE n == built
           all == AllPlaces(doc)
           b == BuiltPlaces(doc, n)
           r == all[n + 1]
           co == collected[n + 1]
           e == EndpointOf(co)
<1>0. /\ doc \in Documents /\ phase = "build" /\ read = Len(doc.paths)
      /\ MapOf(doc, Len(doc.paths), path_params_map)
      /\ order \in SetToSeqs(DOMAIN path_params_map)
      /\ IsList(collected) /\ Len(collected) \in Nat /\ n \in Nat /\ n < Len(collected)
  BY ListFacts DEF CollectInv, BuildInv, BuildEndpoint
<1>1. /\ built' = n + 1 /\ doc' = doc /\ read' = read /\ phase' = phase /\ order' = order
      /\ scheme' = scheme /\ collected' = collected /\ path_params_map' = path_params_map
      /\ endpoints' = IF co.method \in Methods THEN Append(endpoints, e) ELSE endpoints
  BY DEF BuildEndpoint
<1>2. CollectInv'
  BY <1>1 DEF CollectInv
<1>3. PlacesUpTo(doc, read) = all /\ IsList(all)
  <2>1. IsListOfLists(PlacesOf(doc)) /\ Len(PlacesOf(doc)) = Len(doc.paths)
    BY <1>0, PlacesFacts
  <2>2. FlattenSeq(UpTo(PlacesOf(doc), Len(PlacesOf(doc)))) = FlattenSeq(PlacesOf(doc))
    BY <2>1, FlattenSteps
  <2>3. IsList(FlattenSeq(PlacesOf(doc)))
    BY <2>1, FlattenFacts
  <2> QED BY <1>0, <2>1, <2>2, <2>3 DEF PlacesUpTo, AllPlaces
<1>4. /\ Len(collected) = Len(all) /\ n + 1 \in 1..Len(all) /\ n \in 0..Len(all) - 1
      /\ co = CollectedAt(doc, r)
  BY <1>0, <1>3 DEF CollectInv
<1>5. DOMAIN all = 1..Len(all)
  BY <1>3, ListFacts
<1>6. PICK i \in 1..Len(doc.paths) : \E o \in 1..Len(doc.paths[i].ops) : r = <<i, o>>
  <2>1. r \in ToSet(PlacesUpTo(doc, Len(doc.paths)))
    BY <1>0, <1>3, <1>4, <1>5 DEF ToSet
  <2>2. Len(doc.paths) \in 0..Len(doc.paths)
    BY <1>0, DocumentFacts
  <2> QED BY <1>0, <2>1, <2>2, PlacesAreInside
<1>7. PICK o \in 1..Len(doc.paths[i].ops) : r = <<i, o>>
  BY <1>6
<1>8. co.method = doc.paths[i].ops[o].method /\ OpAt(doc, r) = doc.paths[i].ops[o]
  BY <1>4, <1>7 DEF CollectedAt, OpAt
<1>9. n + 1 \in Supported(doc, all) <=> co.method \in Methods
  BY <1>4, <1>5, <1>8 DEF Supported
<1>10. BuiltPlaces(doc, n + 1) = b \o Piece(all, Supported(doc, all), n + 1)
  <2> DEFINE C == Supported(doc, all)
  <2>0. IsList(all)
    BY <1>3
  <2> HIDE DEF all, C
  <2>1. \A m \in 0..Len(all) - 1 :
           Chosen(UpTo(all, m + 1), C) = Chosen(UpTo(all, m), C) \o Piece(all, C, m + 1)
    BY <2>0, ChosenSteps
  <2>2. Chosen(UpTo(all, n + 1), C) = Chosen(UpTo(all, n), C) \o Piece(all, C, n + 1)
    BY <1>4, <2>1
  <2> QED BY <2>2 DEF BuiltPlaces, all, C
<1>11. IsList(b)
  <2>1. IsList(UpTo(all, n))
    BY <1>3, <1>4, UpToFacts
  <2> QED BY <2>1, ChosenFacts DEF BuiltPlaces
<1>12. /\ IsList(endpoints) /\ Len(endpoints) = Len(b) /\ Len(b) \in Nat
       /\ \A k \in 1..Len(endpoints) : MadeFrom(doc, endpoints[k], b[k])
  BY <1>11, ListFacts DEF BuildInv
<1>13. n + 1 \in 0..Len(collected)
  BY <1>0
<1>14. /\ IsList(endpoints') /\ Len(endpoints') = Len(BuiltPlaces(doc, n + 1))
       /\ \A k \in 1..Len(endpoints') : MadeFrom(doc, endpoints'[k], BuiltPlaces(doc, n + 1)[k])
  <2>1. CASE co.method \in Methods
    <3>1. endpoints' = Append(endpoints, e) /\ BuiltPlaces(doc, n + 1) = b \o <<r>>
      BY <1>1, <1>9, <1>10, <2>1 DEF Piece
    <3>2. MadeFrom(doc, e, r)
      <4>1. SameOperation(doc, EndpointOf(CollectedAt(doc, <<i, o>>)), <<i, o>>)
            /\ WellFormed(EndpointOf(CollectedAt(doc, <<i, o>>)))
        BY <1>0, <1>8, <2>1, EndpointIsOfOperation
      <4>2. Unambiguous(doc) => KeepsParams(doc, EndpointOf(CollectedAt(doc, <<i, o>>)), <<i, o>>)
        BY <1>0, EndpointKeepsParams
      <4> QED BY <1>4, <1>7, <4>1, <4>2 DEF MadeFrom
    <3> HIDE DEF e, r, b
    <3>3. /\ IsList(Append(endpoints, e)) /\ Len(Append(endpoints, e)) = Len(endpoints) + 1
          /\ \A k \in 1..Len(endpoints) : Append(endpoints, e)[k] = endpoints[k]
          /\ Append(endpoints, e)[Len(endpoints) + 1] = e
      <4>1. IsList(endpoints)
        BY <1>12
      <4>2. IsList(Append(endpoints, e)) /\ Len(Append(endpoints, e)) = Len(endpoints) + 1
        BY <4>1, AppendFacts
      <4>3. \A k \in 1..Len(endpoints) : Append(endpoints, e)[k] = endpoints[k]
        BY <4>1, AppendFacts
      <4>4. Append(endpoints, e)[Len(endpoints) + 1] = e
        BY <4>1, AppendFacts
      <4> QED BY <4>2, <4>3, <4>4
    <3>4. b \o <<r>> = Append(b, r) /\ Len(Append(b, r)) = Len(b) + 1
          /\ (\A k \in 1..Len(b) : Append(b, r)[k] = b[k]) /\ Append(b, r)[Len(b) + 1] = r
      BY <1>11, AppendFacts
    <3>5. ASSUME NEW k \in 1..Len(endpoints) + 1
          PROVE  MadeFrom(doc, Append(endpoints, e)[k], Append(b, r)[k])
      <4>1. CASE k = Len(endpoints) + 1
        BY <1>12, <3>2, <3>3, <3>4, <4>1
      <4>2. CASE k # Len(endpoints) + 1
        <5>1. k \in 1..Len(endpoints)
          BY <1>12, <4>2
        <5> QED BY <1>12, <3>3, <3>4, <5>1
      <4> QED BY <4>1, <4>2
    <3> QED BY <1>12, <3>1, <3>3, <3>4, <3>5
  <2>2. CASE co.method \notin Methods
    <3>1. endpoints' = endpoints /\ BuiltPlaces(doc, n + 1) = b \o <<>>
      BY <1>1, <1>9, <1>10, <2>2 DEF Piece
    <3>2. b \o <<>> = b
      BY <1>11, SmallLists
    <3> QED BY <1>12, <3>1, <3>2
  <2> QED BY <2>1, <2>2
<1>15. BuildInv'
  <2> HIDE DEF e, r, b, co, all
  <2>1. /\ IsList(endpoints') /\ Len(endpoints') = Len(BuiltPlaces(doc', built'))
        /\ \A k \in 1..Len(endpoints') : MadeFrom(doc', endpoints'[k], BuiltPlaces(doc', built')[k])
    BY <1>1, <1>14
  <2>2. built' \in 0..Len(collected') /\ phase' = "build"
    BY <1>0, <1>1, <1>13
  <2> QED BY <2>1, <2>2 DEF BuildInv
<1> QED BY <1>2, <1>15

(* Nothing is collected at first. *)
LEMMA InitParse ==
    ASSUME ApiInit
    PROVE  CollectInv /\ BuildInv
<1>1. /\ doc \in Documents /\ read = 0 /\ path_params_map = <<>> /\ collected = <<>>
      /\ order = <<>> /\ scheme = "none" /\ built = 0 /\ endpoints = <<>> /\ phase = "collect"
  BY DEF ApiInit, Init
<1>2. Len(doc.paths) \in Nat /\ 0 \in 0..Len(doc.paths) /\ IsListOfLists(PlacesOf(doc))
  BY <1>1, DocumentFacts, PlacesFacts
<1>3. PlacesUpTo(doc, 0) = <<>>
  BY <1>2, FlattenSteps DEF PlacesUpTo
<1>4. BuiltPlaces(doc, 0) = <<>>
  <2>1. IsList(AllPlaces(doc))
    BY <1>2, FlattenFacts DEF AllPlaces
  <2> QED BY <2>1, ChosenSteps DEF BuiltPlaces
<1>5. MapOf(doc, 0, <<>>)
  <2>1. DOMAIN <<>> = {} /\ IsFiniteSet({})
    BY FS_EmptySet
  <2> QED BY <2>1 DEF MapOf
<1>6. IsList(<<>>) /\ Len(<<>>) = 0
  BY SmallLists
<1>7. CollectInv
  BY <1>1, <1>2, <1>3, <1>5, <1>6 DEF CollectInv
<1>8. BuildInv
  BY <1>1, <1>4, <1>6 DEF BuildInv
<1> QED BY <1>7, <1>8

(* Every step keeps the invariant; requests do not touch what parseEndpoints made. *)
LEMMA StepParse ==
    ASSUME CollectInv, BuildInv, [ApiNext]_vars
    PROVE  CollectInv' /\ BuildInv'
<1>1. CASE EndOfBuild
  <2>1. /\ phase = "build" /\ built = Len(collected) /\ phase' = "done"
        /\ UNCHANGED <<doc, read, path_params_map, collected, order, scheme, built, endpoints>>
    BY <1>1 DEF EndOfBuild
  <2> QED BY <2>1 DEF CollectInv, BuildInv
<1>2. CASE UNCHANGED parseVars
  BY <1>2 DEF parseVars, CollectInv, BuildInv
<1>3. ASSUME NEW n, NEW args, Call(n, args) PROVE UNCHANGED parseVars
  BY <1>3 DEF Call
<1>4. ASSUME NEW s, NEW m, NEW q, OtherClient(s, m, q) PROVE UNCHANGED parseVars
  BY <1>4 DEF OtherClient
<1>5. HandleRequest \/ Written \/ UNCHANGED vars => UNCHANGED parseVars
  BY DEF HandleRequest, Written, vars, parseVars
<1> QED BY <1>1, <1>2, <1>3, <1>4, <1>5, ReadPathKeeps, EndOfPathsKeeps, BuildEndpointKeeps
        DEF ApiNext, Parse

(* When all is built, the endpoints are those of all supported places. *)
LEMMA DoneMeans ==
    ASSUME CollectInv, BuildInv, phase = "done"
    PROVE  /\ IsList(endpoints) /\ Len(endpoints) = Len(Operations)
           /\ \A k \in 1..Len(endpoints) :
                 /\ SupportedPlaces(doc, AllPlaces(doc))[k] \in ToSet(AllPlaces(doc))
                 /\ Operations[k] = OperationAt(doc, SupportedPlaces(doc, AllPlaces(doc))[k])
                 /\ MadeFrom(doc, endpoints[k], SupportedPlaces(doc, AllPlaces(doc))[k])
<1> DEFINE all == AllPlaces(doc)
           sup == SupportedPlaces(doc, all)
<1>0. doc \in Documents /\ read = Len(doc.paths) /\ built = Len(collected)
  BY DEF CollectInv, BuildInv
<1>1. PlacesUpTo(doc, read) = all /\ IsList(all)
  <2>1. IsListOfLists(PlacesOf(doc)) /\ Len(PlacesOf(doc)) = Len(doc.paths)
    BY <1>0, PlacesFacts
  <2>2. FlattenSeq(UpTo(PlacesOf(doc), Len(PlacesOf(doc)))) = FlattenSeq(PlacesOf(doc))
    BY <2>1, FlattenSteps
  <2>3. IsList(FlattenSeq(PlacesOf(doc)))
    BY <2>1, FlattenFacts
  <2> QED BY <1>0, <2>1, <2>2, <2>3 DEF PlacesUpTo, AllPlaces
<1>2. built = Len(all)
  BY <1>0, <1>1 DEF CollectInv
<1>3. BuiltPlaces(doc, built) = sup
  <2> DEFINE C == Supported(doc, all)
  <2>0. IsList(all)
    BY <1>1
  <2> HIDE DEF all, C
  <2>1. Chosen(UpTo(all, Len(all)), C) = Chosen(all, C)
    BY <2>0, ChosenSteps
  <2> QED BY <1>2, <2>1 DEF BuiltPlaces, SupportedPlaces, all, C
<1>4. /\ IsList(sup) /\ Len(Operations) = Len(sup)
      /\ \A k \in 1..Len(Operations) : Operations[k] = OperationAt(doc, sup[k])
  BY <1>0, OperationsByPlace
<1>5. /\ IsList(endpoints) /\ Len(endpoints) = Len(sup)
      /\ \A k \in 1..Len(endpoints) : MadeFrom(doc, endpoints[k], sup[k])
  BY <1>3 DEF BuildInv
<1>6. \A k \in 1..Len(sup) : sup[k] \in ToSet(all)
  <2>1. ToSet(sup) = {all[k] : k \in (1..Len(all)) \cap Supported(doc, all)}
    BY <1>1, ChosenFacts DEF SupportedPlaces
  <2>2. DOMAIN all = 1..Len(all) /\ DOMAIN sup = 1..Len(sup)
    BY <1>1, <1>4, ListFacts
  <2> HIDE DEF all, sup
  <2> QED BY <2>1, <2>2 DEF ToSet
<1> QED BY <1>4, <1>5, <1>6

(* parseEndpoints loses no operation and adds none: its result lists the document's
   operations with a supported method in their order, for every document. *)
THEOREM NoOperationLost == ApiSpec => []EndpointsComplete
<1>1. ApiInit => CollectInv /\ BuildInv
  BY InitParse
<1>2. CollectInv /\ BuildInv /\ [ApiNext]_vars => CollectInv' /\ BuildInv'
  BY StepParse
<1>3. CollectInv /\ BuildInv => EndpointsComplete
  <2> SUFFICES ASSUME CollectInv, BuildInv, phase = "done"
               PROVE  /\ Len(endpoints) = Len(Operations)
                      /\ \A k \in DOMAIN endpoints :
                            /\ endpoints[k].method = Operations[k].method
                            /\ endpoints[k].path = Operations[k].path
    BY DEF EndpointsComplete
  <2>1. /\ IsList(endpoints) /\ Len(endpoints) = Len(Operations)
        /\ \A k \in 1..Len(endpoints) :
              \E r : /\ Operations[k] = OperationAt(doc, r)
                     /\ SameOperation(doc, endpoints[k], r)
    BY DoneMeans DEF MadeFrom
  <2>2. DOMAIN endpoints = 1..Len(endpoints)
    BY <2>1, ListFacts
  <2>3. ASSUME NEW k \in 1..Len(endpoints)
        PROVE  endpoints[k].method = Operations[k].method /\ endpoints[k].path = Operations[k].path
    <3>1. PICK r : Operations[k] = OperationAt(doc, r) /\ SameOperation(doc, endpoints[k], r)
      BY <2>1
    <3>2. /\ OperationAt(doc, r).method = OpAt(doc, r).method
          /\ OperationAt(doc, r).path = doc.paths[r[1]].path
      BY DEF OperationAt, OperationOf, OpAt
    <3> QED BY <3>1, <3>2 DEF SameOperation
  <2> QED BY <2>1, <2>2, <2>3
<1> QED BY <1>1, <1>2, <1>3, PTL DEF ApiSpec

(* The merge of path-level and operation-level parameters (lines 153-184) keeps every
   path, query and header parameter that applies to an operation, once and in the
   operation's own version, for every document with unambiguous names and every
   iteration order of path_params_map. *)
THEOREM NoParameterLost == ApiSpec => []OwnParamsKept
<1>1. ApiInit => CollectInv /\ BuildInv
  BY InitParse
<1>2. CollectInv /\ BuildInv /\ [ApiNext]_vars => CollectInv' /\ BuildInv'
  BY StepParse
<1>3. CollectInv /\ BuildInv => OwnParamsKept
  <2> SUFFICES ASSUME CollectInv, BuildInv, phase = "done", NamesAreUnambiguous
               PROVE  \A k \in DOMAIN endpoints :
                         /\ Passable(Operations[k].params) \subseteq Arguments(endpoints[k])
                         /\ Len(endpoints[k].params) = Cardinality(Arguments(endpoints[k]))
    BY DEF OwnParamsKept
  <2>1. Unambiguous(doc)
    BY UnambiguousIs
  <2>2. /\ IsList(endpoints)
        /\ \A k \in 1..Len(endpoints) :
              \E r : Operations[k] = OperationAt(doc, r) /\ KeepsParams(doc, endpoints[k], r)
    BY <2>1, DoneMeans DEF MadeFrom
  <2>3. DOMAIN endpoints = 1..Len(endpoints)
    BY <2>2, ListFacts
  <2> QED BY <2>2, <2>3 DEF KeepsParams
<1> QED BY <1>1, <1>2, <1>3, PTL DEF ApiSpec

-----------------------------------------------------------------------------
(* Credentials. *)

(* The strengthening: endpoints come after the security scheme is taken, have a
   supported method, and send that scheme's credentials or none. *)
FromOneScheme ==
    /\ IsList(endpoints)
    /\ phase = "collect" => endpoints = <<>>
    /\ \A e \in ToSet(endpoints) : e.method \in Methods /\ e.auth_type \in {"none", scheme}

(* Building an endpoint (lines 139-228) preserves the strengthening. *)
LEMMA BuildKeepsScheme ==
    ASSUME FromOneScheme, BuildEndpoint
    PROVE  FromOneScheme'
<1> DEFINE co == collected[built + 1]
           e == EndpointOf(co)
<1>1. phase = "build" /\ phase' = phase /\ scheme' = scheme
  BY DEF BuildEndpoint
<1>2. CASE co.method \in Methods
  <2>1. endpoints' = Append(endpoints, e)
    BY <1>2 DEF BuildEndpoint
  <2>2. e.method \in Methods /\ e.auth_type \in {"none", scheme}
    BY <1>2 DEF EndpointOf, AuthType
  <2>3. /\ ToSet(endpoints') = ToSet(endpoints) \cup {e}
        /\ IsList(endpoints')
    BY <2>1, AppendFacts DEF FromOneScheme
  <2> HIDE DEF e
  <2> QED BY <1>1, <2>2, <2>3 DEF FromOneScheme
<1>3. CASE co.method \notin Methods
  <2>1. endpoints' = endpoints
    BY <1>3 DEF BuildEndpoint
  <2> QED BY <1>1, <2>1 DEF FromOneScheme
<1> QED BY <1>2, <1>3

LEMMA StepKeepsScheme ==
    ASSUME FromOneScheme, [ApiNext]_vars
    PROVE  FromOneScheme'
<1>1. CASE ReadPath
  BY <1>1 DEF ReadPath, FromOneScheme
<1>2. CASE EndOfPaths
  <2>1. endpoints = <<>> /\ endpoints' = endpoints /\ phase' = "build"
    BY <1>2 DEF EndOfPaths, FromOneScheme
  <2>2. ToSet(endpoints) = {}
    BY <2>1 DEF ToSet
  <2> QED BY <2>1, <2>2 DEF FromOneScheme
<1>3. CASE BuildEndpoint
  BY <1>3, BuildKeepsScheme
<1>4. CASE EndOfBuild
  BY <1>4 DEF EndOfBuild, FromOneScheme
<1>5. CASE UNCHANGED parseVars
  BY <1>5 DEF parseVars, FromOneScheme
<1>6. ASSUME NEW n, NEW args, Call(n, args) PROVE UNCHANGED parseVars
  BY <1>6 DEF Call
<1>7. ASSUME NEW s, NEW m, NEW q, OtherClient(s, m, q) PROVE UNCHANGED parseVars
  BY <1>7 DEF OtherClient
<1>8. HandleRequest \/ Written \/ UNCHANGED vars => UNCHANGED parseVars
  BY DEF HandleRequest, Written, vars, parseVars
<1> QED BY <1>1, <1>2, <1>3, <1>4, <1>5, <1>6, <1>7, <1>8 DEF ApiNext, Parse

(* The generated client's credentials fit all of its methods: detectAuth may look
   at the first endpoint that has any. *)
THEOREM CredentialsFit == ApiSpec => []OneKindOfAuth
<1>1. ApiInit => FromOneScheme
  BY SmallLists DEF ApiInit, Init, FromOneScheme
<1>2. FromOneScheme /\ [ApiNext]_vars => FromOneScheme'
  BY StepKeepsScheme
<1>3. FromOneScheme => OneKindOfAuth
  BY DEF FromOneScheme, OneKindOfAuth
<1> QED BY <1>1, <1>2, <1>3, PTL DEF ApiSpec

-----------------------------------------------------------------------------
(* The types of requests and replies. *)

Replies == {<<>>, NotFound} \cup {e.function_name : e \in ToSet(endpoints)}

RequestInv ==
    /\ request.from \in 0..Len(endpoints)
    /\ request.verb \in Methods \cup {"none"}
    /\ reply \in Replies

(* The table of paths with placeholders has endpoints only, and what is found in it
   is one of them. *)
LEMMA RouteReplies ==
    ASSUME IsList(endpoints), NEW target, NEW verb
    PROVE  Route(target, verb) \in Replies
<1> DEFINE path == Path(target)
           static == {e \in StaticPaths : Tokens(e.path) = path /\ e.method = verb}
           I == {i \in 1..Len(ParamPaths) :
                   /\ MatchPath(Tokens(ParamPaths[i].path_template), path)
                   /\ ParamPaths[i].method = verb}
           param == IF I # {} THEN Min(I) ELSE 0
<1>1. Route(target, verb) = IF static # {} THEN (CHOOSE e \in static : TRUE).function_name
                            ELSE IF param # 0 THEN ParamPaths[param].function_name ELSE NotFound
  BY DEF Route, SelectInSeq
<1>2. IsList(ParamPaths) /\ ToSet(ParamPaths) \subseteq ToSet(endpoints)
  BY KeepFacts DEF ParamPaths
<1>3. static \subseteq ToSet(endpoints)
  BY DEF StaticPaths
<1>4. param # 0 => ParamPaths[param] \in ToSet(endpoints)
  <2> SUFFICES ASSUME I # {}
               PROVE  ParamPaths[Min(I)] \in ToSet(endpoints)
    OBVIOUS
  <2>1. Len(ParamPaths) \in Nat /\ DOMAIN ParamPaths = 1..Len(ParamPaths)
    BY <1>2, ListFacts
  <2>2. I \subseteq 1..Len(ParamPaths) /\ I \in SUBSET Nat
    BY <2>1
  <2> HIDE DEF I
  <2>3. \E x \in I : \A y \in I : x <= y
    BY <2>2, NatMin
  <2>4. Min(I) \in I
    BY <2>3, Zenon DEF Min
  <2> QED BY <1>2, <2>1, <2>2, <2>4 DEF ToSet
<1>5. static # {} => (CHOOSE e \in static : TRUE) \in static
  <2> HIDE DEF static
  <2> QED OBVIOUS
<1> HIDE DEF static, param
<1> QED BY <1>1, <1>3, <1>4, <1>5 DEF Replies

(* Endpoints come and stay. *)
LEMMA EndpointsStay ==
    ASSUME BuildInv, BuildEndpoint \/ endpoints' = endpoints
    PROVE  ToSet(endpoints) \subseteq ToSet(endpoints') /\ 0..Len(endpoints) \subseteq 0..Len(endpoints')
<1>1. IsList(endpoints)
  BY DEF BuildInv
<1>2. CASE endpoints' = endpoints
  BY <1>2
<1>3. CASE BuildEndpoint
  <2> DEFINE e == EndpointOf(collected[built + 1])
  <2>1. endpoints' = endpoints \/ endpoints' = Append(endpoints, e)
    BY <1>3 DEF BuildEndpoint
  <2> HIDE DEF e
  <2>2. /\ ToSet(Append(endpoints, e)) = ToSet(endpoints) \cup {e}
        /\ Len(Append(endpoints, e)) = Len(endpoints) + 1 /\ Len(endpoints) \in Nat
    BY <1>1, AppendFacts, ListFacts
  <2>3. endpoints' = Append(endpoints, e) => 0..Len(endpoints) \subseteq 0..Len(endpoints')
    BY <2>2
  <2> QED BY <2>1, <2>2, <2>3
<1> QED BY <1>2, <1>3

LEMMA StepRequest ==
    ASSUME BuildInv, RequestInv, [ApiNext]_vars
    PROVE  RequestInv'
<1>0. IsList(endpoints) /\ Len(endpoints) \in Nat /\ DOMAIN endpoints = 1..Len(endpoints)
  BY ListFacts DEF BuildInv
<1>1. CASE Parse /\ UNCHANGED <<request, reply>>
  <2>1. BuildEndpoint \/ endpoints' = endpoints
    BY <1>1 DEF Parse, ReadPath, EndOfPaths, EndOfBuild
  <2>2. ToSet(endpoints) \subseteq ToSet(endpoints') /\ 0..Len(endpoints) \subseteq 0..Len(endpoints')
    BY <2>1, EndpointsStay
  <2>3. Replies \subseteq Replies'
    BY <2>2 DEF Replies
  <2> QED BY <1>1, <2>2, <2>3 DEF RequestInv
<1>2. ASSUME NEW n \in DOMAIN endpoints, NEW args, Call(n, args)
      PROVE  RequestInv'
  <2>1. endpoints' = endpoints /\ reply' = reply /\ request'.from = n
        /\ request'.verb = endpoints[n].method
    BY <1>2 DEF Call, parseVars
  <2>2. endpoints[n].method \in Methods
    BY <1>0 DEF BuildInv, MadeFrom, WellFormed
  <2>3. n \in 0..Len(endpoints)
    BY <1>0
  <2> QED BY <2>1, <2>2, <2>3 DEF RequestInv, Replies
<1>3. ASSUME NEW s, NEW m \in Methods, NEW q, OtherClient(s, m, q)
      PROVE  RequestInv'
  <2>1. endpoints' = endpoints /\ reply' = reply /\ request'.from = 0 /\ request'.verb = m
    BY <1>3 DEF OtherClient, parseVars, NoRequest
  <2> QED BY <1>0, <2>1 DEF RequestInv, Replies
<1>4. CASE HandleRequest
  <2>1. endpoints' = endpoints /\ request' = request
        /\ reply' = Route(request.target, request.verb)
    BY <1>4 DEF HandleRequest, parseVars
  <2>2. reply' \in Replies
    BY <1>0, <2>1, RouteReplies
  <2> QED BY <2>1, <2>2 DEF RequestInv, Replies
<1>5. CASE Written
  <2>1. endpoints' = endpoints /\ request'.from = 0 /\ request'.verb = "none" /\ reply' = <<>>
    BY <1>5 DEF Written, parseVars, NoRequest
  <2> QED BY <1>0, <2>1 DEF RequestInv, Replies
<1>6. CASE UNCHANGED vars
  BY <1>6 DEF vars, RequestInv, Replies
<1> QED BY <1>1, <1>2, <1>3, <1>4, <1>5, <1>6 DEF ApiNext

(* The type invariant holds for every document: in particular, an endpoint has a
   method that http::verb has and no cookie among its parameters, and handle_request
   replies with the name of an endpoint's method or with a 404. *)
THEOREM ApiTypeOK == ApiSpec => []TypeOK
<1>1. ApiInit => CollectInv /\ BuildInv /\ RequestInv
  <2> SUFFICES ASSUME ApiInit PROVE CollectInv /\ BuildInv /\ RequestInv
    OBVIOUS
  <2>1. endpoints = <<>> /\ request.from = 0 /\ request.verb = "none" /\ reply = <<>>
    BY DEF ApiInit, Init, NoRequest
  <2> QED BY <2>1, InitParse, SmallLists DEF RequestInv, Replies
<1>2. CollectInv /\ BuildInv /\ RequestInv /\ [ApiNext]_vars
        => CollectInv' /\ BuildInv' /\ RequestInv'
  BY StepParse, StepRequest
<1>3. CollectInv /\ BuildInv /\ RequestInv => TypeOK
  <2> SUFFICES ASSUME CollectInv, BuildInv, RequestInv PROVE TypeOK
    OBVIOUS
  <2>1. \A x \in DOMAIN path_params_map : path_params_map[x].name = x
    BY ResolvedFields, SMTT(30) DEF CollectInv, MapOf
  <2>2. ToSet(order) \subseteq DOMAIN path_params_map
    <3>1. CASE phase = "collect"
      <4>1. order = <<>>
        BY <3>1 DEF CollectInv
      <4> QED BY <4>1, SmallLists, SMTT(30)
    <3>2. CASE phase # "collect"
      <4>1. order \in SetToSeqs(DOMAIN path_params_map) /\ IsFiniteSet(DOMAIN path_params_map)
        BY <3>2 DEF CollectInv, MapOf
      <4> QED BY <4>1, OrderFacts
    <3> QED BY <3>1, <3>2
  <2>3. \A e \in ToSet(endpoints) : WellFormed(e)
    BY ListFacts DEF BuildInv, MadeFrom, ToSet
  <2>4. ParseTypeOK
    BY <2>1, <2>2, <2>3 DEF ParseTypeOK, CollectInv, BuildInv, WellFormed
  <2> QED BY <2>4 DEF TypeOK, RequestInv, Replies
<1> QED BY <1>1, <1>2, <1>3, PTL DEF ApiSpec

-----------------------------------------------------------------------------
(* match_path. *)

(* The next slash from i on, or the end. *)
LEMMA NextSlashFacts ==
    ASSUME NEW s, IsList(s), NEW i \in 1..Len(s) + 1
    PROVE  /\ NextSlash(s, i) \in i..Len(s) + 1
           /\ NextSlash(s, i) <= Len(s) => s[NextSlash(s, i)] = Slash
           /\ \A k \in i..NextSlash(s, i) - 1 : s[k] # Slash
           /\ \A n \in i..Len(s) + 1 :
                 /\ n <= Len(s) => s[n] = Slash
                 /\ \A k \in i..n - 1 : s[k] # Slash
                 => NextSlash(s, i) = n
<1> DEFINE at == {k \in i..Len(s) : s[k] = Slash}
           first == CHOOSE k \in at : \A m \in at : k <= m
<1>0. Len(s) \in Nat /\ i \in Nat /\ i >= 1 /\ i <= Len(s) + 1
  BY ListFacts
<1>1. NextSlash(s, i) = IF at = {} THEN Len(s) + 1 ELSE first
  BY DEF NextSlash
<1>2. at \in SUBSET Nat /\ \A k \in Int : k \in at <=> k >= i /\ k <= Len(s) /\ s[k] = Slash
  BY <1>0
<1> HIDE DEF at
<1>3. at # {} => first \in at /\ \A m \in at : first <= m
  <2>1. at # {} => \E k \in at : \A m \in at : k <= m
    BY <1>2, NatMin
  <2> QED BY <2>1, Zenon
<1> HIDE DEF first
<1>4. CASE at = {}
  BY <1>0, <1>1, <1>2, <1>4
<1>5. CASE at # {}
  <2>1. first \in at /\ first \in Nat /\ NextSlash(s, i) = first /\ \A m \in at : first <= m
    BY <1>1, <1>2, <1>3, <1>5
  <2>2. first >= i /\ first <= Len(s) /\ s[first] = Slash
    BY <1>2, <2>1
  <2>3. ASSUME NEW n \in i..Len(s) + 1, n <= Len(s) => s[n] = Slash,
               \A k \in i..n - 1 : s[k] # Slash
        PROVE  first = n
    <3>1. ~(first < n)
      BY <1>0, <2>1, <2>2, <2>3
    <3>2. n <= Len(s)
      BY <1>0, <2>1, <2>2, <3>1
    <3>3. n \in at
      BY <1>0, <1>2, <2>3, <3>2
    <3> QED BY <1>0, <2>1, <3>1, <3>3
  <2>4. ASSUME NEW k \in i..first - 1 PROVE s[k] # Slash
    BY <1>0, <1>2, <2>1, <2>2, <2>4
  <2> QED BY <1>0, <2>1, <2>2, <2>3, <2>4
<1> QED BY <1>4, <1>5

(* What match_path's loop does with the rests that begin at i and j. *)
MatchStep(x, y, f, i, j) ==
    IF i > Len(x) \/ j > Len(y)
      THEN SubSeq(x, i, Len(x)) = SubSeq(y, j, Len(y))
      ELSE IF x[i] = Slash /\ y[j] = Slash
        THEN f[<<i + 1, j + 1>>]
        ELSE /\ \/ SubSeq(x, i, NextSlash(x, i) - 1) = <<Hole>>
                \/ SubSeq(x, i, NextSlash(x, i) - 1) = SubSeq(y, j, NextSlash(y, j) - 1)
             /\ f[<<NextSlash(x, i), NextSlash(y, j)>>]

Rests(x, y) == (1..Len(x) + 1) \X (1..Len(y) + 1)
Steps(x, y, f) == f = [r \in Rests(x, y) |-> MatchStep(x, y, f, r[1], r[2])]

(* Every round takes something off: it depends on shorter rests only. *)
LEMMA MatchShortens ==
    ASSUME NEW x, NEW y, IsList(x), IsList(y), NEW i \in 1..Len(x) + 1, NEW j \in 1..Len(y) + 1,
           NEW f, NEW g,
           \A k \in 1..Len(x) + 1, m \in 1..Len(y) + 1 :
               k + m > i + j => f[<<k, m>>] = g[<<k, m>>]
    PROVE  MatchStep(x, y, f, i, j) = MatchStep(x, y, g, i, j)
<1>0. Len(x) \in Nat /\ Len(y) \in Nat
  BY ListFacts
<1>1. CASE i > Len(x) \/ j > Len(y)
  BY <1>1 DEF MatchStep
<1>2. CASE i <= Len(x) /\ j <= Len(y) /\ x[i] = Slash /\ y[j] = Slash
  <2>1. /\ i + 1 \in 1..Len(x) + 1 /\ j + 1 \in 1..Len(y) + 1
        /\ (i + 1) + (j + 1) > i + j
    BY <1>0, <1>2
  <2>2. f[<<i + 1, j + 1>>] = g[<<i + 1, j + 1>>]
    BY <2>1
  <2> QED BY <1>0, <1>2, <2>2 DEF MatchStep
<1>3. CASE i <= Len(x) /\ j <= Len(y) /\ ~(x[i] = Slash /\ y[j] = Slash)
  <2> DEFINE pp == NextSlash(x, i)
             tp == NextSlash(y, j)
  <2>1. /\ pp \in i..Len(x) + 1 /\ (pp <= Len(x) => x[pp] = Slash)
        /\ tp \in j..Len(y) + 1 /\ (tp <= Len(y) => y[tp] = Slash)
    BY NextSlashFacts
  <2> HIDE DEF pp, tp
  <2>2. pp \in 1..Len(x) + 1 /\ tp \in 1..Len(y) + 1 /\ pp + tp > i + j
    BY <1>0, <1>3, <2>1
  <2>3. f[<<pp, tp>>] = g[<<pp, tp>>]
    BY <2>2
  <2> QED BY <1>0, <1>3, <2>3 DEF MatchStep, pp, tp
<1> QED BY <1>0, <1>1, <1>2, <1>3

(* So there is a function that follows the loop: one for rests of up to n tokens
   gives one for rests of up to n + 1. *)
LEMMA MatchExists ==
    ASSUME NEW x, NEW y, IsList(x), IsList(y)
    PROVE  \E f : Steps(x, y, f)
<1>0. Len(x) \in Nat /\ Len(y) \in Nat
  BY ListFacts
<1> DEFINE N == Len(x) + Len(y) + 2
           D(n) == {r \in Rests(x, y) : r[1] + r[2] + n >= N}
           Has(n) == \E f : f = [r \in D(n) |-> MatchStep(x, y, f, r[1], r[2])]
           G == {n \in Nat : Has(n)}
<1>1. ASSUME NEW n \in Nat, NEW f, f = [r \in D(n) |-> MatchStep(x, y, f, r[1], r[2])]
      PROVE  Has(n + 1)
  <2> DEFINE g == [r \in D(n + 1) |-> MatchStep(x, y, f, r[1], r[2])]
  <2>1. ASSUME NEW r \in D(n) PROVE r \in D(n + 1)
    BY <1>0 DEF Rests
  <2>2. ASSUME NEW r \in D(n) PROVE f[r] = g[r]
    <3>1. f[r] = MatchStep(x, y, f, r[1], r[2])
      BY <1>1
    <3> QED BY <2>1, <3>1
  <2>3. ASSUME NEW r \in D(n + 1)
        PROVE  MatchStep(x, y, f, r[1], r[2]) = MatchStep(x, y, g, r[1], r[2])
    <3>1. PICK i \in 1..Len(x) + 1, j \in 1..Len(y) + 1 : r = <<i, j>>
      BY DEF Rests
    <3>2. i + j + (n + 1) >= N
      BY <3>1
    <3>3. ASSUME NEW k \in 1..Len(x) + 1, NEW m \in 1..Len(y) + 1, k + m > i + j
          PROVE  f[<<k, m>>] = g[<<k, m>>]
      <4>1. <<k, m>> \in Rests(x, y) /\ k + m + n >= N
        BY <1>0, <3>2, <3>3, SMTT(30) DEF Rests
      <4>2. <<k, m>> \in D(n)
        BY <4>1
      <4> QED BY <2>2, <4>2
    <3> HIDE DEF g
    <3>4. MatchStep(x, y, f, i, j) = MatchStep(x, y, g, i, j)
      BY <3>3, MatchShortens
    <3> QED BY <3>1, <3>4
  <2>4. g = [r \in D(n + 1) |-> MatchStep(x, y, g, r[1], r[2])]
    <3> HIDE DEF D
    <3>1. g = [r \in D(n + 1) |-> MatchStep(x, y, f, r[1], r[2])]
      OBVIOUS
    <3> HIDE DEF g
    <3> QED BY <2>3, <3>1
  <2> QED BY <2>4
<1>2. Has(0)
  <2> DEFINE f == [r \in D(0) |-> TRUE]
             g == [r \in D(0) |-> MatchStep(x, y, f, r[1], r[2])]
  <2>1. ASSUME NEW r \in D(0)
        PROVE  MatchStep(x, y, f, r[1], r[2]) = MatchStep(x, y, g, r[1], r[2])
    <3>1. PICK i \in 1..Len(x) + 1, j \in 1..Len(y) + 1 : r = <<i, j>>
      BY DEF Rests
    <3>2. i + j >= N
      BY <3>1
    <3>3. i > Len(x)
      BY <1>0, <3>2
    <3> QED BY <3>1, <3>3 DEF MatchStep
  <2>2. g = [r \in D(0) |-> MatchStep(x, y, g, r[1], r[2])]
    <3> HIDE DEF D
    <3>1. g = [r \in D(0) |-> MatchStep(x, y, f, r[1], r[2])]
      OBVIOUS
    <3> HIDE DEF g
    <3> QED BY <2>1, <3>1
  <2> QED BY <2>2
<1>3. Nat \subseteq G
  <2> HIDE DEF Has
  <2>1. 0 \in G
    BY <1>2
  <2>2. ASSUME NEW n \in Nat, n \in G PROVE n + 1 \in G
    <3>1. Has(n + 1)
      BY <1>1, <2>2 DEF Has
    <3> QED BY <3>1
  <2> HIDE DEF G
  <2> QED BY <2>1, <2>2, SetInduction
<1>4. Has(N)
  <2>1. N \in Nat
    BY <1>0
  <2> HIDE DEF Has, N
  <2> QED BY <1>3, <2>1
<1>5. D(N) = Rests(x, y)
  BY <1>0 DEF Rests
<1> QED BY <1>4, <1>5 DEF Steps

LEMMA MatchIs ==
    ASSUME NEW x, NEW y, IsList(x), IsList(y)
    PROVE  \E f : /\ MatchPath(x, y) = f[<<1, 1>>]
                  /\ \A i \in 1..Len(x) + 1, j \in 1..Len(y) + 1 :
                        f[<<i, j>>] = MatchStep(x, y, f, i, j)
<1> DEFINE g == CHOOSE f : Steps(x, y, f)
<1>1. Steps(x, y, g)
  <2> HIDE DEF Steps
  <2> QED BY MatchExists, Zenon
<1>2. MatchPath(x, y) = g[<<1, 1>>]
  BY DEF MatchPath, Steps, MatchStep, Rests
<1> HIDE DEF g
<1>3. Len(x) \in Nat /\ Len(y) \in Nat
  BY ListFacts
<1>4. \A i \in 1..Len(x) + 1, j \in 1..Len(y) + 1 : g[<<i, j>>] = MatchStep(x, y, g, i, j)
  BY <1>1, <1>3 DEF Steps, Rests
<1> QED BY <1>2, <1>4

-----------------------------------------------------------------------------
(* Tokens and segments. *)

(* x has the segments s, the slash of segment n at at[n]. *)
IsCut(x, s, at) ==
    /\ IsList(x) /\ IsList(s)
    /\ at[1] = 1 /\ at[Len(s) + 1] = Len(x) + 1
    /\ \A n \in 1..Len(s) :
          /\ IsList(s[n])
          /\ at[n] \in 1..Len(x)
          /\ at[n + 1] = at[n] + 1 + Len(s[n])
          /\ x[at[n]] = Slash
          /\ \A k \in 1..Len(s[n]) : x[at[n] + k] = s[n][k] /\ s[n][k] # Slash

(* The slash at a, the segment sn, and the next slash or the end at b. *)
Between(x, a, sn, b) ==
    /\ a \in 1..Len(x) /\ b \in 1..Len(x) + 1 /\ a < b /\ x[a] = Slash
    /\ NextSlash(x, a + 1) = b
    /\ SubSeq(x, a + 1, b - 1) = sn
    /\ (sn = <<>> <=> b = a + 1)
    /\ (a + 1 <= Len(x) => (x[a + 1] = Slash <=> sn = <<>>))

(* Behind a slash come the tokens of its segment, up to the next slash. *)
LEMMA CutFacts ==
    ASSUME NEW x, NEW s, NEW at, IsCut(x, s, at), NEW n \in 1..Len(s)
    PROVE  /\ Between(x, at[n], s[n], at[n + 1])
           /\ at[n + 1] = Len(x) + 1 <=> n = Len(s)
<1> DEFINE L == Len(x)
           M == Len(s[n])
           a == at[n]
           b == at[n + 1]
           u == SubSeq(x, a + 1, b - 1)
<1>0. /\ L \in Nat /\ Len(s) \in Nat /\ IsList(x) /\ IsList(s[n]) /\ M \in Nat
      /\ n \in Nat /\ n >= 1 /\ n <= Len(s)
  BY ListFacts DEF IsCut
<1>1. /\ a \in 1..L /\ b = a + 1 + M /\ x[a] = Slash
      /\ \A k \in 1..M : x[a + k] = s[n][k] /\ s[n][k] # Slash
  BY DEF IsCut
<1>2. /\ b \in 1..L + 1 /\ a < b /\ (n < Len(s) => b <= L) /\ (n = Len(s) => b = L + 1)
      /\ (b <= L => x[b] = Slash)
  <2>1. CASE n = Len(s)
    <3>1. b = L + 1
      BY <2>1 DEF IsCut
    <3> QED BY <1>0, <1>1, <2>1, <3>1
  <2>2. CASE n < Len(s)
    <3>1. n + 1 \in 1..Len(s)
      BY <1>0, <2>2
    <3>2. b \in 1..L /\ x[b] = Slash
      BY <3>1 DEF IsCut
    <3> QED BY <1>0, <1>1, <2>2, <3>2
  <2> QED BY <1>0, <2>1, <2>2
<1>3. s[n] = <<>> <=> M = 0
  BY <1>0, SmallLists
<1> HIDE DEF L, M, a, b
<1>4. ASSUME NEW k \in (a + 1)..b - 1 PROVE x[k] # Slash
  <2>1. k - a \in 1..M /\ a + (k - a) = k
    BY <1>0, <1>1, <1>2
  <2> QED BY <1>1, <2>1
<1>5. NextSlash(x, a + 1) = b
  <2>1. a + 1 \in 1..Len(x) + 1 /\ b \in (a + 1)..Len(x) + 1
    BY <1>0, <1>1, <1>2 DEF L
  <2> QED BY <1>0, <1>2, <1>4, <2>1, NextSlashFacts DEF L
<1>6. u = s[n]
  <2>1. x \in Seq(ToSet(x)) /\ a + 1 \in 1..Len(x) + 1 /\ b - 1 \in a..Len(x)
    BY <1>0, <1>1, <1>2 DEF L, IsList
  <2>2. u = [i \in 1..M |-> x[a + i]]
    BY <1>0, <1>1, <1>2, <2>1 DEF L
  <2> HIDE DEF u
  <2>3. u = [i \in 1..M |-> u[i]] /\ \A i \in 1..M : u[i] = s[n][i]
    BY <1>1, <2>2
  <2>4. IsList(u) /\ Len(u) = M
    BY <1>0, <2>3, FunctionIsList
  <2> QED BY <1>0, <2>3, <2>4, ListEqual DEF M
<1>7. a + 1 <= L => (x[a + 1] = Slash <=> M = 0)
  <2>1. CASE M = 0
    BY <1>1, <1>2, <2>1
  <2>2. CASE M # 0
    BY <1>0, <1>1, <2>2
  <2> QED BY <2>1, <2>2
<1>8. b = a + 1 <=> M = 0
  BY <1>0, <1>1
<1>9. b = L + 1 <=> n = Len(s)
  BY <1>0, <1>2
<1>10. Between(x, a, s[n], b)
  BY <1>1, <1>2, <1>3, <1>5, <1>6, <1>7, <1>8 DEF L, u, Between
<1> QED BY <1>9, <1>10 DEF L, a, b

(* Nothing is left exactly at the end. *)
LEMMA RestEmpty ==
    ASSUME NEW w, IsList(w), NEW k \in 1..Len(w) + 1
    PROVE  SubSeq(w, k, Len(w)) = <<>> <=> k = Len(w) + 1
<1>1. w \in Seq(ToSet(w)) /\ Len(w) \in Nat
  BY ListFacts DEF IsList
<1>2. CASE k = Len(w) + 1
  BY <1>1, <1>2
<1>3. CASE k \in 1..Len(w)
  <2>1. SubSeq(w, k, Len(w)) = [m \in 1..(Len(w) - k) + 1 |-> w[(k + m) - 1]]
    BY <1>1, <1>3
  <2>2. 1 \in DOMAIN SubSeq(w, k, Len(w))
    BY <1>1, <1>3, <2>1
  <2>3. DOMAIN <<>> = {}
    OBVIOUS
  <2>4. SubSeq(w, k, Len(w)) # <<>>
    BY <2>2, <2>3, Zenon
  <2>5. k # Len(w) + 1
    BY <1>1, <1>3
  <2> QED BY <2>4, <2>5, Zenon
<1> QED BY <1>1, <1>2, <1>3

(* match_path at two slashes: it compares the segments behind them and goes on to
   the next slashes; where a side has no further one, the other must not have one
   either, and a placeholder wants a segment that is not empty. *)
LEMMA MatchBetween ==
    ASSUME NEW x, NEW y, IsList(x), IsList(y), NEW a, NEW b, NEW c, NEW d, NEW u, NEW v,
           Between(x, a, u, b), Between(y, c, v, d),
           NEW f, \A i \in 1..Len(x) + 1, j \in 1..Len(y) + 1 :
                      f[<<i, j>>] = MatchStep(x, y, f, i, j)
    PROVE  f[<<a, c>>] <=>
              IF b = Len(x) + 1 \/ d = Len(y) + 1
                THEN /\ b = Len(x) + 1 /\ d = Len(y) + 1
                     /\ u = v \/ (u = <<Hole>> /\ v # <<>>)
                ELSE (u = v \/ u = <<Hole>>) /\ f[<<b, d>>]
<1> DEFINE X == Len(x)
           Y == Len(y)
           i == a + 1
           j == c + 1
<1>0. X \in Nat /\ Y \in Nat
  BY ListFacts
<1>1. /\ a \in 1..X /\ b \in 1..X + 1 /\ a < b /\ x[a] = Slash
      /\ NextSlash(x, i) = b /\ SubSeq(x, i, b - 1) = u
      /\ (u = <<>> <=> b = i) /\ (i <= X => (x[i] = Slash <=> u = <<>>))
  BY DEF Between
<1>2. /\ c \in 1..Y /\ d \in 1..Y + 1 /\ c < d /\ y[c] = Slash
      /\ NextSlash(y, j) = d /\ SubSeq(y, j, d - 1) = v
      /\ (v = <<>> <=> d = j) /\ (j <= Y => (y[j] = Slash <=> v = <<>>))
  BY DEF Between
<1>3. \A w : IsList(w) =>
          \A k \in 1..Len(w) + 1 : SubSeq(w, k, Len(w)) = <<>> <=> k = Len(w) + 1
  BY RestEmpty
<1>4. f[<<a, c>>] = f[<<i, j>>]
  <2>1. /\ a \in 1..Len(x) + 1 /\ c \in 1..Len(y) + 1
        /\ ~(a > Len(x)) /\ ~(c > Len(y))
    BY <1>0, <1>1, <1>2, SMTT(30)
  <2>2. f[<<a, c>>] = MatchStep(x, y, f, a, c)
    BY <2>1
  <2> QED BY <1>1, <1>2, <2>1, <2>2 DEF MatchStep
<1>5. /\ i \in 1..X + 1 /\ j \in 1..Y + 1 /\ b >= i /\ d >= j
  BY <1>0, <1>1, <1>2
<1>6. /\ f[<<i, j>>] = MatchStep(x, y, f, i, j)
      /\ f[<<b, d>>] = MatchStep(x, y, f, b, d)
  <2> HIDE DEF i, j
  <2> QED BY <1>1, <1>2, <1>5
<1> HIDE DEF i, j
<1>7. /\ SubSeq(x, i, X) = <<>> <=> i = X + 1
      /\ SubSeq(y, j, Y) = <<>> <=> j = Y + 1
      /\ SubSeq(x, b, X) = <<>> <=> b = X + 1
      /\ SubSeq(y, d, Y) = <<>> <=> d = Y + 1
  BY <1>1, <1>2, <1>3, <1>5
<1>8. <<>> # <<Hole>>
  BY SmallLists
<1>9. CASE i > X \/ j > Y
  <2>1. f[<<i, j>>] <=> SubSeq(x, i, X) = SubSeq(y, j, Y)
    BY <1>6, <1>9 DEF MatchStep
  <2>2. CASE i = X + 1
    <3>1. b = X + 1 /\ u = <<>>
      BY <1>0, <1>1, <1>5, <2>2
    <3>2. f[<<i, j>>] <=> j = Y + 1
      BY <1>7, <2>1, <2>2
    <3>3. j = Y + 1 <=> d = Y + 1 /\ v = <<>>
      BY <1>0, <1>2, <1>5
    <3> QED BY <1>4, <1>8, <3>1, <3>2, <3>3
  <2>3. CASE i <= X /\ j = Y + 1
    <3>1. d = Y + 1 /\ v = <<>>
      BY <1>0, <1>2, <1>5, <2>3
    <3>2. ~f[<<i, j>>]
      BY <1>0, <1>5, <1>7, <2>1, <2>3
    <3>3. b = X + 1 => u # <<>>
      BY <1>0, <1>1, <2>3
    <3> QED BY <1>4, <3>1, <3>2, <3>3
  <2> QED BY <1>0, <1>5, <1>9, <2>2, <2>3
<1>10. CASE i <= X /\ j <= Y /\ x[i] = Slash /\ y[j] = Slash
  <2>1. u = <<>> /\ v = <<>> /\ b = i /\ d = j /\ b # X + 1 /\ d # Y + 1
    BY <1>0, <1>1, <1>2, <1>10
  <2> QED BY <1>4, <2>1
<1>11. CASE i <= X /\ j <= Y /\ ~(x[i] = Slash /\ y[j] = Slash)
  <2>1. f[<<i, j>>] <=> (u = <<Hole>> \/ u = v) /\ f[<<b, d>>]
    <3>1. ~(i > Len(x)) /\ ~(j > Len(y))
      BY <1>0, <1>5, <1>11
    <3> QED BY <1>1, <1>2, <1>6, <1>11, <3>1 DEF MatchStep
  <2>2. CASE b # X + 1 /\ d # Y + 1
    BY <1>4, <2>1, <2>2
  <2>3. CASE b = X + 1 \/ d = Y + 1
    <3>1. f[<<b, d>>] <=> SubSeq(x, b, X) = SubSeq(y, d, Y)
      <4>1. b > X \/ d > Y
        BY <1>0, <2>3
      <4> QED BY <1>6, <4>1 DEF MatchStep
    <3>2. f[<<b, d>>] <=> (b = X + 1 /\ d = Y + 1)
      BY <1>7, <2>3, <3>1
    <3>3. d = Y + 1 => v # <<>>
      BY <1>0, <1>2, <1>5, <1>11
    <3> QED BY <1>4, <2>1, <2>3, <3>2, <3>3
  <2> QED BY <2>2, <2>3
<1> QED BY <1>0, <1>5, <1>9, <1>10, <1>11

(* Without a pattern or without a target, match_path wants neither. *)
LEMMA MatchEmpty ==
    ASSUME NEW x, NEW t, NEW at, IsCut(x, t, at), NEW y, NEW s, NEW bt, IsCut(y, s, bt),
           Len(t) = 0 \/ Len(s) = 0
    PROVE  MatchPath(x, y) <=> Len(t) = Len(s)
<1>0. /\ IsList(x) /\ IsList(y) /\ IsList(t) /\ IsList(s)
      /\ Len(x) \in Nat /\ Len(y) \in Nat /\ Len(t) \in Nat /\ Len(s) \in Nat
  BY ListFacts DEF IsCut
<1>1. PICK f : /\ MatchPath(x, y) = f[<<1, 1>>]
               /\ \A i \in 1..Len(x) + 1, j \in 1..Len(y) + 1 :
                     f[<<i, j>>] = MatchStep(x, y, f, i, j)
  BY <1>0, MatchIs
<1>2. Len(t) = 0 <=> Len(x) = 0
  <2>1. Len(t) = 0 => Len(x) = 0
    BY <1>0 DEF IsCut
  <2>2. Len(t) # 0 => Len(x) # 0
    BY <1>0 DEF IsCut
  <2> QED BY <2>1, <2>2
<1>3. Len(s) = 0 <=> Len(y) = 0
  <2>1. Len(s) = 0 => Len(y) = 0
    BY <1>0 DEF IsCut
  <2>2. Len(s) # 0 => Len(y) # 0
    BY <1>0 DEF IsCut
  <2> QED BY <2>1, <2>2
<1>4. 1 > Len(x) \/ 1 > Len(y)
  BY <1>0, <1>2, <1>3
<1>5. f[<<1, 1>>] = MatchStep(x, y, f, 1, 1)
  BY <1>0, <1>1
<1>6. MatchPath(x, y) <=> SubSeq(x, 1, Len(x)) = SubSeq(y, 1, Len(y))
  BY <1>1, <1>4, <1>5 DEF MatchStep
<1>7. /\ SubSeq(x, 1, Len(x)) = <<>> <=> Len(x) = 0
      /\ SubSeq(y, 1, Len(y)) = <<>> <=> Len(y) = 0
  <2>1. 1 \in 1..Len(x) + 1 /\ 1 \in 1..Len(y) + 1
    BY <1>0
  <2>2. /\ SubSeq(x, 1, Len(x)) = <<>> <=> 1 = Len(x) + 1
        /\ SubSeq(y, 1, Len(y)) = <<>> <=> 1 = Len(y) + 1
    BY <1>0, <2>1, RestEmpty
  <2>3. (1 = Len(x) + 1 <=> Len(x) = 0) /\ (1 = Len(y) + 1 <=> Len(y) = 0)
    BY <1>0
  <2> QED BY <2>2, <2>3
<1>8. MatchPath(x, y) <=> (Len(x) = 0 /\ Len(y) = 0)
  <2>1. Len(x) = 0 \/ Len(y) = 0
    BY <1>0, <1>4
  <2> QED BY <1>6, <1>7, <2>1
<1> QED BY <1>2, <1>3, <1>8

(* Segment n of a pattern against segment n of a target. *)
SegmentFits(t, s, n) ==
    t[n] = s[n] \/ (t[n] = <<Hole>> /\ (n < Len(t) \/ s[n] # <<>>))

(* match_path decides what the segment-wise definition says: from each slash on, if
   it does so from the next one on. *)
LEMMA MatchCut ==
    ASSUME NEW x, NEW t, NEW at, IsCut(x, t, at), NEW y, NEW s, NEW bt, IsCut(y, s, bt)
    PROVE  MatchPath(x, y) <=> MatchesSegments(t, s)
<1> DEFINE N == Len(t)
           M == Len(s)
<1>0. /\ IsList(x) /\ IsList(y) /\ IsList(t) /\ IsList(s) /\ N \in Nat /\ M \in Nat
      /\ DOMAIN t = 1..N
  BY ListFacts DEF IsCut
<1>1. MatchesSegments(t, s) <=> (N = M /\ \A i \in 1..N : SegmentFits(t, s, i))
  BY <1>0 DEF MatchesSegments, SegmentFits
<1>2. CASE N = 0 \/ M = 0
  <2>1. MatchPath(x, y) <=> N = M
    BY <1>2, MatchEmpty
  <2>2. N = M => 1..N = {}
    BY <1>0, <1>2
  <2> QED BY <1>1, <2>1, <2>2
<1>3. CASE N # 0 /\ M # 0
  <2>1. PICK f : /\ MatchPath(x, y) = f[<<1, 1>>]
                 /\ \A i \in 1..Len(x) + 1, j \in 1..Len(y) + 1 :
                       f[<<i, j>>] = MatchStep(x, y, f, i, j)
    BY <1>0, MatchIs
  <2> DEFINE Q(n) == f[<<at[n], bt[n]>>] <=> (N = M /\ \A i \in n..N : SegmentFits(t, s, i))
             G == {k \in Nat : \A n \in 1..N : n <= M /\ n + k >= N => Q(n)}
  <2>2. ASSUME NEW n \in 1..N, n <= M, n < N /\ n < M => Q(n + 1)
        PROVE  Q(n)
    <3>1. /\ Between(x, at[n], t[n], at[n + 1]) /\ (at[n + 1] = Len(x) + 1 <=> n = N)
          /\ Between(y, bt[n], s[n], bt[n + 1]) /\ (bt[n + 1] = Len(y) + 1 <=> n = M)
      BY <1>0, <2>2, CutFacts
    <3>2. f[<<at[n], bt[n]>>] <=>
              IF n = N \/ n = M
                THEN n = N /\ n = M /\ (t[n] = s[n] \/ (t[n] = <<Hole>> /\ s[n] # <<>>))
                ELSE (t[n] = s[n] \/ t[n] = <<Hole>>) /\ f[<<at[n + 1], bt[n + 1]>>]
      <4> DEFINE a == at[n]
                 b == at[n + 1]
                 c == bt[n]
                 d == bt[n + 1]
                 u == t[n]
                 v == s[n]
      <4>1. Between(x, a, u, b) /\ Between(y, c, v, d)
        BY <3>1
      <4> HIDE DEF a, b, c, d, u, v
      <4>2. f[<<a, c>>] <=>
              IF b = Len(x) + 1 \/ d = Len(y) + 1
                THEN /\ b = Len(x) + 1 /\ d = Len(y) + 1
                     /\ u = v \/ (u = <<Hole>> /\ v # <<>>)
                ELSE (u = v \/ u = <<Hole>>) /\ f[<<b, d>>]
        BY <1>0, <2>1, <4>1, MatchBetween
      <4> QED BY <3>1, <4>2 DEF a, b, c, d, u, v
    <3>3. CASE n = N \/ n = M
      <4>1. n = N /\ n = M => n..N = {n} /\ ~(n < N)
        BY <1>0
      <4>2. N = M => n = N /\ n = M
        BY <1>0, <3>3
      <4> QED BY <3>2, <3>3, <4>1, <4>2 DEF SegmentFits
    <3>4. CASE n # N /\ n # M
      <4>1. n < N /\ n < M /\ n..N = {n} \cup ((n + 1)..N)
        <5>1. N \in Nat /\ M \in Nat /\ n \in 1..N /\ n <= M /\ n # N /\ n # M
          BY <1>0, <2>2, <3>4
        <5> HIDE DEF N, M
        <5> QED BY <5>1
      <4>2. SegmentFits(t, s, n) <=> (t[n] = s[n] \/ t[n] = <<Hole>>)
        BY <4>1 DEF SegmentFits
      <4>3. f[<<at[n + 1], bt[n + 1]>>] <=> (N = M /\ \A i \in (n + 1)..N : SegmentFits(t, s, i))
        BY <2>2, <4>1
      <4>4. (\A i \in n..N : SegmentFits(t, s, i))
              <=> SegmentFits(t, s, n) /\ \A i \in (n + 1)..N : SegmentFits(t, s, i)
        BY <4>1
      <4> QED BY <3>2, <3>4, <4>2, <4>3, <4>4
    <3> QED BY <3>3, <3>4
  <2> HIDE DEF Q
  <2>3. 0 \in G
    <3> SUFFICES ASSUME NEW n \in 1..N, n <= M, n + 0 >= N PROVE Q(n)
      OBVIOUS
    <3>1. ~(n < N)
      BY <1>0
    <3> QED BY <2>2, <3>1
  <2>4. ASSUME NEW k \in Nat, k \in G PROVE k + 1 \in G
    <3> SUFFICES ASSUME NEW n \in 1..N, n <= M, n + (k + 1) >= N PROVE Q(n)
      OBVIOUS
    <3>1. n < N /\ n < M => n + 1 \in 1..N /\ n + 1 <= M /\ (n + 1) + k >= N
      BY <1>0
    <3>2. n < N /\ n < M => Q(n + 1)
      BY <2>4, <3>1
    <3> QED BY <2>2, <3>2
  <2>5. Nat \subseteq G
    <3> HIDE DEF G
    <3> QED BY <2>3, <2>4, SetInduction
  <2>6. Q(1)
    <3>1. N \in G /\ 1 \in 1..N /\ 1 <= M /\ 1 + N >= N
      BY <1>0, <1>3, <2>5
    <3> QED BY <3>1
  <2>7. at[1] = 1 /\ bt[1] = 1
    BY DEF IsCut
  <2> QED BY <1>1, <2>1, <2>6, <2>7 DEF Q
<1> QED BY <1>2, <1>3

(* A path is a list of segments without slashes. *)
LEMMA PathFacts ==
    ASSUME NEW p, IsPath(p)
    PROVE  /\ IsList(p)
           /\ \A i \in 1..Len(p) :
                 /\ IsList(p[i])
                 /\ \A k \in 1..Len(p[i]) : p[i][k] \in Token /\ p[i][k] # Slash /\ p[i][k] # Mark
<1>1. p \in Seq(Seq(Token \ {Slash, Mark}))
  BY DEF IsPath
<1>2. IsList(p) /\ Len(p) \in Nat
  BY <1>1, SeqIsList, ListFacts
<1>3. ASSUME NEW i \in 1..Len(p)
      PROVE  /\ IsList(p[i])
             /\ \A k \in 1..Len(p[i]) : p[i][k] \in Token /\ p[i][k] # Slash /\ p[i][k] # Mark
  <2>1. p[i] \in Seq(Token \ {Slash, Mark})
    BY <1>1, <1>2
  <2>2. IsList(p[i])
    BY <2>1, SeqIsList
  <2>3. \A k \in 1..Len(p[i]) : p[i][k] \in Token \ {Slash, Mark}
    BY <2>1
  <2> QED BY <2>2, <2>3
<1> QED BY <1>2, <1>3

(* Places within a segment are within the list, and within a longer one. *)
LEMMA PlacesInside ==
    ASSUME NEW len \in Nat, NEW a \in 1..len, NEW b, NEW n \in Nat, b = a + 1 + n, b <= len + 1,
           NEW more \in Nat
    PROVE  /\ \A k \in 1..n : a + k \in 1..len
           /\ a \in 1..len + 1 + more /\ b <= len + 1 + more + 1
OBVIOUS

(* The tokens of a path have its segments. *)
LEMMA TokensCut ==
    ASSUME NEW p, IsList(p),
           \A i \in 1..Len(p) : IsList(p[i]) /\ \A k \in 1..Len(p[i]) : p[i][k] # Slash
    PROVE  \E at : IsCut(Tokens(p), p, at)
<1> DEFINE N == Len(p)
           ss == [i \in DOMAIN p |-> <<Slash>> \o p[i]]
           Flat(n) == FlattenSeq(UpTo(ss, n))
           at == [n \in 1..N + 1 |-> Len(Flat(n - 1)) + 1]
<1>0. N \in Nat /\ DOMAIN p = 1..N /\ \A i \in 1..N : IsList(p[i]) /\ Len(p[i]) \in Nat
  BY ListFacts
<1>1. /\ ss = [i \in 1..N |-> ss[i]]
      /\ \A i \in 1..N : ss[i] = <<Slash>> \o p[i]
  BY <1>0
<1>t. Tokens(p) = FlattenSeq(ss)
  BY DEF Tokens
<1> HIDE DEF ss
<1>2. ASSUME NEW i \in 1..N
      PROVE  /\ IsList(ss[i]) /\ Len(ss[i]) = 1 + Len(p[i]) /\ ss[i][1] = Slash
             /\ \A k \in 1..Len(p[i]) : ss[i][1 + k] = p[i][k]
  <2> DEFINE u == <<Slash>>
             v == p[i]
  <2>1. IsList(u) /\ Len(u) = 1 /\ u[1] = Slash /\ IsList(v)
    BY <1>0, SmallLists
  <2> HIDE DEF u, v
  <2>0. IsList(u) /\ IsList(v)
    BY <2>1
  <2>2. IsList(u \o v) /\ Len(u \o v) = Len(u) + Len(v)
    BY <2>0, ConcatFacts
  <2>3. \A k \in 1..Len(u) : (u \o v)[k] = u[k]
    BY <2>0, ConcatFacts
  <2>4. \A k \in 1..Len(v) : (u \o v)[Len(u) + k] = v[k]
    BY <2>0, ConcatFacts
  <2>5. ss[i] = u \o v
    BY <1>1 DEF u, v
  <2> QED BY <2>1, <2>2, <2>3, <2>4, <2>5 DEF v
<1>3. IsListOfLists(ss) /\ Len(ss) = N
  BY <1>0, <1>1, <1>2, FunctionIsList DEF IsListOfLists
<1>4. Flat(0) = <<>> /\ Flat(N) = Tokens(p)
  BY <1>3, <1>t, FlattenSteps
<1>5. ASSUME NEW n \in 0..N
      PROVE  IsList(Flat(n)) /\ Len(Flat(n)) \in Nat
  BY <1>3, UpToFacts, FlattenFacts, ListFacts DEF IsListOfLists
<1>6. ASSUME NEW n \in Nat, n + 1 <= N
      PROVE  Flat(n + 1) = Flat(n) \o ss[n + 1] /\ IsList(Flat(n)) /\ n \in 0..N /\ n + 1 \in 1..N
  <2>1. n \in 0..N - 1 /\ n \in 0..N /\ n + 1 \in 1..N
    BY <1>0, <1>6
  <2>2. \A m \in 0..Len(ss) - 1 :
            FlattenSeq(UpTo(ss, m + 1)) = FlattenSeq(UpTo(ss, m)) \o ss[m + 1]
    BY <1>3, FlattenSteps
  <2> QED BY <1>3, <1>5, <2>1, <2>2
<1> HIDE DEF Flat
<1>7. at[1] = 1 /\ \A n \in 0..N : at[n + 1] = Len(Flat(n)) + 1
  <2>1. \A n \in 0..N : n + 1 \in 1..N + 1 /\ (n + 1) - 1 = n
    BY <1>0
  <2>2. \A n \in 0..N : at[n + 1] = Len(Flat(n)) + 1
    BY <2>1
  <2>3. at[0 + 1] = Len(Flat(0)) + 1
    BY <1>0, <2>2
  <2> QED BY <1>4, <2>2, <2>3, SmallLists
<1> HIDE DEF at
<1> DEFINE Cut(n, m) ==
               /\ at[n] \in 1..Len(Flat(m))
               /\ at[n + 1] = at[n] + 1 + Len(p[n]) /\ at[n + 1] <= Len(Flat(m)) + 1
               /\ Flat(m)[at[n]] = Slash
               /\ \A k \in 1..Len(p[n]) : Flat(m)[at[n] + k] = p[n][k]
           G == {m \in Nat : m <= N => \A n \in 1..m : Cut(n, m)}
<1>8. ASSUME NEW m \in Nat, m + 1 <= N, \A n \in 1..m : Cut(n, m)
      PROVE  \A n \in 1..m + 1 : Cut(n, m + 1)
  <2> DEFINE a == Flat(m)
             b == ss[m + 1]
             c == Flat(m + 1)
  <2>1. /\ c = a \o b /\ IsList(a) /\ IsList(b) /\ Len(b) = 1 + Len(p[m + 1]) /\ b[1] = Slash
        /\ \A k \in 1..Len(p[m + 1]) : b[1 + k] = p[m + 1][k]
    BY <1>2, <1>6, <1>8
  <2>2. /\ at[m + 1] = Len(a) + 1 /\ at[m + 2] = Len(c) + 1
        /\ Len(a) \in Nat /\ Len(p[m + 1]) \in Nat
    <3>1. m \in 0..N /\ m + 1 \in 0..N /\ (m + 1) + 1 = m + 2 /\ m + 1 \in 1..N
      BY <1>0, <1>8
    <3>2. at[(m + 1) + 1] = Len(c) + 1
      BY <1>7, <3>1
    <3> QED BY <1>0, <1>5, <1>7, <3>1, <3>2
  <2> HIDE DEF a, b, c
  <2>3. /\ Len(c) = Len(a) + Len(b)
        /\ \A k \in 1..Len(a) : c[k] = a[k]
        /\ \A k \in 1..Len(b) : c[Len(a) + k] = b[k]
    <3>1. Len(a \o b) = Len(a) + Len(b)
      BY <2>1, ConcatFacts
    <3>2. \A k \in 1..Len(a) : (a \o b)[k] = a[k]
      BY <2>1, ConcatFacts
    <3>3. \A k \in 1..Len(b) : (a \o b)[Len(a) + k] = b[k]
      BY <2>1, ConcatFacts
    <3> QED BY <2>1, <3>1, <3>2, <3>3
  <2> DEFINE la == Len(a)
             lp == Len(p[m + 1])
             lc == Len(c)
  <2>6. la \in Nat /\ lp \in Nat /\ lc = la + 1 + lp
    <3>1. Len(c) = Len(a) + Len(b)
      BY <2>3
    <3>2. Len(b) = 1 + lp
      BY <2>1
    <3>3. la \in Nat /\ lp \in Nat
      BY <2>2
    <3> HIDE DEF la, lp, lc
    <3>4. lc = la + (1 + lp)
      BY <3>1, <3>2 DEF la, lc
    <3> QED BY <3>3, <3>4
  <2>4. ASSUME NEW n \in 1..m PROVE Cut(n, m + 1)
    <3>1. /\ at[n] \in 1..Len(a) /\ at[n + 1] = at[n] + 1 + Len(p[n]) /\ at[n + 1] <= Len(a) + 1
          /\ a[at[n]] = Slash /\ Len(p[n]) \in Nat
          /\ \A k \in 1..Len(p[n]) : a[at[n] + k] = p[n][k]
      <4>1. Cut(n, m) /\ n \in 1..N
        BY <1>0, <1>8, <2>4
      <4> QED BY <1>0, <4>1 DEF a
    <3> DEFINE A == at[n]
               B == at[n + 1]
    <3>i. A \in 1..Len(a) /\ B = A + 1 + Len(p[n]) /\ B <= Len(a) + 1 /\ Len(p[n]) \in Nat
      BY <3>1
    <3> HIDE DEF A, B
    <3>2. A \in 1..Len(c) /\ B <= Len(c) + 1 /\ c[A] = Slash
      <4>1. A \in 1..la /\ B <= la + 1 /\ B = A + 1 + Len(p[n])
        BY <3>i
      <4> HIDE DEF la, lp, lc
      <4>2. A \in 1..la + 1 + lp /\ B <= la + 1 + lp + 1
        BY <2>6, <3>i, <4>1, PlacesInside
      <4>3. A \in 1..lc /\ B <= lc + 1
        BY <2>6, <4>2
      <4> QED BY <2>3, <3>1, <3>i, <4>3 DEF A, lc
    <3>3. ASSUME NEW k \in 1..Len(p[n]) PROVE c[at[n] + k] = p[n][k]
      <4>1. A + k \in 1..Len(a)
        <5>1. la \in Nat /\ A \in 1..la /\ B = A + 1 + Len(p[n]) /\ B <= la + 1 /\ Len(p[n]) \in Nat
          BY <2>6, <3>i
        <5> HIDE DEF la
        <5>2. A + k \in 1..la
          BY <2>6, <5>1, PlacesInside
        <5> QED BY <5>2 DEF la
      <4> QED BY <2>3, <3>1, <4>1 DEF A
    <3> QED BY <3>1, <3>2, <3>3 DEF A, B, c
  <2>5. Cut(m + 1, m + 1)
    <3>1. at[m + 1] \in 1..Len(c) /\ c[at[m + 1]] = Slash
      BY <2>1, <2>2, <2>3
    <3>2. at[(m + 1) + 1] = at[m + 1] + 1 + Len(p[m + 1]) /\ at[(m + 1) + 1] <= Len(c) + 1
      <4>1. (m + 1) + 1 = m + 2
        OBVIOUS
      <4>2. at[m + 2] = at[m + 1] + 1 + Len(p[m + 1]) /\ at[m + 2] <= Len(c) + 1
        <5>1. at[m + 1] = la + 1 /\ at[m + 2] = lc + 1
          BY <2>2
        <5> HIDE DEF la, lp, lc
        <5>2. at[m + 2] = at[m + 1] + 1 + lp /\ at[m + 2] <= lc + 1
          BY <2>6, <5>1
        <5> QED BY <5>2 DEF lp, lc
      <4> QED BY <4>1, <4>2
    <3>3. ASSUME NEW k \in 1..Len(p[m + 1]) PROVE c[at[m + 1] + k] = p[m + 1][k]
      <4>1. 1 + k \in 1..Len(b) /\ at[m + 1] + k = Len(a) + (1 + k)
        BY <2>1, <2>2
      <4> QED BY <2>1, <2>3, <4>1, ZenonT(60)
    <3> QED BY <3>1, <3>2, <3>3 DEF c
  <2> HIDE DEF Cut
  <2>7. \A n \in 1..m + 1 : n \in 1..m \/ n = m + 1
    BY <1>8
  <2> QED BY <2>4, <2>5, <2>7
<1>9. Nat \subseteq G
  <2> HIDE DEF Cut
  <2>1. 0 \in G
    OBVIOUS
  <2>2. ASSUME NEW m \in Nat, m \in G PROVE m + 1 \in G
    <3> SUFFICES ASSUME m + 1 <= N PROVE \A n \in 1..m + 1 : Cut(n, m + 1)
      OBVIOUS
    <3>1. m <= N
      BY <1>0
    <3> QED BY <1>8, <2>2, <3>1
  <2> HIDE DEF G
  <2> QED BY <2>1, <2>2, SetInduction
<1>10. ASSUME NEW n \in 1..N PROVE Cut(n, N)
  <2> HIDE DEF Cut
  <2> QED BY <1>0, <1>9
<1>11. at[N + 1] = Len(Tokens(p)) + 1 /\ IsList(Tokens(p))
  BY <1>0, <1>4, <1>5, <1>7
<1>12. IsCut(Tokens(p), p, at)
  BY <1>0, <1>4, <1>7, <1>10, <1>11 DEF IsCut
<1> QED BY <1>12

(* A target is cut in one way only. *)
LEMMA CutUnique ==
    ASSUME NEW x, NEW s, NEW at, IsCut(x, s, at), NEW t, NEW bt, IsCut(x, t, bt)
    PROVE  s = t
<1>0. /\ Len(s) \in Nat /\ Len(t) \in Nat /\ Len(x) \in Nat /\ IsList(s) /\ IsList(t)
      /\ at[1] = 1 /\ bt[1] = 1 /\ at[Len(s) + 1] = Len(x) + 1 /\ bt[Len(t) + 1] = Len(x) + 1
  BY ListFacts DEF IsCut
<1> DEFINE G == {n \in Nat : n <= Len(s) => n <= Len(t) /\ at[n + 1] = bt[n + 1]
                                               /\ \A k \in 1..n : s[k] = t[k]}
<1>1. \A n \in 1..Len(s) : at[n] \in 1..Len(x)
  BY DEF IsCut
<1>2. \A n \in 1..Len(t) : bt[n] \in 1..Len(x)
  BY DEF IsCut
<1>3. 0 \in G
  BY <1>0
<1>4. ASSUME NEW n \in Nat, n \in G PROVE n + 1 \in G
  <2> SUFFICES ASSUME n + 1 <= Len(s)
               PROVE  /\ n + 1 <= Len(t) /\ at[(n + 1) + 1] = bt[(n + 1) + 1]
                      /\ \A k \in 1..n + 1 : s[k] = t[k]
    OBVIOUS
  <2>1. n <= Len(t) /\ at[n + 1] = bt[n + 1] /\ (\A k \in 1..n : s[k] = t[k]) /\ n + 1 \in 1..Len(s)
    BY <1>0, <1>4
  <2>2. n # Len(t)
    <3>1. at[n + 1] \in 1..Len(x)
      BY <1>1, <2>1
    <3>2. Len(x) + 1 \notin 1..Len(x)
      BY <1>0
    <3> QED BY <1>0, <2>1, <3>1, <3>2
  <2>3. n + 1 \in 1..Len(t)
    BY <1>0, <2>1, <2>2
  <2>4. Between(x, at[n + 1], s[n + 1], at[(n + 1) + 1])
    BY <2>1, CutFacts
  <2>5. Between(x, bt[n + 1], t[n + 1], bt[(n + 1) + 1])
    BY <2>3, CutFacts
  <2>6. at[(n + 1) + 1] = bt[(n + 1) + 1] /\ s[n + 1] = t[n + 1]
    <3> DEFINE a == at[n + 1]
               b == at[(n + 1) + 1]
               c == bt[(n + 1) + 1]
               u == s[n + 1]
               v == t[n + 1]
    <3>1. Between(x, a, u, b) /\ Between(x, a, v, c)
      BY <2>1, <2>4, <2>5
    <3> HIDE DEF a, b, c, u, v
    <3>2. NextSlash(x, a + 1) = b /\ NextSlash(x, a + 1) = c
      BY <3>1 DEF Between
    <3>3. SubSeq(x, a + 1, b - 1) = u /\ SubSeq(x, a + 1, c - 1) = v
      BY <3>1 DEF Between
    <3>4. b = c /\ u = v
      BY <3>2, <3>3
    <3> QED BY <3>4 DEF b, c, u, v
  <2>7. \A k \in 1..n + 1 : k \in 1..n \/ k = n + 1
    OBVIOUS
  <2> QED BY <1>0, <2>1, <2>3, <2>6, <2>7
<1>5. Nat \subseteq G
  <2> HIDE DEF G
  <2> QED BY <1>3, <1>4, SetInduction
<1>6. /\ Len(s) <= Len(t) /\ at[Len(s) + 1] = bt[Len(s) + 1]
      /\ \A k \in 1..Len(s) : s[k] = t[k]
  BY <1>0, <1>5
<1>7. Len(s) = Len(t)
  <2> SUFFICES ASSUME Len(s) < Len(t) PROVE FALSE
    BY <1>0, <1>6
  <2>1. Len(s) + 1 \in 1..Len(t)
    BY <1>0
  <2> QED BY <1>0, <1>2, <1>6, <2>1
<1> QED BY <1>0, <1>6, <1>7, ListEqual

(* A target that begins with a slash, if it is not empty, has the segments that
   Segments gives. *)
LEMMA SegmentsCut ==
    ASSUME NEW x, IsList(x), x = <<>> \/ x[1] = Slash
    PROVE  \E at : IsCut(x, Segments(x), at)
<1> DEFINE X == Len(x)
           C == {k \in DOMAIN x : x[k] = Slash}
           z == [k \in DOMAIN x |-> SubSeq(x, k + 1, NextSlash(x, k + 1) - 1)]
           s == Segments(x)
<1>0. X \in Nat /\ DOMAIN x = 1..X
  BY ListFacts
<1>1. s = Chosen(z, C)
  <2>1. Pieces(z, C) = [k \in DOMAIN x |-> IF x[k] = Slash THEN <<SubSeq(x, k + 1, NextSlash(x, k + 1) - 1)>> ELSE <<>>]
    BY DEF Pieces, Piece
  <2> QED BY <2>1 DEF Segments, Chosen
<1>2. /\ z = [k \in 1..X |-> z[k]]
      /\ \A k \in 1..X : z[k] = SubSeq(x, k + 1, NextSlash(x, k + 1) - 1)
  BY <1>0
<1>3. \A k \in 1..X : k \in C <=> x[k] = Slash
  BY <1>0
<1> HIDE DEF z, C, s
<1>4. IsList(z) /\ Len(z) = X
  BY <1>0, <1>2, FunctionIsList
<1>5. PICK pl : /\ IsEnumeration(pl, X, C) /\ Len(pl) = Len(s)
                /\ \A k \in 1..Len(pl) : s[k] = z[pl[k]]
  BY <1>1, <1>4, ChosenPlaces
<1> DEFINE N == Len(s)
           at == [n \in 1..N + 1 |-> IF n <= N THEN pl[n] ELSE X + 1]
<1>6. /\ IsList(s) /\ N \in Nat /\ IsList(pl) /\ DOMAIN pl = 1..N
      /\ ToSet(pl) = (1..X) \cap C
      /\ \A j, k \in 1..N : j < k => pl[j] < pl[k]
  <2>1. IsList(s)
    BY <1>1, <1>4, ChosenFacts
  <2> QED BY <1>5, <2>1, ListFacts DEF IsEnumeration
<1>7. \A n \in 1..N : pl[n] \in 1..X /\ x[pl[n]] = Slash
  BY <1>3, <1>6 DEF ToSet
<1>8. \A k \in 1..X : x[k] = Slash => \E n \in 1..N : pl[n] = k
  BY <1>3, <1>6 DEF ToSet
<1>9. /\ at[N + 1] = X + 1 /\ \A n \in 1..N : at[n] = pl[n]
      /\ \A n \in 1..N - 1 : at[n + 1] = pl[n + 1]
  <2>1. N + 1 \in 1..N + 1 /\ ~(N + 1 <= N)
    BY <1>6
  <2>2. \A n \in 1..N : n \in 1..N + 1 /\ n <= N
    BY <1>6
  <2>3. \A n \in 1..N - 1 : n + 1 \in 1..N
    BY <1>6
  <2>4. at[N + 1] = X + 1 /\ \A n \in 1..N : at[n] = pl[n]
    BY <2>1, <2>2
  <2> QED BY <2>3, <2>4
<1> HIDE DEF at
<1>10. at[1] = 1
  <2>1. CASE x = <<>>
    <3>1. X = 0
      BY <2>1, SmallLists
    <3>2. N = 0
      BY <1>6, <1>7, <3>1
    <3> QED BY <1>9, <3>1, <3>2
  <2>2. CASE x # <<>>
    <3>1. X # 0
      BY <2>2, SmallLists
    <3>2. 1 \in 1..X /\ x[1] = Slash
      BY <1>0, <2>2, <3>1
    <3>3. PICK n \in 1..N : pl[n] = 1
      BY <1>8, <3>2
    <3>4. ~(1 < n)
      <4> SUFFICES ASSUME 1 < n PROVE FALSE
        OBVIOUS
      <4>1. 1 \in 1..N /\ pl[1] < pl[n] /\ pl[1] \in 1..X
        BY <1>6, <1>7
      <4> QED BY <1>0, <3>3, <4>1
    <3>5. n = 1 /\ 1 \in 1..N
      BY <1>6, <3>4
    <3> QED BY <1>9, <3>3, <3>5
  <2> QED BY <2>1, <2>2
<1>11. ASSUME NEW n \in 1..N
       PROVE  /\ at[n] \in 1..X /\ at[n + 1] \in (at[n] + 1)..X + 1
              /\ NextSlash(x, at[n] + 1) = at[n + 1]
              /\ x[at[n]] = Slash
              /\ \A k \in (at[n] + 1)..at[n + 1] - 1 : x[k] # Slash
  <2> DEFINE a == at[n]
             b == at[n + 1]
  <2>1. a = pl[n] /\ a \in 1..X /\ x[a] = Slash
    BY <1>7, <1>9
  <2>2. b \in (a + 1)..X + 1 /\ (b <= X => x[b] = Slash)
    <3>1. CASE n = N
      BY <1>0, <1>9, <2>1, <3>1
    <3>2. CASE n # N
      <4>1. n \in 1..N - 1 /\ n + 1 \in 1..N /\ n < n + 1
        BY <1>6, <3>2
      <4>2. b = pl[n + 1] /\ b \in 1..X /\ x[b] = Slash /\ pl[n] < pl[n + 1]
        BY <1>6, <1>7, <1>9, <4>1
      <4> QED BY <1>0, <2>1, <4>2
    <3> QED BY <3>1, <3>2
  <2> HIDE DEF a, b
  <2>3. ASSUME NEW k \in (a + 1)..b - 1 PROVE x[k] # Slash
    <3> SUFFICES ASSUME x[k] = Slash PROVE FALSE
      OBVIOUS
    <3>1. k \in 1..X /\ a < k /\ k < b
      BY <1>0, <2>1, <2>2
    <3>2. PICK m \in 1..N : pl[m] = k
      BY <1>8, <3>1
    <3>3. ~(m <= n)
      <4> SUFFICES ASSUME m <= n PROVE FALSE
        OBVIOUS
      <4>1. m = n \/ m < n
        BY <1>6
      <4>2. pl[m] = a \/ pl[m] < a
        BY <1>6, <2>1, <4>1
      <4> QED BY <2>1, <3>1, <3>2, <4>2
    <3>4. n \in 1..N - 1 /\ n + 1 \in 1..N /\ (m = n + 1 \/ n + 1 < m)
      BY <1>6, <3>3
    <3>5. b = pl[n + 1]
      BY <1>9, <3>4 DEF b
    <3>6. pl[m] = b \/ b < pl[m]
      BY <1>6, <3>4, <3>5
    <3> QED BY <2>2, <3>1, <3>2, <3>6
  <2>4. NextSlash(x, a + 1) = b
    <3>1. a + 1 \in 1..Len(x) + 1 /\ b \in (a + 1)..Len(x) + 1
      BY <1>0, <2>1, <2>2
    <3> QED BY <2>2, <2>3, <3>1, NextSlashFacts
  <2> QED BY <2>1, <2>2, <2>3, <2>4 DEF a, b
<1>12. ASSUME NEW n \in 1..N
       PROVE  /\ IsList(s[n]) /\ at[n + 1] = at[n] + 1 + Len(s[n])
              /\ \A k \in 1..Len(s[n]) : x[at[n] + k] = s[n][k] /\ s[n][k] # Slash
  <2> DEFINE a == at[n]
             b == at[n + 1]
             u == s[n]
             M == b - (a + 1)
  <2>1. /\ a \in 1..X /\ b \in (a + 1)..X + 1 /\ NextSlash(x, a + 1) = b
        /\ \A k \in (a + 1)..b - 1 : x[k] # Slash
    BY <1>11
  <2>2. u = SubSeq(x, a + 1, b - 1)
    <3>1. u = z[pl[n]] /\ pl[n] = a
      BY <1>5, <1>9
    <3>2. z[a] = SubSeq(x, a + 1, NextSlash(x, a + 1) - 1)
      BY <1>2, <2>1
    <3> QED BY <2>1, <3>1, <3>2
  <2> HIDE DEF a, b, u
  <2>3. x \in Seq(ToSet(x)) /\ a + 1 \in 1..Len(x) + 1 /\ b - 1 \in a..Len(x) /\ M \in Nat
    BY <1>0, <2>1 DEF IsList
  <2>4. u = [k \in 1..M |-> x[a + k]]
    BY <1>0, <2>1, <2>2, <2>3
  <2> HIDE DEF M
  <2>5. u = [k \in 1..M |-> u[k]] /\ \A k \in 1..M : u[k] = x[a + k]
    BY <2>4
  <2>6. IsList(u) /\ Len(u) = M
    BY <2>3, <2>5, FunctionIsList
  <2>7. b = a + 1 + M /\ \A k \in 1..M : a + k \in (a + 1)..b - 1
    BY <1>0, <2>1 DEF M
  <2> QED BY <2>1, <2>5, <2>6, <2>7, ZenonT(60) DEF a, b, u
<1>13. IsCut(x, s, at)
  BY <1>6, <1>9, <1>10, <1>11, <1>12 DEF IsCut
<1> QED BY <1>13 DEF s

-----------------------------------------------------------------------------
(* Targets: what comes before the question mark begins with a slash. *)

(* The form of a target: a list that begins with a slash or the question mark, if
   it is not empty. *)
IsTarget(x) == IsList(x) /\ (x = <<>> \/ x[1] = Slash \/ x[1] = Mark)

LEMMA TokensDiffer == Slash # Mark /\ Slash # Hole /\ Mark # Hole
<1>1. "/" # "?" /\ TRUE # FALSE
  OBVIOUS
<1>2. Slash.text = "/" /\ Mark.text = "?" /\ Slash.ph = FALSE /\ Mark.ph = FALSE /\ Hole.ph = TRUE
  BY DEF Slash, Mark, Hole, Text, Placeholder
<1> QED BY <1>1, <1>2

(* The path of it begins with a slash, if it is not empty. *)
LEMMA PathOfTarget ==
    ASSUME NEW x, IsTarget(x)
    PROVE  IsList(Path(x)) /\ (Path(x) = <<>> \/ Path(x)[1] = Slash)
<1> DEFINE marks == {k \in DOMAIN x : x[k] = Mark}
           m == CHOOSE k \in marks : \A n \in marks : k <= n
<1>0. IsList(x) /\ Len(x) \in Nat /\ DOMAIN x = 1..Len(x) /\ x \in Seq(ToSet(x))
  BY ListFacts DEF IsTarget, IsList
<1>1. Path(x) = IF marks = {} THEN x ELSE SubSeq(x, 1, m - 1)
  BY DEF Path
<1>2. \A k \in 1..Len(x) : k \in marks <=> x[k] = Mark
  BY <1>0
<1>3. marks \in SUBSET Nat /\ marks \subseteq 1..Len(x)
  BY <1>0
<1> HIDE DEF marks
<1>4. marks # {} => m \in marks
  <2>1. marks # {} => \E k \in marks : \A n \in marks : k <= n
    BY <1>3, NatMin
  <2> QED BY <2>1, Zenon
<1> HIDE DEF m
<1>5. CASE marks = {}
  <2>1. x # <<>> => x[1] # Mark
    <3> SUFFICES ASSUME x # <<>> PROVE x[1] # Mark
      OBVIOUS
    <3>1. Len(x) # 0
      BY <1>0, SmallLists
    <3>2. 1 \in 1..Len(x)
      BY <1>0, <3>1
    <3> QED BY <1>2, <1>5, <3>2
  <2> QED BY <1>0, <1>1, <1>5, <2>1 DEF IsTarget
<1>6. CASE marks # {}
  <2>1. m \in 1..Len(x) /\ x[m] = Mark
    BY <1>2, <1>3, <1>4, <1>6
  <2>2. m - 1 \in 0..Len(x)
    BY <1>0, <2>1
  <2> DEFINE u == SubSeq(x, 1, m - 1)
             M == m - 1
  <2>3. u = [k \in 1..M |-> x[k]]
    BY <1>0, <2>1, <2>2
  <2>4. M \in Nat
    BY <2>2
  <2> HIDE DEF u, M
  <2>5. u = [k \in 1..M |-> u[k]] /\ \A k \in 1..M : u[k] = x[k]
    BY <2>3
  <2>6. IsList(u) /\ Len(u) = M
    BY <2>4, <2>5, FunctionIsList
  <2>7. CASE M = 0
    <3>1. u = <<>>
      BY <2>6, <2>7, SmallLists
    <3> QED BY <1>1, <1>6, <2>6, <3>1 DEF u
  <2>8. CASE M # 0
    <3>1. u[1] = x[1] /\ m # 1
      BY <2>1, <2>4, <2>5, <2>8 DEF M
    <3>2. x # <<>>
      BY <1>0, <2>1, SmallLists
    <3>3. x[1] = Slash
      <4>1. 1 \in 1..Len(x)
        BY <1>0, <2>1
      <4>2. \A n \in marks : m <= n
        <5>1. \E k \in marks : \A n \in marks : k <= n
          BY <1>3, <1>6, NatMin
        <5> QED BY <5>1, Zenon DEF m
      <4>3. x[1] # Mark
        <5> SUFFICES ASSUME x[1] = Mark PROVE FALSE
          OBVIOUS
        <5>1. 1 \in marks
          BY <1>2, <4>1
        <5>2. m <= 1
          BY <4>2, <5>1
        <5> QED BY <1>0, <2>1, <3>1, <5>2
      <4> QED BY <3>2, <4>3 DEF IsTarget
    <3> QED BY <1>1, <1>6, <2>6, <3>1, <3>3 DEF u
  <2> QED BY <2>7, <2>8
<1> QED BY <1>5, <1>6

(* Filling a placeholder of something that begins with a slash. *)
LEMMA FillKeeps ==
    ASSUME NEW x, IsList(x), x = <<>> \/ x[1] = Slash, NEW v, IsList(v)
    PROVE  IsList(FillHole(x, v)) /\ (FillHole(x, v) = <<>> \/ FillHole(x, v)[1] = Slash)
<1> DEFINE holes == {k \in DOMAIN x : x[k] = Hole}
           h == CHOOSE k \in holes : \A n \in holes : k <= n
           a == SubSeq(x, 1, h - 1)
           b == SubSeq(x, h + 1, Len(x))
<1>0. Len(x) \in Nat /\ DOMAIN x = 1..Len(x) /\ x \in Seq(ToSet(x))
  BY ListFacts DEF IsList
<1>1. FillHole(x, v) = IF holes = {} THEN x ELSE (a \o v) \o b
  BY DEF FillHole
<1>2. CASE holes = {}
  BY <1>1, <1>2
<1>3. CASE holes # {}
  <2>1. h \in 1..Len(x) /\ x[h] = Hole
    <3>1. holes \in SUBSET Nat /\ \A k \in holes : k \in 1..Len(x) /\ x[k] = Hole
      BY <1>0
    <3> HIDE DEF holes
    <3>2. \E k \in holes : \A n \in holes : k <= n
      BY <1>3, <3>1, NatMin
    <3>3. h \in holes
      BY <3>2, Zenon
    <3> QED BY <3>1, <3>3
  <2> HIDE DEF holes, h
  <2>2. x # <<>>
    BY <1>0, <2>1, SmallLists
  <2>3. x[1] = Slash /\ h # 1
    BY <2>1, <2>2, TokensDiffer
  <2> DEFINE M == h - 1
  <2>4. M \in 1..Len(x) /\ M \in Nat
    BY <1>0, <2>1, <2>3
  <2>5. a = [k \in 1..M |-> x[k]]
    BY <1>0, <2>1, <2>4
  <2>6. IsList(b)
    <3>1. b \in Seq(ToSet(x))
      BY <1>0, <2>1
    <3> QED BY <3>1, SeqIsList
  <2> HIDE DEF a, b, M
  <2>7. a = [k \in 1..M |-> a[k]] /\ a[1] = x[1]
    BY <2>4, <2>5
  <2>8. IsList(a) /\ Len(a) = M /\ 1 \in 1..Len(a)
    <3>1. IsList(a) /\ Len(a) = M
      BY <2>4, <2>7, FunctionIsList
    <3> QED BY <2>4, <3>1
  <2> DEFINE c == a \o v
  <2>9. IsList(c) /\ 1 \in 1..Len(c) /\ c[1] = a[1]
    <3>1. IsList(a) /\ IsList(v)
      BY <2>8
    <3>2. IsList(a \o v) /\ Len(a \o v) = Len(a) + Len(v) /\ Len(v) \in Nat
      BY <3>1, ConcatFacts, ListFacts
    <3>3. \A k \in 1..Len(a) : (a \o v)[k] = a[k]
      BY <3>1, ConcatFacts
    <3>4. Len(a) \in Nat
      BY <3>1, ListFacts
    <3> HIDE DEF c
    <3>5. IsList(c) /\ Len(c) = Len(a) + Len(v) /\ \A k \in 1..Len(a) : c[k] = a[k]
      BY <3>2, <3>3 DEF c
    <3> QED BY <2>8, <3>2, <3>4, <3>5
  <2> HIDE DEF c
  <2>10. IsList(c \o b) /\ (c \o b)[1] = c[1]
    <3>1. IsList(c) /\ IsList(b)
      BY <2>6, <2>9
    <3>2. IsList(c \o b)
      BY <3>1, ConcatFacts
    <3>3. \A k \in 1..Len(c) : (c \o b)[k] = c[k]
      BY <3>1, ConcatFacts
    <3> QED BY <2>9, <3>2, <3>3
  <2>11. FillHole(x, v) = c \o b
    BY <1>1, <1>3 DEF c
  <2>12. (c \o b)[1] = Slash
    BY <2>3, <2>7, <2>9, <2>10
  <2> DEFINE r == c \o b
  <2> HIDE DEF r
  <2>13. FillHole(x, v) = r /\ IsList(r) /\ r[1] = Slash
    BY <2>10, <2>11, <2>12 DEF r
  <2> QED BY <2>13
<1> QED BY <1>2, <1>3

(* The loop that fills the placeholders has a course. *)
Course(f, len, tokens, args, places) ==
    f = [n \in 0..len |-> IF n = 0 THEN tokens ELSE FillHole(f[n - 1], args[places[n]])]

LEMMA FillExists ==
    ASSUME NEW L \in Nat, NEW T, NEW args, NEW places
    PROVE  \E f : Course(f, L, T, args, places)
<1> DEFINE Step(f, n) == IF n = 0 THEN T ELSE FillHole(f[n - 1], args[places[n]])
           Has(m) == \E f : f = [n \in 0..m |-> Step(f, n)]
           G == {m \in Nat : Has(m)}
<1>1. Has(0)
  <2> DEFINE g == [n \in 0..0 |-> T]
  <2>1. g = [n \in 0..0 |-> Step(g, n)]
    OBVIOUS
  <2> QED BY <2>1
<1>2. ASSUME NEW m \in Nat, NEW f, f = [n \in 0..m |-> Step(f, n)]
      PROVE  Has(m + 1)
  <2> DEFINE g == [n \in 0..m + 1 |-> Step(f, n)]
  <2>1. ASSUME NEW n \in 0..m PROVE f[n] = g[n]
    <3>1. n \in 0..m + 1
      OBVIOUS
    <3>2. f[n] = Step(f, n)
      BY <1>2
    <3> HIDE DEF Step
    <3> QED BY <3>1, <3>2
  <2>2. ASSUME NEW n \in 0..m + 1 PROVE Step(f, n) = Step(g, n)
    <3>1. CASE n = 0
      BY <3>1
    <3>2. CASE n # 0
      <4>1. n - 1 \in 0..m
        BY <3>2
      <4>2. f[n - 1] = g[n - 1]
        BY <2>1, <4>1
      <4> HIDE DEF g
      <4> QED BY <4>2
    <3> QED BY <3>1, <3>2
  <2>3. g = [n \in 0..m + 1 |-> Step(g, n)]
    <3> HIDE DEF Step
    <3>1. g = [n \in 0..m + 1 |-> Step(f, n)]
      OBVIOUS
    <3> HIDE DEF g
    <3> QED BY <2>2, <3>1
  <2> QED BY <2>3
<1> HIDE DEF Step
<1>3. Nat \subseteq G
  <2>1. 0 \in G
    BY <1>1
  <2>2. ASSUME NEW m \in Nat, m \in G PROVE m + 1 \in G
    BY <1>2, <2>2
  <2> HIDE DEF G
  <2> QED BY <2>1, <2>2, SetInduction
<1>4. Has(L)
  BY <1>3
<1> QED BY <1>4 DEF Step, Course

(* The course of emitPathParams' replacements. *)
LEMMA TargetPathIs ==
    ASSUME NEW e, NEW args, NEW pl, pl = Places(e, "path"), Len(pl) \in Nat
    PROVE  \E f : /\ TargetPath(e, args) = f[Len(pl)] /\ f[0] = Tokens(e.path_template)
                  /\ \A n \in 1..Len(pl) : f[n] = FillHole(f[n - 1], args[pl[n]])
<1> DEFINE T == Tokens(e.path_template)
           g == CHOOSE f : Course(f, Len(pl), T, args, pl)
<1>1. Course(g, Len(pl), T, args, pl)
  <2>1. \E f : Course(f, Len(pl), T, args, pl)
    BY FillExists
  <2> QED BY <2>1, Zenon
<1>2. TargetPath(e, args) = g[Len(pl)]
  BY Zenon DEF TargetPath, Course
<1> HIDE DEF g
<1>3. g[0] = Tokens(e.path_template) /\ \A n \in 1..Len(pl) : g[n] = FillHole(g[n - 1], args[pl[n]])
  BY <1>1 DEF Course
<1> QED BY <1>2, <1>3

(* A template has the form of its path: placeholders stay placeholders, and texts
   stay as they are. *)
LEMMA TemplateFacts ==
    ASSUME NEW p, IsPath(p), NEW names
    PROVE  LET t == PathTemplate(p, names)
           IN /\ IsList(t) /\ Len(t) = Len(p)
              /\ \A i \in 1..Len(p) :
                    /\ IsList(t[i]) /\ Len(t[i]) = Len(p[i]) /\ IsList(p[i])
                    /\ \A k \in 1..Len(p[i]) :
                          /\ t[i][k] = IF p[i][k].ph /\ p[i][k].text \in names THEN Hole ELSE p[i][k]
                          /\ t[i][k] # Slash /\ t[i][k] # Mark
<1> DEFINE t == PathTemplate(p, names)
           In(i, k) == IF p[i][k].ph /\ p[i][k].text \in names THEN Hole ELSE p[i][k]
<1>1. /\ IsList(p) /\ Len(p) \in Nat /\ DOMAIN p = 1..Len(p)
      /\ \A i \in 1..Len(p) :
            /\ IsList(p[i])
            /\ \A k \in 1..Len(p[i]) : p[i][k] \in Token /\ p[i][k] # Slash /\ p[i][k] # Mark
  BY PathFacts, ListFacts
<1>2. /\ t = [i \in 1..Len(p) |-> t[i]]
      /\ \A i \in 1..Len(p) : t[i] = [k \in DOMAIN p[i] |-> In(i, k)]
  BY <1>1 DEF PathTemplate
<1> HIDE DEF t
<1>3. IsList(t) /\ Len(t) = Len(p)
  BY <1>1, <1>2, FunctionIsList
<1>4. ASSUME NEW i \in 1..Len(p)
      PROVE  /\ IsList(t[i]) /\ Len(t[i]) = Len(p[i]) /\ IsList(p[i])
             /\ \A k \in 1..Len(p[i]) :
                   t[i][k] = In(i, k) /\ t[i][k] # Slash /\ t[i][k] # Mark
  <2> DEFINE u == t[i]
             M == Len(p[i])
  <2>1. M \in Nat /\ DOMAIN p[i] = 1..M /\ IsList(p[i])
    BY <1>1, ListFacts
  <2>2. u = [k \in 1..M |-> In(i, k)]
    BY <1>2, <2>1
  <2>3. \A k \in 1..M : In(i, k) # Slash /\ In(i, k) # Mark
    <3>1. Hole # Slash /\ Hole # Mark
      BY TokensDiffer
    <3> QED BY <1>1, <3>1
  <2> HIDE DEF u, M, In
  <2>4. u = [k \in 1..M |-> u[k]] /\ \A k \in 1..M : u[k] = In(i, k)
    BY <2>2
  <2>5. IsList(u) /\ Len(u) = M
    BY <2>1, <2>4, FunctionIsList
  <2> QED BY <2>1, <2>3, <2>4, <2>5 DEF u, M
<1> QED BY <1>3, <1>4 DEF t

(* The tokens of a list of lists: each segment's, behind a slash. *)
LEMMA TokensFacts ==
    ASSUME NEW p, IsList(p), \A i \in 1..Len(p) : IsList(p[i])
    PROVE  /\ IsList(Tokens(p)) /\ (Tokens(p) = <<>> \/ Tokens(p)[1] = Slash)
           /\ ToSet(Tokens(p)) = UNION {{Slash} \cup ToSet(p[i]) : i \in 1..Len(p)}
<1> DEFINE ss == [i \in DOMAIN p |-> <<Slash>> \o p[i]]
           N == Len(p)
<1>0. N \in Nat /\ DOMAIN p = 1..N
  BY ListFacts
<1>1. ss = [i \in 1..N |-> ss[i]] /\ \A i \in 1..N : ss[i] = <<Slash>> \o p[i]
  BY <1>0
<1>t. Tokens(p) = FlattenSeq(ss)
  BY DEF Tokens
<1> HIDE DEF ss
<1>2. ASSUME NEW i \in 1..N
      PROVE  /\ IsList(ss[i]) /\ ss[i][1] = Slash /\ 1 \in 1..Len(ss[i])
             /\ ToSet(ss[i]) = {Slash} \cup ToSet(p[i])
  <2> DEFINE u == <<Slash>>
             v == p[i]
  <2>1. IsList(u) /\ IsList(v)
    BY SmallLists
  <2>2. Len(u) = 1 /\ u[1] = Slash /\ ToSet(u) = {Slash} /\ Len(v) \in Nat
    BY <2>1, SmallLists, ListFacts
  <2> HIDE DEF u, v
  <2>3. IsList(u \o v) /\ Len(u \o v) = Len(u) + Len(v) /\ ToSet(u \o v) = ToSet(u) \cup ToSet(v)
    BY <2>1, ConcatFacts
  <2>4. \A k \in 1..Len(u) : (u \o v)[k] = u[k]
    BY <2>1, ConcatFacts
  <2>5. ss[i] = u \o v
    BY <1>1 DEF u, v
  <2> DEFINE w == u \o v
  <2> HIDE DEF w
  <2>6. ss[i] = w /\ IsList(w) /\ Len(w) = 1 + Len(v) /\ w[1] = Slash /\ ToSet(w) = {Slash} \cup ToSet(v)
    BY <2>2, <2>3, <2>4, <2>5 DEF w
  <2> QED BY <2>2, <2>6 DEF v
<1>3. IsList(ss) /\ Len(ss) = N
  BY <1>0, <1>1, FunctionIsList
<1>4. IsListOfLists(ss)
  BY <1>2, <1>3 DEF IsListOfLists
<1>5. /\ IsList(FlattenSeq(ss))
      /\ ToSet(FlattenSeq(ss)) = UNION {ToSet(ss[i]) : i \in 1..Len(ss)}
  BY <1>4, FlattenFacts
<1>6. UNION {ToSet(ss[i]) : i \in 1..Len(ss)} = UNION {{Slash} \cup ToSet(p[i]) : i \in 1..N}
  <2>1. \A i \in 1..N : ToSet(ss[i]) = {Slash} \cup ToSet(p[i])
    BY <1>2
  <2> DEFINE A(i) == ToSet(ss[i])
             B(i) == {Slash} \cup ToSet(p[i])
  <2>2. \A i \in 1..N : A(i) = B(i)
    BY <2>1
  <2> HIDE DEF A, B
  <2>3. UNION {A(i) : i \in 1..N} = UNION {B(i) : i \in 1..N}
    BY <2>2
  <2> QED BY <1>3, <2>3, Zenon DEF A, B
<1>7. Tokens(p) = <<>> \/ Tokens(p)[1] = Slash
  <2> DEFINE Flat(n) == FlattenSeq(UpTo(ss, n))
             G == {n \in Nat : n <= N => IsList(Flat(n)) /\ (Flat(n) = <<>> \/ Flat(n)[1] = Slash)}
  <2>1. Flat(0) = <<>> /\ Flat(N) = Tokens(p)
    BY <1>3, <1>4, <1>t, FlattenSteps
  <2>2. ASSUME NEW n \in Nat, n + 1 <= N
        PROVE  Flat(n + 1) = Flat(n) \o ss[n + 1] /\ n <= N /\ n + 1 \in 1..N
    <3>1. n \in 0..N - 1 /\ n <= N /\ n + 1 \in 1..N
      BY <1>0, <2>2
    <3>2. \A m \in 0..Len(ss) - 1 :
              FlattenSeq(UpTo(ss, m + 1)) = FlattenSeq(UpTo(ss, m)) \o ss[m + 1]
      BY <1>4, FlattenSteps
    <3> QED BY <1>3, <3>1, <3>2
  <2> HIDE DEF Flat
  <2>3. 0 \in G
    BY <2>1, SmallLists
  <2>4. ASSUME NEW n \in Nat, n \in G PROVE n + 1 \in G
    <3> SUFFICES ASSUME n + 1 <= N
                 PROVE  IsList(Flat(n + 1)) /\ (Flat(n + 1) = <<>> \/ Flat(n + 1)[1] = Slash)
      OBVIOUS
    <3> DEFINE a == Flat(n)
               b == ss[n + 1]
               c == Flat(n + 1)
    <3>1. c = a \o b /\ IsList(a) /\ (a = <<>> \/ a[1] = Slash)
      BY <2>2, <2>4
    <3>2. IsList(b) /\ b[1] = Slash
      BY <1>2, <2>2
    <3> HIDE DEF a, b, c
    <3>3. IsList(c)
      BY <3>1, <3>2, ConcatFacts
    <3>4. CASE a = <<>>
      <4>1. c = b
        BY <3>1, <3>2, <3>4, SmallLists
      <4> QED BY <3>2, <3>3, <4>1 DEF c
    <3>5. CASE a # <<>>
      <4>1. Len(a) # 0 /\ Len(a) \in Nat
        BY <3>1, <3>5, SmallLists, ListFacts
      <4>2. 1 \in 1..Len(a)
        BY <4>1
      <4>3. IsList(a) /\ IsList(b)
        BY <3>1, <3>2
      <4>4. \A k \in 1..Len(a) : (a \o b)[k] = a[k]
        BY <4>3, ConcatFacts
      <4>5. c[1] = a[1]
        BY <3>1, <4>2, <4>4
      <4> QED BY <3>1, <3>3, <3>5, <4>5 DEF c
    <3> QED BY <3>4, <3>5
  <2>5. Nat \subseteq G
    <3> HIDE DEF G
    <3> QED BY <2>3, <2>4, SetInduction
  <2> QED BY <1>0, <2>1, <2>5
<1> QED BY <1>5, <1>6, <1>7, <1>t

(* The segments make the target. *)
LEMMA CutSame ==
    ASSUME NEW x, NEW s, NEW at, IsCut(x, s, at), NEW y, NEW bt, IsCut(y, s, bt)
    PROVE  x = y
<1>0. /\ Len(s) \in Nat /\ Len(x) \in Nat /\ Len(y) \in Nat /\ IsList(x) /\ IsList(y)
      /\ at[1] = 1 /\ bt[1] = 1 /\ at[Len(s) + 1] = Len(x) + 1 /\ bt[Len(s) + 1] = Len(y) + 1
  BY ListFacts DEF IsCut
<1>1. \A n \in 1..Len(s) : /\ Len(s[n]) \in Nat
                           /\ at[n] \in Nat /\ at[n + 1] = at[n] + 1 + Len(s[n])
                           /\ bt[n + 1] = bt[n] + 1 + Len(s[n])
                           /\ x[at[n]] = y[bt[n]]
                           /\ \A k \in 1..Len(s[n]) : x[at[n] + k] = y[bt[n] + k]
  <2> SUFFICES ASSUME NEW n \in 1..Len(s)
               PROVE  /\ Len(s[n]) \in Nat
                      /\ at[n] \in Nat /\ at[n + 1] = at[n] + 1 + Len(s[n])
                      /\ bt[n + 1] = bt[n] + 1 + Len(s[n])
                      /\ x[at[n]] = y[bt[n]]
                      /\ \A k \in 1..Len(s[n]) : x[at[n] + k] = y[bt[n] + k]
    OBVIOUS
  <2>1. IsList(s[n]) /\ at[n] \in 1..Len(x) /\ at[n + 1] = at[n] + 1 + Len(s[n]) /\ x[at[n]] = Slash
    BY DEF IsCut
  <2>2. bt[n + 1] = bt[n] + 1 + Len(s[n]) /\ y[bt[n]] = Slash
    BY DEF IsCut
  <2>3. \A k \in 1..Len(s[n]) : x[at[n] + k] = s[n][k]
    BY DEF IsCut
  <2>4. \A k \in 1..Len(s[n]) : y[bt[n] + k] = s[n][k]
    BY DEF IsCut
  <2>5. Len(s[n]) \in Nat /\ at[n] \in Nat
    BY <1>0, <2>1, ListFacts
  <2>6. \A k \in 1..Len(s[n]) : x[at[n] + k] = y[bt[n] + k]
    BY <2>3, <2>4
  <2> QED BY <2>1, <2>2, <2>5, <2>6
<1> DEFINE Same(n) == /\ at[n + 1] = bt[n + 1] /\ at[n + 1] \in Nat
                      /\ \A k \in 1..at[n + 1] - 1 : x[k] = y[k]
           G == {n \in Nat : n <= Len(s) => Same(n)}
<1>2. 0 \in G
  BY <1>0
<1>3. ASSUME NEW n \in Nat, n \in G PROVE n + 1 \in G
  <2> SUFFICES ASSUME n + 1 <= Len(s) PROVE Same(n + 1)
    OBVIOUS
  <2> DEFINE a == at[n + 1]
             b == at[(n + 1) + 1]
             c == bt[(n + 1) + 1]
             L == Len(s[n + 1])
  <2>1. n + 1 \in 1..Len(s) /\ n <= Len(s)
    BY <1>0
  <2>2. a = bt[n + 1] /\ a \in Nat /\ \A k \in 1..a - 1 : x[k] = y[k]
    BY <1>3, <2>1
  <2>3. /\ L \in Nat /\ b = a + 1 + L /\ c = a + 1 + L
        /\ x[a] = y[a] /\ \A k \in 1..L : x[a + k] = y[a + k]
    BY <1>1, <2>1, <2>2
  <2> HIDE DEF a, b, c, L
  <2>4. ASSUME NEW k \in 1..b - 1 PROVE x[k] = y[k]
    <3>1. b = a + 1 + L /\ a \in Nat /\ L \in Nat /\ k \in Nat /\ k <= a + L /\ 1 <= k
      BY <2>2, <2>3
    <3>2. CASE k < a
      <4>1. k \in 1..a - 1
        BY <3>1, <3>2
      <4> QED BY <2>2, <4>1
    <3>3. CASE k = a
      BY <2>3, <3>3
    <3>4. CASE k > a
      <4> DEFINE j == k - a
      <4>1. j \in 1..L /\ k = a + j
        BY <3>1, <3>4
      <4> HIDE DEF j
      <4> QED BY <2>3, <4>1
    <3> QED BY <3>1, <3>2, <3>3, <3>4
  <2>5. b = c /\ b \in Nat
    BY <2>2, <2>3
  <2> QED BY <2>4, <2>5 DEF b, c
<1>4. Nat \subseteq G
  <2> HIDE DEF G
  <2> QED BY <1>2, <1>3, SetInduction
<1>5. Same(Len(s))
  BY <1>0, <1>4
<1>6. Len(x) = Len(y)
  BY <1>0, <1>5
<1>7. ASSUME NEW k \in 1..Len(x) PROVE x[k] = y[k]
  <2>1. k \in 1..at[Len(s) + 1] - 1
    BY <1>0
  <2> QED BY <1>5, <2>1
<1> QED BY <1>0, <1>6, <1>7, ListEqual

(* The template of an endpoint has the segments that it is written with. *)
LEMMA TemplateCut ==
    ASSUME NEW e, WellFormed(e)
    PROVE  /\ \E at : IsCut(Tokens(e.path_template), e.path_template, at)
           /\ \E at : IsCut(Tokens(e.path), e.path, at)
<1> DEFINE p == e.path
           names == {q.name : q \in ToSet(At(e.params, "path"))}
           t == e.path_template
<1>1. IsPath(p) /\ t = PathTemplate(p, names)
  BY DEF WellFormed
<1> HIDE DEF p, names, t
<1>2. /\ IsList(p)
      /\ \A i \in 1..Len(p) : IsList(p[i]) /\ \A k \in 1..Len(p[i]) : p[i][k] # Slash
  BY <1>1, PathFacts
<1>3. /\ IsList(t) /\ Len(t) = Len(p)
      /\ \A i \in 1..Len(p) : IsList(t[i]) /\ Len(t[i]) = Len(p[i])
                                /\ \A k \in 1..Len(p[i]) : t[i][k] # Slash
  BY <1>1, TemplateFacts
<1>4. \A i \in 1..Len(t) : IsList(t[i]) /\ \A k \in 1..Len(t[i]) : t[i][k] # Slash
  BY <1>3
<1>5. \E at : IsCut(Tokens(t), t, at)
  BY <1>3, <1>4, TokensCut
<1>6. \E at : IsCut(Tokens(p), p, at)
  BY <1>2, TokensCut
<1> QED BY <1>5, <1>6 DEF p, t

(* match_path on the template of an endpoint and a target. *)
LEMMA MatchTarget ==
    ASSUME NEW e, WellFormed(e), NEW x, IsTarget(x)
    PROVE  MatchPath(Tokens(e.path_template), Path(x))
             <=> MatchesSegments(e.path_template, Segments(Path(x)))
<1> DEFINE y == Path(x)
           t == e.path_template
<1>1. PICK at : IsCut(Tokens(t), t, at)
  BY TemplateCut
<1>2. IsList(y) /\ (y = <<>> \/ y[1] = Slash)
  BY PathOfTarget
<1> HIDE DEF y, t
<1>3. PICK bt : IsCut(y, Segments(y), bt)
  BY <1>2, SegmentsCut
<1>4. MatchPath(Tokens(t), y) <=> MatchesSegments(t, Segments(y))
  BY <1>1, <1>3, MatchCut
<1> QED BY <1>4 DEF y, t

(* The places of the arguments are places of parameters. *)
LEMMA ArgumentPlaces ==
    ASSUME NEW e, WellFormed(e), NEW location
    PROVE  /\ IsList(Places(e, location)) /\ Len(Places(e, location)) \in Nat
           /\ \A n \in 1..Len(Places(e, location)) : Places(e, location)[n] \in DOMAIN e.params
<1> DEFINE s == [k \in DOMAIN e.params |-> k]
           S == {k \in DOMAIN e.params : e.params[k].location = location}
           pl == Places(e, location)
<1>1. Len(e.params) \in Nat /\ DOMAIN e.params = 1..Len(e.params)
  BY ListFacts DEF WellFormed
<1>2. s = [k \in 1..Len(e.params) |-> s[k]]
  BY <1>1
<1>3. pl = Keep(s, S)
  BY DEF Places
<1>4. S \subseteq DOMAIN e.params
  OBVIOUS
<1> HIDE DEF s, S, pl
<1>5. IsList(s)
  BY <1>1, <1>2, FunctionIsList
<1>6. IsList(pl) /\ ToSet(pl) \subseteq S
  BY <1>3, <1>5, KeepFacts
<1>7. Len(pl) \in Nat /\ DOMAIN pl = 1..Len(pl)
  BY <1>6, ListFacts
<1>8. \A n \in 1..Len(pl) : pl[n] \in ToSet(pl)
  BY <1>7 DEF ToSet
<1>9. \A n \in 1..Len(pl) : pl[n] \in DOMAIN e.params
  BY <1>4, <1>6, <1>8
<1> QED BY <1>6, <1>7, <1>9 DEF pl

LEMMA ArgumentsAreLists ==
    ASSUME NEW e, NEW args \in ArgumentLists(e), NEW k \in DOMAIN e.params
    PROVE  IsList(args[k])
<1>1. args[k] \in Values \cup {<<>>}
  BY DEF ArgumentLists
<1>2. args[k] \in Values => args[k] \in Seq(Token)
  BY RequestsAssumption
<1> QED BY <1>1, <1>2, SeqIsList, SmallLists

(* The path that emitPathParams fills in begins with a slash, if it is not empty. *)
LEMMA TargetPathFacts ==
    ASSUME NEW e, WellFormed(e), NEW args \in ArgumentLists(e)
    PROVE  IsList(TargetPath(e, args)) /\ (TargetPath(e, args) = <<>> \/ TargetPath(e, args)[1] = Slash)
<1> DEFINE pl == Places(e, "path")
           T == Tokens(e.path_template)
           p == e.path
           names == {q.name : q \in ToSet(At(e.params, "path"))}
           t == e.path_template
           Good(x) == IsList(x) /\ (x = <<>> \/ x[1] = Slash)
<1>1. IsPath(p) /\ t = PathTemplate(p, names)
  BY DEF WellFormed
<1>2. Good(T)
  <2> HIDE DEF p, names, t
  <2>1. IsList(t) /\ Len(t) = Len(p) /\ \A i \in 1..Len(p) : IsList(t[i])
    BY <1>1, TemplateFacts
  <2>2. IsList(Tokens(t)) /\ (Tokens(t) = <<>> \/ Tokens(t)[1] = Slash)
    BY <2>1, TokensFacts
  <2> QED BY <2>2 DEF t
<1>3. Len(pl) \in Nat /\ \A n \in 1..Len(pl) : pl[n] \in DOMAIN e.params
  BY ArgumentPlaces
<1>4. \A n \in 1..Len(pl) : IsList(args[pl[n]])
  BY <1>3, ArgumentsAreLists
<1>5. PICK f : /\ TargetPath(e, args) = f[Len(pl)] /\ f[0] = T
               /\ \A n \in 1..Len(pl) : f[n] = FillHole(f[n - 1], args[pl[n]])
  BY <1>3, TargetPathIs
<1> DEFINE G == {n \in Nat : n <= Len(pl) => Good(f[n])}
<1> HIDE DEF pl, T
<1>6. 0 \in G
  BY <1>2, <1>5
<1>7. ASSUME NEW n \in Nat, n \in G PROVE n + 1 \in G
  <2> SUFFICES ASSUME n + 1 <= Len(pl) PROVE Good(f[n + 1])
    OBVIOUS
  <2>1. n + 1 \in 1..Len(pl) /\ n <= Len(pl) /\ (n + 1) - 1 = n
    BY <1>3
  <2>2. Good(f[n])
    BY <1>7, <2>1
  <2> DEFINE v == args[pl[n + 1]]
             x == f[n]
  <2>3. f[n + 1] = FillHole(x, v) /\ IsList(v)
    BY <1>4, <1>5, <2>1
  <2> HIDE DEF x, v
  <2>4. IsList(x) /\ (x = <<>> \/ x[1] = Slash)
    BY <2>2 DEF x
  <2>5. Good(FillHole(x, v))
    BY <2>3, <2>4, FillKeeps
  <2> QED BY <2>3, <2>5
<1>8. Nat \subseteq G
  <2> HIDE DEF G
  <2> QED BY <1>6, <1>7, SetInduction
<1>9. Good(f[Len(pl)])
  BY <1>3, <1>8
<1> QED BY <1>5, <1>9

LEMMA QueryIsList ==
    ASSUME NEW e, WellFormed(e), NEW args \in ArgumentLists(e)
    PROVE  IsList(Query(e, args))
<1> DEFINE pl == Places(e, "query")
           Sent(n) == IF args[pl[n]] = <<>> THEN <<>> ELSE <<Text(e.params[pl[n]].wire_name)>> \o args[pl[n]]
           ss == [n \in DOMAIN pl |-> Sent(n)]
<1>1. Query(e, args) = FlattenSeq(ss)
  BY DEF Query
<1>2. IsList(pl) /\ Len(pl) \in Nat /\ DOMAIN pl = 1..Len(pl)
      /\ \A n \in 1..Len(pl) : pl[n] \in DOMAIN e.params
  BY ArgumentPlaces, ListFacts
<1>3. \A n \in 1..Len(pl) : IsList(args[pl[n]])
  BY <1>2, ArgumentsAreLists
<1>4. ASSUME NEW n \in 1..Len(pl) PROVE IsList(Sent(n))
  <2> DEFINE u == <<Text(e.params[pl[n]].wire_name)>>
             v == args[pl[n]]
  <2>1. IsList(u) /\ IsList(v)
    BY <1>3, SmallLists
  <2>2. IsList(u \o v)
    <3> HIDE DEF u, v
    <3> QED BY <2>1, ConcatFacts
  <2> QED BY <2>2, SmallLists
<1> HIDE DEF Sent, pl
<1>5. ss = [n \in 1..Len(pl) |-> ss[n]] /\ \A n \in 1..Len(pl) : ss[n] = Sent(n)
  BY <1>2
<1> HIDE DEF ss
<1>6. IsList(ss) /\ Len(ss) = Len(pl)
  BY <1>2, <1>5, FunctionIsList
<1>7. IsListOfLists(ss)
  BY <1>4, <1>5, <1>6 DEF IsListOfLists
<1> QED BY <1>1, <1>7, FlattenFacts

(* A path with what follows it. *)
LEMMA TargetConcat ==
    ASSUME NEW x, IsList(x), x = <<>> \/ x[1] = Slash, NEW y, IsList(y), y = <<>> \/ y[1] = Mark
    PROVE  IsTarget(x \o y)
<1>1. IsList(x \o y)
  BY ConcatFacts
<1>2. CASE x = <<>>
  <2>1. x \o y = y
    BY <1>2, SmallLists
  <2> QED BY <1>1, <2>1 DEF IsTarget
<1>3. CASE x # <<>>
  <2>1. Len(x) \in Nat /\ Len(x) # 0
    BY <1>3, ListFacts, SmallLists
  <2>2. 1 \in 1..Len(x)
    BY <2>1
  <2>3. \A k \in 1..Len(x) : (x \o y)[k] = x[k]
    BY ConcatFacts
  <2>4. (x \o y)[1] = Slash
    BY <1>3, <2>2, <2>3
  <2> QED BY <1>1, <2>4 DEF IsTarget
<1> QED BY <1>2, <1>3

LEMMA QuestionMark ==
    ASSUME NEW q, IsList(q)
    PROVE  IsList(<<Mark>> \o q) /\ (<<Mark>> \o q)[1] = Mark
<1> DEFINE m == <<Mark>>
<1>1. IsList(m) /\ Len(m) = 1 /\ m[1] = Mark
  BY SmallLists
<1> HIDE DEF m
<1>2. IsList(m \o q)
  BY <1>1, ConcatFacts
<1>3. \A k \in 1..Len(m) : (m \o q)[k] = m[k]
  BY <1>1, ConcatFacts
<1>4. (m \o q)[1] = Mark
  BY <1>1, <1>3
<1> QED BY <1>2, <1>4 DEF m

-----------------------------------------------------------------------------
(* Requests and replies. *)

(* A request comes when the endpoints are all there, has a supported verb and a
   target that begins with a slash or a question mark; the reply is what
   handle_request makes of it. *)
RouteInv ==
    /\ request # NoRequest => /\ phase = "done"
                              /\ request.verb \in Methods
                              /\ IsTarget(request.target)
    /\ reply # <<>> => request # NoRequest /\ reply = Route(request.target, request.verb)

LEMMA EndpointsWellFormed ==
    ASSUME BuildInv
    PROVE  IsList(endpoints) /\ \A e \in ToSet(endpoints) : WellFormed(e)
BY ListFacts DEF BuildInv, MadeFrom, ToSet

LEMMA CallTarget ==
    ASSUME BuildInv, NEW n \in DOMAIN endpoints, NEW args \in ArgumentLists(endpoints[n]), Call(n, args)
    PROVE  request'.verb \in Methods /\ IsTarget(request'.target)
<1> DEFINE e == endpoints[n]
           query == Query(e, args)
           queried == ToSet(At(e.params, "query"))
           always == At(e.params, "path") = <<>> /\ queried # {} /\ \A p \in queried : p.required
           x == TargetPath(e, args)
           y == IF query # <<>> \/ always THEN <<Mark>> \o query ELSE <<>>
<1>1. request'.verb = e.method /\ request'.target = x \o y
  BY DEF Call
<1>2. WellFormed(e)
  <2>1. e \in ToSet(endpoints)
    BY DEF ToSet
  <2> HIDE DEF e
  <2> QED BY <2>1, EndpointsWellFormed
<1>3. IsList(x) /\ (x = <<>> \/ x[1] = Slash)
  <2> HIDE DEF e
  <2>1. args \in ArgumentLists(e)
    BY DEF e
  <2> QED BY <1>2, <2>1, TargetPathFacts
<1>4. IsList(query)
  <2> HIDE DEF e
  <2>1. args \in ArgumentLists(e)
    BY DEF e
  <2> QED BY <1>2, <2>1, QueryIsList
<1> HIDE DEF query, always, x
<1>5. IsList(y) /\ (y = <<>> \/ y[1] = Mark)
  BY <1>4, QuestionMark, SmallLists
<1> HIDE DEF y
<1>6. IsTarget(x \o y)
  BY <1>3, <1>5, TargetConcat
<1>7. e.method \in Methods
  BY <1>2 DEF WellFormed
<1> QED BY <1>1, <1>6, <1>7

LEMMA OtherTarget ==
    ASSUME NEW s \in Targets, NEW m \in Methods, NEW q \in {<<>>, <<Mark>>}, OtherClient(s, m, q)
    PROVE  request'.verb \in Methods /\ IsTarget(request'.target)
<1> DEFINE x == Tokens(s)
<1>1. request'.verb = m /\ request'.target = x \o q
  BY DEF OtherClient, NoRequest
<1>2. s \in Seq(Seq(Token))
  BY RequestsAssumption
<1>3. IsList(s) /\ Len(s) \in Nat
  BY <1>2, SeqIsList, ListFacts
<1>4. \A i \in 1..Len(s) : s[i] \in Seq(Token)
  BY <1>2, <1>3
<1>5. \A i \in 1..Len(s) : IsList(s[i])
  BY <1>4, SeqIsList
<1>6. IsList(x) /\ (x = <<>> \/ x[1] = Slash)
  BY <1>3, <1>5, TokensFacts
<1> HIDE DEF x
<1>7. IsList(q) /\ (q = <<>> \/ q[1] = Mark)
  BY SmallLists
<1>8. IsTarget(x \o q)
  BY <1>6, <1>7, TargetConcat
<1> QED BY <1>1, <1>8

(* Routing with the tables in hand. *)
RouteIn(static_paths, param_paths, target, verb) ==
    LET path == Path(target)
        static == {e \in static_paths : Tokens(e.path) = path /\ e.method = verb}
        fits == {i \in 1..Len(param_paths) :
                    /\ MatchPath(Tokens(param_paths[i].path_template), path)
                    /\ param_paths[i].method = verb}
        param == IF fits # {} THEN Min(fits) ELSE 0
    IN IF static # {} THEN (CHOOSE e \in static : TRUE).function_name
       ELSE IF param # 0 THEN param_paths[param].function_name ELSE NotFound

LEMMA RouteStays ==
    ASSUME endpoints' = endpoints, request' = request
    PROVE  Route(request.target, request.verb)' = Route(request.target, request.verb)
<1>1. StaticPaths' = StaticPaths /\ ParamPaths' = ParamPaths
  BY DEF StaticPaths, ParamPaths
<1>2. Route(request.target, request.verb)
        = RouteIn(StaticPaths, ParamPaths, request.target, request.verb)
  BY DEF Route, SelectInSeq, RouteIn
<1>3. Route(request.target, request.verb)'
        = RouteIn(StaticPaths', ParamPaths', request'.target, request'.verb)
  BY DEF Route, SelectInSeq, RouteIn
<1> QED BY <1>1, <1>2, <1>3

LEMMA StepRoute ==
    ASSUME BuildInv, RouteInv, [ApiNext]_vars
    PROVE  RouteInv'
<1>1. CASE Parse /\ UNCHANGED <<request, reply>>
  <2>1. phase # "done"
    BY <1>1 DEF Parse, ReadPath, EndOfPaths, BuildEndpoint, EndOfBuild
  <2> QED BY <1>1, <2>1 DEF RouteInv, NoRequest
<1>2. ASSUME NEW n \in DOMAIN endpoints, NEW args \in ArgumentLists(endpoints[n]), Call(n, args)
      PROVE  RouteInv'
  <2>1. phase = "done" /\ phase' = phase /\ request = NoRequest /\ reply' = reply
    BY <1>2 DEF Call, parseVars
  <2>2. request'.verb \in Methods /\ IsTarget(request'.target)
    BY <1>2, CallTarget
  <2>3. reply' = <<>>
    BY <2>1 DEF RouteInv
  <2> QED BY <2>1, <2>2, <2>3 DEF RouteInv, NoRequest
<1>3. ASSUME NEW s \in Targets, NEW m \in Methods, NEW q \in {<<>>, <<Mark>>}, OtherClient(s, m, q)
      PROVE  RouteInv'
  <2>1. phase = "done" /\ phase' = phase /\ request = NoRequest /\ reply' = reply
    BY <1>3 DEF OtherClient, parseVars
  <2>2. request'.verb \in Methods /\ IsTarget(request'.target)
    BY <1>3, OtherTarget
  <2>3. reply' = <<>>
    BY <2>1 DEF RouteInv
  <2> QED BY <2>1, <2>2, <2>3 DEF RouteInv, NoRequest
<1>4. CASE HandleRequest
  <2>1. /\ request # NoRequest /\ request' = request /\ phase' = phase /\ endpoints' = endpoints
        /\ reply' = Route(request.target, request.verb)
    BY <1>4 DEF HandleRequest, parseVars
  <2>2. Route(request.target, request.verb)' = Route(request.target, request.verb)
    BY <2>1, RouteStays
  <2> QED BY <2>1, <2>2 DEF RouteInv, NoRequest
<1>5. CASE Written
  <2>1. request' = NoRequest /\ reply' = <<>>
    BY <1>5 DEF Written
  <2> QED BY <2>1 DEF RouteInv, NoRequest
<1>6. CASE UNCHANGED vars
  <2>1. request' = request /\ reply' = reply /\ phase' = phase /\ endpoints' = endpoints
    BY <1>6 DEF vars
  <2>2. Route(request.target, request.verb)' = Route(request.target, request.verb)
    BY <2>1, RouteStays
  <2> QED BY <2>1, <2>2 DEF RouteInv, NoRequest
<1> QED BY <1>1, <1>2, <1>3, <1>4, <1>5, <1>6 DEF ApiNext

LEMMA ApiInduction == ApiSpec => [](CollectInv /\ BuildInv /\ RequestInv /\ RouteInv)
<1>1. ApiInit => CollectInv /\ BuildInv /\ RequestInv /\ RouteInv
  <2> SUFFICES ASSUME ApiInit PROVE CollectInv /\ BuildInv /\ RequestInv /\ RouteInv
    OBVIOUS
  <2>1. endpoints = <<>> /\ request = NoRequest /\ reply = <<>>
    BY DEF ApiInit, Init
  <2>2. RouteInv
    BY <2>1 DEF RouteInv
  <2>3. RequestInv
    BY <2>1, SmallLists DEF RequestInv, Replies, NoRequest
  <2>4. CollectInv /\ BuildInv
    BY InitParse
  <2> QED BY <2>2, <2>3, <2>4
<1>2. CollectInv /\ BuildInv /\ RequestInv /\ RouteInv /\ [ApiNext]_vars
        => CollectInv' /\ BuildInv' /\ RequestInv' /\ RouteInv'
  BY StepParse, StepRequest, StepRoute
<1> QED BY <1>1, <1>2, PTL DEF ApiSpec

(* The emitted match_path decides the segment-wise matching, for every document and
   every request. *)
THEOREM MatchesBySegment == ApiSpec => []MatchPathIsSegmentwise
<1>1. BuildInv /\ RouteInv => MatchPathIsSegmentwise
  <2> SUFFICES ASSUME BuildInv, RouteInv, NEW e \in ToSet(endpoints), request.verb # "none"
               PROVE  MatchPath(Tokens(e.path_template), Path(request.target))
                        <=> MatchesSegments(e.path_template, RequestSegments)
    BY DEF MatchPathIsSegmentwise
  <2>1. request # NoRequest
    BY DEF NoRequest
  <2>2. IsTarget(request.target)
    BY <2>1 DEF RouteInv
  <2>3. WellFormed(e)
    BY EndpointsWellFormed
  <2> QED BY <2>2, <2>3, MatchTarget DEF RequestSegments
<1> QED BY <1>1, ApiInduction, PTL

(* The template of an endpoint, next to its path. *)
LEMMA EndpointTemplate ==
    ASSUME NEW e, WellFormed(e)
    PROVE  /\ IsList(e.path) /\ IsList(e.path_template) /\ Len(e.path_template) = Len(e.path)
           /\ \A i \in 1..Len(e.path) :
                 /\ IsList(e.path[i]) /\ IsList(e.path_template[i])
                 /\ Len(e.path_template[i]) = Len(e.path[i])
                 /\ \A k \in 1..Len(e.path[i]) :
                       /\ e.path[i][k] \in Token
                       /\ \/ e.path_template[i][k] = Hole /\ e.path[i][k].ph
                          \/ e.path_template[i][k] = e.path[i][k]
                       /\ e.path_template[i][k] \in ToSet(Tokens(e.path_template))
<1> DEFINE p == e.path
           names == {q.name : q \in ToSet(At(e.params, "path"))}
           t == e.path_template
<1>1. IsPath(p) /\ t = PathTemplate(p, names)
  BY DEF WellFormed
<1> HIDE DEF p, names, t
<1>2. /\ IsList(p)
      /\ \A i \in 1..Len(p) : IsList(p[i]) /\ \A k \in 1..Len(p[i]) : p[i][k] \in Token
  BY <1>1, PathFacts
<1> DEFINE Form(u) ==
             /\ IsList(u) /\ Len(u) = Len(p)
             /\ \A i \in 1..Len(p) :
                   /\ IsList(u[i]) /\ Len(u[i]) = Len(p[i]) /\ IsList(p[i])
                   /\ \A k \in 1..Len(p[i]) :
                         /\ u[i][k] = IF p[i][k].ph /\ p[i][k].text \in names THEN Hole ELSE p[i][k]
                         /\ u[i][k] # Slash /\ u[i][k] # Mark
<1>f. Form(t)
  <2>1. Form(PathTemplate(p, names))
    BY <1>1, TemplateFacts
  <2> HIDE DEF Form
  <2> QED BY <1>1, <2>1
<1>3. /\ IsList(t) /\ Len(t) = Len(p)
      /\ \A i \in 1..Len(p) : IsList(t[i]) /\ Len(t[i]) = Len(p[i])
  BY <1>f
<1>4. \A i \in 1..Len(p) : \A k \in 1..Len(p[i]) :
         t[i][k] = IF p[i][k].ph /\ p[i][k].text \in names THEN Hole ELSE p[i][k]
  BY <1>f
<1> HIDE DEF Form
<1>5. ToSet(Tokens(t)) = UNION {{Slash} \cup ToSet(t[i]) : i \in 1..Len(t)}
  BY <1>3, TokensFacts
<1>6. ASSUME NEW i \in 1..Len(p), NEW k \in 1..Len(p[i]) PROVE t[i][k] \in ToSet(Tokens(t))
  <2>1. IsList(t[i]) /\ k \in 1..Len(t[i]) /\ i \in 1..Len(t)
    BY <1>3
  <2>2. t[i][k] \in ToSet(t[i])
    <3>1. DOMAIN t[i] = 1..Len(t[i])
      BY <2>1, ListFacts
    <3> QED BY <2>1, <3>1 DEF ToSet
  <2> QED BY <1>5, <2>1, <2>2
<1>7. \A i \in 1..Len(p) : \A k \in 1..Len(p[i]) :
         (t[i][k] = Hole /\ p[i][k].ph) \/ t[i][k] = p[i][k]
  BY <1>4
<1> QED BY <1>2, <1>3, <1>6, <1>7 DEF p, t

(* A path without placeholders that are filled in is its own template. *)
LEMMA StaticTemplate ==
    ASSUME NEW e, WellFormed(e), Hole \notin ToSet(Tokens(e.path_template))
    PROVE  e.path_template = e.path
<1> DEFINE p == e.path
           t == e.path_template
<1>1. /\ IsList(p) /\ IsList(t) /\ Len(t) = Len(p)
      /\ \A i \in 1..Len(p) :
            /\ IsList(p[i]) /\ IsList(t[i]) /\ Len(t[i]) = Len(p[i])
            /\ \A k \in 1..Len(p[i]) : t[i][k] = p[i][k]
  BY EndpointTemplate
<1> HIDE DEF p, t
<1>2. \A i \in 1..Len(p) : t[i] = p[i]
  BY <1>1, ListEqual
<1>3. t = p
  BY <1>1, <1>2, ListEqual
<1> QED BY <1>3 DEF p, t

(* The two tables hold all endpoints. *)
LEMMA Tables ==
    ASSUME BuildInv
    PROVE  /\ \A e \in ToSet(endpoints) :
                 /\ e \in StaticPaths <=> Hole \notin ToSet(Tokens(e.path_template))
                 /\ e \notin StaticPaths => e \in ToSet(ParamPaths)
           /\ StaticPaths \subseteq ToSet(endpoints)
           /\ IsList(ParamPaths) /\ ToSet(ParamPaths) \subseteq ToSet(endpoints)
<1>1. ASSUME NEW e \in ToSet(endpoints)
      PROVE  Contains(Tokens(e.path_template), Hole) <=> Hole \in ToSet(Tokens(e.path_template))
  <2> DEFINE t == e.path_template
             x == Tokens(t)
  <2>1. WellFormed(e)
    BY EndpointsWellFormed
  <2>2. IsList(t) /\ \A i \in 1..Len(t) : IsList(t[i])
    BY <2>1, EndpointTemplate
  <2> HIDE DEF t
  <2>3. IsList(x)
    BY <2>2, TokensFacts
  <2>4. DOMAIN x = 1..Len(x)
    BY <2>3, ListFacts
  <2> QED BY <2>4 DEF t, Contains, ToSet
<1>2. /\ IsList(ParamPaths)
      /\ ToSet(ParamPaths) = ToSet(endpoints) \cap {e \in ToSet(endpoints) : Contains(Tokens(e.path_template), Hole)}
  BY EndpointsWellFormed, KeepFacts DEF ParamPaths
<1> QED BY <1>1, <1>2 DEF StaticPaths

(* A path is the tokens of its segments. *)
LEMMA PathIsTokens ==
    ASSUME NEW e, WellFormed(e), NEW x, IsTarget(x)
    PROVE  Tokens(e.path) = Path(x) <=> e.path = Segments(Path(x))
<1> DEFINE y == Path(x)
           p == e.path
<1>1. PICK at : IsCut(Tokens(p), p, at)
  BY TemplateCut
<1>2. IsList(y) /\ (y = <<>> \/ y[1] = Slash)
  BY PathOfTarget
<1> HIDE DEF y, p
<1>3. PICK bt : IsCut(y, Segments(y), bt)
  BY <1>2, SegmentsCut
<1>4. ASSUME Tokens(p) = y PROVE p = Segments(y)
  BY <1>1, <1>3, <1>4, CutUnique
<1>5. ASSUME p = Segments(y) PROVE Tokens(p) = y
  BY <1>1, <1>3, <1>5, CutSame
<1> QED BY <1>4, <1>5 DEF y, p

(* A method is named after its verb first. *)
LEMMA NamesAreNotNotFound ==
    ASSUME NEW e, WellFormed(e)
    PROVE  e.function_name # NotFound
<1> SUFFICES ASSUME e.function_name = NotFound PROVE FALSE
  OBVIOUS
<1> DEFINE x == Tokens(e.path)
           Dash(t) == ~t.ph /\ t.text \in {"-", ":"}
           Begun(k) == \E j \in 1..k : x[j] # Slash /\ ~Dash(x[j])
           Letters(k) == CASE x[k] = Slash -> IF Begun(k) THEN <<"_">> ELSE <<>>
                           [] Dash(x[k])   -> <<"_">>
                           [] x[k].ph      -> <<"_", x[k].text>>
                           [] OTHER        -> <<x[k].text>>
           ss == [k \in DOMAIN x |-> Letters(k)]
           m == <<e.method>>
           r == FlattenSeq(ss)
<1>1. e.function_name = m \o r
  BY DEF WellFormed, GenerateFunctionName
<1>2. IsList(e.path) /\ \A i \in 1..Len(e.path) : IsList(e.path[i])
  BY EndpointTemplate
<1>3. IsList(x) /\ Len(x) \in Nat /\ DOMAIN x = 1..Len(x)
  BY <1>2, TokensFacts, ListFacts
<1> HIDE DEF x
<1>4. \A k : IsList(Letters(k))
  <2>2. ASSUME NEW a, NEW b PROVE IsList(<<a, b>>)
    <3> DEFINE u == <<a, b>>
               S == {a, b}
    <3>1. u \in Seq(S)
      OBVIOUS
    <3> HIDE DEF u, S
    <3>2. IsList(u)
      BY <3>1, SeqIsList
    <3> QED BY <3>2 DEF u
  <2> HIDE DEF Dash, Begun
  <2> QED BY <2>2, SmallLists
<1> HIDE DEF Letters
<1>5. ss = [k \in 1..Len(x) |-> ss[k]] /\ \A k \in 1..Len(x) : ss[k] = Letters(k)
  BY <1>3
<1> HIDE DEF ss
<1>6. IsList(ss) /\ Len(ss) = Len(x)
  BY <1>3, <1>5, FunctionIsList
<1>7. IsListOfLists(ss)
  BY <1>4, <1>5, <1>6 DEF IsListOfLists
<1>8. IsList(r)
  BY <1>7, FlattenFacts
<1>9. IsList(m) /\ Len(m) = 1 /\ m[1] = e.method
  BY SmallLists
<1> HIDE DEF m, r
<1>10. \A k \in 1..Len(m) : (m \o r)[k] = m[k]
  BY <1>8, <1>9, ConcatFacts
<1>11. e.function_name[1] = e.method
  BY <1>1, <1>9, <1>10
<1>12. NotFound[1] = "404"
  BY SmallLists DEF NotFound
<1>13. e.method \in Methods
  BY DEF WellFormed
<1> QED BY <1>11, <1>12, <1>13, NotFoundAssumption

(* What Route replies with. *)
LEMMA RouteFacts ==
    ASSUME BuildInv, NEW x, IsTarget(x), NEW verb
    PROVE  \/ \E e \in StaticPaths : /\ Tokens(e.path) = Path(x) /\ e.method = verb
                                      /\ Route(x, verb) = e.function_name
           \/ /\ \A e \in StaticPaths : ~(Tokens(e.path) = Path(x) /\ e.method = verb)
              /\ \E e \in ToSet(ParamPaths) : /\ MatchPath(Tokens(e.path_template), Path(x))
                                               /\ e.method = verb
                                               /\ Route(x, verb) = e.function_name
           \/ /\ \A e \in StaticPaths : ~(Tokens(e.path) = Path(x) /\ e.method = verb)
              /\ \A e \in ToSet(ParamPaths) : ~(/\ MatchPath(Tokens(e.path_template), Path(x))
                                                 /\ e.method = verb)
              /\ Route(x, verb) = NotFound
<1> DEFINE path == Path(x)
           static == {e \in StaticPaths : Tokens(e.path) = path /\ e.method = verb}
           I == {i \in 1..Len(ParamPaths) :
                   /\ MatchPath(Tokens(ParamPaths[i].path_template), path)
                   /\ ParamPaths[i].method = verb}
           param == IF I # {} THEN Min(I) ELSE 0
           d == CHOOSE e \in static : TRUE
<1>1. Route(x, verb) = IF static # {} THEN d.function_name
                       ELSE IF param # 0 THEN ParamPaths[param].function_name ELSE NotFound
  BY DEF Route, SelectInSeq
<1>2. Len(ParamPaths) \in Nat /\ DOMAIN ParamPaths = 1..Len(ParamPaths)
  BY Tables, ListFacts
<1>3. CASE static # {}
  <2>1. d \in static
    BY <1>3, Zenon
  <2>2. d \in StaticPaths /\ Tokens(d.path) = path /\ d.method = verb
    BY <2>1
  <2>3. Route(x, verb) = d.function_name
    BY <1>1, <1>3
  <2> HIDE DEF d
  <2> QED BY <2>2, <2>3
<1>4. CASE static = {}
  <2>1. \A e \in StaticPaths : ~(Tokens(e.path) = path /\ e.method = verb)
    BY <1>4
  <2>2. Route(x, verb) = IF param # 0 THEN ParamPaths[param].function_name ELSE NotFound
    BY <1>1, <1>4
  <2>3. \A i \in I : /\ i \in 1..Len(ParamPaths) /\ ParamPaths[i] \in ToSet(ParamPaths)
                     /\ MatchPath(Tokens(ParamPaths[i].path_template), path)
                     /\ ParamPaths[i].method = verb
    BY <1>2 DEF ToSet
  <2>4. \A e \in ToSet(ParamPaths) :
           MatchPath(Tokens(e.path_template), path) /\ e.method = verb => I # {}
    BY <1>2 DEF ToSet
  <2>5. I # {} => param \in I
    <3>1. I \in SUBSET Nat
      BY <1>2
    <3> HIDE DEF I
    <3>2. I # {} => \E k \in I : \A n \in I : k <= n
      BY <3>1, NatMin
    <3> QED BY <3>2, Zenon DEF Min
  <2>6. I = {} => param = 0
    OBVIOUS
  <2> HIDE DEF static, I, param, path, d
  <2>7. CASE I # {}
    <3>1. param \in I /\ param # 0
      BY <1>2, <2>3, <2>5, <2>7
    <3> QED BY <2>1, <2>2, <2>3, <3>1 DEF path
  <2>8. CASE I = {}
    BY <2>1, <2>2, <2>4, <2>6, <2>8 DEF path
  <2> QED BY <2>7, <2>8
<1> QED BY <1>3, <1>4

(* The placeholders of a template, if all of them are filled in. *)
LEMMA AllHoles ==
    ASSUME NEW e, WellFormed(e),
           \A n \in DOMAIN PlaceholderNames(e.path_template) : PlaceholderNames(e.path_template)[n] = ""
    PROVE  \A i \in 1..Len(e.path) : \A k \in 1..Len(e.path[i]) :
              IF e.path[i][k].ph THEN e.path_template[i][k] = Hole
                                 ELSE e.path_template[i][k] = e.path[i][k]
<1> DEFINE p == e.path
           t == e.path_template
           x == Tokens(t)
           S == {u \in ToSet(x) : u.ph}
           kept == Keep(x, S)
<1>1. /\ IsList(t)
      /\ \A i \in 1..Len(p) :
            \A k \in 1..Len(p[i]) :
               /\ p[i][k] \in Token
               /\ (t[i][k] = Hole /\ p[i][k].ph) \/ t[i][k] = p[i][k]
               /\ t[i][k] \in ToSet(x)
  BY EndpointTemplate
<1>2. \A i \in 1..Len(t) : IsList(t[i])
  BY EndpointTemplate
<1>3. PlaceholderNames(t) = [k \in DOMAIN kept |-> kept[k].text]
  BY DEF PlaceholderNames
<1>4. \A n \in DOMAIN kept : kept[n].text = ""
  BY <1>3
<1>5. IsList(x)
  <2> HIDE DEF t
  <2> QED BY <1>1, <1>2, TokensFacts
<1>6. ToSet(kept) = ToSet(x) \cap S
  <2> HIDE DEF x, S
  <2> QED BY <1>5, KeepFacts
<1>7. \A u \in ToSet(x) : u.ph => u.text = ""
  <2>1. \A u \in ToSet(kept) : u.text = ""
    BY <1>4 DEF ToSet
  <2> HIDE DEF x, kept
  <2> QED BY <1>6, <2>1
<1> HIDE DEF p, t, x
<1>8. \A u \in Token : u.ph /\ u.text = "" => u = Hole
  <2>1. ASSUME NEW u \in Token, u.ph, u.text = "" PROVE u = Hole
    <3>1. u = [ph |-> u.ph, text |-> u.text] /\ u.ph \in BOOLEAN
      BY DEF Token
    <3>2. u.ph = TRUE
      BY <2>1, <3>1
    <3> QED BY <2>1, <3>1, <3>2 DEF Hole, Placeholder
  <2> QED BY <2>1
<1>9. ASSUME NEW i \in 1..Len(p), NEW k \in 1..Len(p[i])
      PROVE  IF p[i][k].ph THEN t[i][k] = Hole ELSE t[i][k] = p[i][k]
  <2> DEFINE a == p[i][k]
             b == t[i][k]
  <2>1. a \in Token /\ ((b = Hole /\ a.ph) \/ b = a) /\ b \in ToSet(x)
    BY <1>1
  <2> HIDE DEF a, b
  <2>2. IF a.ph THEN b = Hole ELSE b = a
    BY <1>7, <1>8, <2>1
  <2> QED BY <2>2 DEF a, b
<1> QED BY <1>9 DEF p, t

(* One segment of a path, of its template and of a target. *)
SegmentOf(a, b, c) ==
    /\ IsList(b) /\ IsList(c) /\ Len(b) = Len(a) /\ Len(c) = Len(a)
    /\ \A k \in 1..Len(a) : IF a[k].ph THEN b[k] = Hole ELSE b[k] = a[k]
    /\ \A k \in 1..Len(a) : a[k].ph \/ a[k] = c[k]
    /\ (\E k \in 1..Len(a) : a[k].ph) => Len(a) = 1

LEMMA SegmentMatches ==
    ASSUME NEW a, NEW b, NEW c, SegmentOf(a, b, c)
    PROVE  b = c \/ (b = <<Hole>> /\ c # <<>>)
<1>0. /\ IsList(b) /\ IsList(c) /\ Len(b) = Len(a) /\ Len(c) = Len(a)
      /\ \A k \in 1..Len(a) : IF a[k].ph THEN b[k] = Hole ELSE b[k] = a[k]
      /\ \A k \in 1..Len(a) : a[k].ph \/ a[k] = c[k]
      /\ (\E k \in 1..Len(a) : a[k].ph) => Len(a) = 1
  BY DEF SegmentOf
<1> DEFINE h == <<Hole>>
<1>2. IsList(h) /\ Len(h) = 1 /\ h[1] = Hole /\ Len(<<>>) = 0
  BY SmallLists
<1> HIDE DEF h
<1>3. CASE \E k \in 1..Len(a) : a[k].ph
  <2>1. PICK k \in 1..Len(a) : a[k].ph
    BY <1>3
  <2>2. Len(a) = 1 /\ Len(b) = 1 /\ Len(c) = 1
    <3>1. (\E n \in 1..Len(a) : a[n].ph) => Len(a) = 1
      BY <1>0
    <3>2. Len(b) = Len(a) /\ Len(c) = Len(a)
      BY <1>0
    <3> QED BY <1>3, <3>1, <3>2
  <2>3. k = 1
    BY <2>1, <2>2
  <2>4. b[1] = Hole
    <3>1. \A n \in 1..Len(a) : IF a[n].ph THEN b[n] = Hole ELSE b[n] = a[n]
      BY <1>0
    <3>2. b[k] = Hole
      BY <2>1, <3>1
    <3> QED BY <2>3, <3>2
  <2>5. b = h
    <3>1. IsList(b) /\ IsList(h) /\ Len(b) = Len(h)
      BY <1>0, <1>2, <2>2
    <3>2. \A n \in 1..Len(b) : b[n] = h[n]
      BY <1>2, <2>2, <2>4
    <3> QED BY <3>1, <3>2, ListEqual
  <2>6. c # <<>>
    <3> SUFFICES ASSUME c = <<>> PROVE FALSE
      OBVIOUS
    <3> QED BY <1>2, <2>2
  <2> QED BY <2>5, <2>6 DEF h
<1>4. CASE ~\E k \in 1..Len(a) : a[k].ph
  <2>1. \A k \in 1..Len(b) : b[k] = c[k]
    BY <1>0, <1>4
  <2>2. b = c
    BY <1>0, <2>1, ListEqual
  <2> QED BY <2>2
<1> QED BY <1>3, <1>4

(* Segments that fit the path of an endpoint match its template, if placeholders are
   whole segments and all filled in. *)
LEMMA FitsMatches ==
    ASSUME NEW e, WellFormed(e), NEW s, \A i \in 1..Len(e.path) : IsList(s[i]),
           Fits(e.path, s), WholeSegments(e.path),
           \A n \in DOMAIN PlaceholderNames(e.path_template) : PlaceholderNames(e.path_template)[n] = ""
    PROVE  MatchesSegments(e.path_template, s)
<1> DEFINE p == e.path
           t == e.path_template
<1>1. /\ IsList(p) /\ IsList(t) /\ Len(t) = Len(p)
      /\ \A i \in 1..Len(p) : IsList(p[i]) /\ IsList(t[i]) /\ Len(t[i]) = Len(p[i])
  BY EndpointTemplate
<1>2. \A i \in 1..Len(p) : \A k \in 1..Len(p[i]) :
         IF p[i][k].ph THEN t[i][k] = Hole ELSE t[i][k] = p[i][k]
  BY AllHoles
<1>3. Len(p) = Len(s) /\ DOMAIN p = 1..Len(p) /\ DOMAIN t = 1..Len(p)
  BY <1>1, ListFacts DEF Fits
<1>4. \A i \in 1..Len(p) : /\ Len(p[i]) = Len(s[i]) /\ DOMAIN p[i] = 1..Len(p[i])
                           /\ \A k \in 1..Len(p[i]) : p[i][k].ph \/ p[i][k] = s[i][k]
  BY <1>1, <1>3, ListFacts DEF Fits
<1>5. \A i \in 1..Len(p) : (\E k \in 1..Len(p[i]) : p[i][k].ph) => Len(p[i]) = 1
  BY <1>3, <1>4 DEF WholeSegments
<1>6. \A i \in 1..Len(p) : IsList(s[i])
  OBVIOUS
<1> HIDE DEF p, t
<1>7. ASSUME NEW i \in 1..Len(p)
      PROVE  t[i] = s[i] \/ (t[i] = <<Hole>> /\ s[i] # <<>>)
  <2> DEFINE a == p[i]
             b == t[i]
             c == s[i]
  <2>1. IsList(b) /\ IsList(c) /\ Len(b) = Len(a) /\ Len(c) = Len(a)
    BY <1>1, <1>4, <1>6
  <2>2. \A k \in 1..Len(a) : IF a[k].ph THEN b[k] = Hole ELSE b[k] = a[k]
    BY <1>2
  <2>3. \A k \in 1..Len(a) : a[k].ph \/ a[k] = c[k]
    BY <1>4
  <2>4. (\E k \in 1..Len(a) : a[k].ph) => Len(a) = 1
    BY <1>5
  <2> HIDE DEF a, b, c
  <2>5. SegmentOf(a, b, c)
    BY <2>1, <2>2, <2>3, <2>4 DEF SegmentOf
  <2>6. b = c \/ (b = <<Hole>> /\ c # <<>>)
    BY <2>5, SegmentMatches
  <2> QED BY <2>6 DEF b, c
<1>8. MatchesSegments(t, s)
  BY <1>1, <1>3, <1>7 DEF MatchesSegments
<1> QED BY <1>8 DEF t

(* A segment-wise match without a placeholder is equality. *)
LEMMA StaticMatches ==
    ASSUME NEW e, WellFormed(e), Hole \notin ToSet(Tokens(e.path_template)), NEW s, IsList(s)
    PROVE  MatchesSegments(e.path_template, s) <=> e.path = s
<1> DEFINE p == e.path
           t == e.path_template
           h == <<Hole>>
<1>1. t = p
  BY StaticTemplate
<1>2. /\ IsList(p) /\ IsList(t)
      /\ \A i \in 1..Len(p) : IsList(p[i]) /\ Len(t[i]) = Len(p[i])
                               /\ \A k \in 1..Len(p[i]) : t[i][k] \in ToSet(Tokens(t))
  BY EndpointTemplate
<1>3. DOMAIN t = 1..Len(p)
  BY <1>1, <1>2, ListFacts
<1>4. Len(h) = 1 /\ h[1] = Hole
  BY SmallLists
<1>5. Hole \notin ToSet(Tokens(t))
  OBVIOUS
<1> HIDE DEF p, t, h
<1>6. \A i \in 1..Len(p) : t[i] # h
  <2> SUFFICES ASSUME NEW i \in 1..Len(p), t[i] = h PROVE FALSE
    OBVIOUS
  <2>1. Len(p[i]) = 1
    BY <1>2, <1>4
  <2>2. 1 \in 1..Len(p[i])
    BY <2>1
  <2>3. t[i][1] \in ToSet(Tokens(t))
    BY <1>2, <2>2
  <2> QED BY <1>4, <1>5, <2>3
<1>7. MatchesSegments(t, s) <=> Len(t) = Len(s) /\ \A i \in 1..Len(p) : t[i] = s[i]
  BY <1>3, <1>6 DEF MatchesSegments, h
<1>8. MatchesSegments(t, s) <=> p = s
  <2>1. ASSUME Len(t) = Len(s), \A i \in 1..Len(p) : t[i] = s[i]
        PROVE  p = s
    BY <1>1, <1>2, <2>1, ListEqual
  <2> QED BY <1>1, <1>7, <2>1
<1> QED BY <1>8 DEF p, t

LEMMA RouteIsRight ==
    ASSUME BuildInv, RouteInv, Routed
    PROVE  RoutedRight
<1> DEFINE x == request.target
           verb == request.verb
           s == Segments(Path(x))
           None == NotFound
           MatchesIt(e) == MatchesSegments(e.path_template, s)
<1>1. IsTarget(x) /\ reply = Route(x, verb)
  BY DEF RouteInv, Routed
<1>2. /\ \A e \in ToSet(endpoints) : WellFormed(e) /\ e.function_name # None
      /\ StaticPaths \subseteq ToSet(endpoints)
      /\ ToSet(ParamPaths) \subseteq ToSet(endpoints)
      /\ \A e \in ToSet(endpoints) : e \notin StaticPaths => e \in ToSet(ParamPaths)
  BY EndpointsWellFormed, NamesAreNotNotFound, Tables
<1>3. \A e \in ToSet(endpoints) : MatchPath(Tokens(e.path_template), Path(x)) <=> MatchesIt(e)
  BY <1>1, <1>2, MatchTarget
<1>4. \A e \in StaticPaths : Tokens(e.path) = Path(x) <=> e.path = s
  BY <1>1, <1>2, PathIsTokens
<1>5. IsList(s) /\ \A i \in 1..Len(s) : IsList(s[i])
  <2> DEFINE y == Path(x)
  <2>1. IsList(y) /\ (y = <<>> \/ y[1] = Slash)
    BY <1>1, PathOfTarget
  <2> HIDE DEF y
  <2>2. PICK at : IsCut(y, Segments(y), at)
    BY <2>1, SegmentsCut
  <2> QED BY <2>2 DEF y, IsCut
<1>6. \A e \in StaticPaths : MatchesIt(e) <=> e.path = s
  BY <1>2, <1>5, Tables, StaticMatches
<1>7. \/ \E e \in StaticPaths : Tokens(e.path) = Path(x) /\ e.method = verb /\ reply = e.function_name
      \/ /\ \A e \in StaticPaths : ~(Tokens(e.path) = Path(x) /\ e.method = verb)
         /\ \E e \in ToSet(ParamPaths) : /\ MatchPath(Tokens(e.path_template), Path(x))
                                         /\ e.method = verb
                                         /\ reply = e.function_name
      \/ /\ \A e \in StaticPaths : ~(Tokens(e.path) = Path(x) /\ e.method = verb)
         /\ \A e \in ToSet(ParamPaths) : ~(/\ MatchPath(Tokens(e.path_template), Path(x))
                                           /\ e.method = verb)
         /\ reply = NotFound
  BY <1>1, RouteFacts
<1>8. ASSUME reply # NotFound
      PROVE  \E e \in ToSet(endpoints) : e.function_name = reply /\ e.method = verb /\ MatchesIt(e)
  <2> HIDE DEF MatchesIt, x, verb, s
  <2> QED BY <1>2, <1>3, <1>4, <1>6, <1>7, <1>8
<1>9. ASSUME NEW e \in StaticPaths, e.method = verb, Tokens(e.path) = Path(x)
      PROVE  reply = e.function_name
  <2>1. PICK d \in StaticPaths : Tokens(d.path) = Path(x) /\ d.method = verb /\ reply = d.function_name
    BY <1>7, <1>9
  <2>2. d.path = e.path
    BY <1>4, <1>9, <2>1
  <2>3. /\ d.function_name = GenerateFunctionName(d.method, d.path)
        /\ e.function_name = GenerateFunctionName(e.method, e.path)
    BY <1>2 DEF WellFormed
  <2> QED BY <1>9, <2>1, <2>2, <2>3
<1>10. ASSUME reply = NotFound, NEW e \in ToSet(endpoints), e.method = verb, WholeSegments(e.path),
              \A n \in DOMAIN PlaceholderNames(e.path_template) : PlaceholderNames(e.path_template)[n] = "",
              Fits(e.path, s)
       PROVE  FALSE
  <2>1. \A i \in 1..Len(e.path) : IsList(s[i])
    BY <1>5, <1>10 DEF Fits
  <2>2. MatchesIt(e)
    BY <1>2, <1>10, <2>1, FitsMatches
  <2> HIDE DEF MatchesIt, x, verb, s, None
  <2>3. CASE e \in StaticPaths
    <3>1. Tokens(e.path) = Path(x)
      BY <1>4, <1>6, <2>2, <2>3
    <3> QED BY <1>2, <1>7, <1>10, <2>3, <3>1 DEF None
  <2>4. CASE e \notin StaticPaths
    <3>1. e \in ToSet(ParamPaths) /\ MatchPath(Tokens(e.path_template), Path(x))
      BY <1>2, <1>3, <2>2, <2>4
    <3> QED BY <1>2, <1>7, <1>10, <3>1 DEF None
  <2> QED BY <2>3, <2>4
<1>11. ASSUME reply = NotFound, NEW e \in ToSet(endpoints)
       PROVE  (/\ e.method = verb /\ WholeSegments(e.path)
               /\ \A n \in DOMAIN PlaceholderNames(e.path_template) :
                      PlaceholderNames(e.path_template)[n] = "")
              => ~Fits(e.path, s)
  BY <1>10, <1>11
<1> QED BY <1>8, <1>9, <1>11 DEF RoutedRight, RequestSegments

(* Routing by path and verb, for every document and every request. *)
THEOREM RoutedAsDeclared == ApiSpec => []RoutedRight
<1>1. BuildInv /\ RouteInv => RoutedRight
  BY RouteIsRight DEF RoutedRight
<1> QED BY <1>1, ApiInduction, PTL

-----------------------------------------------------------------------------
(* Calls: the client fills the placeholders, and the path keeps its cuts. *)

(* Filling the first hole with a value of one token changes that token only. *)
LEMMA FillOne ==
    ASSUME NEW x, IsList(x), NEW h \in 1..Len(x), x[h] = Hole, \A k \in 1..h - 1 : x[k] # Hole,
           NEW v, IsList(v), Len(v) = 1
    PROVE  /\ IsList(FillHole(x, v)) /\ Len(FillHole(x, v)) = Len(x)
           /\ \A k \in 1..Len(x) : FillHole(x, v)[k] = IF k = h THEN v[1] ELSE x[k]
<1> DEFINE holes == {k \in DOMAIN x : x[k] = Hole}
           first == CHOOSE k \in holes : \A m \in holes : k <= m
           a == SubSeq(x, 1, h - 1)
           b == SubSeq(x, h + 1, Len(x))
           c == a \o v
           d == c \o b
           N == Len(x)
           A == h - 1
           B == N - h
<1>0. N \in Nat /\ DOMAIN x = 1..N /\ x \in Seq(ToSet(x)) /\ h \in Nat /\ A \in Nat /\ B \in Nat
      /\ A < N /\ N = A + 1 + B /\ h = A + 1
  <2>1. N \in Nat /\ DOMAIN x = 1..N
    BY ListFacts
  <2>2. x \in Seq(ToSet(x))
    BY DEF IsList
  <2> HIDE DEF N
  <2>3. h \in 1..N
    BY DEF N
  <2> QED BY <2>1, <2>2, <2>3
<1>1. FillHole(x, v) = IF holes = {} THEN x
                       ELSE (SubSeq(x, 1, first - 1) \o v) \o SubSeq(x, first + 1, Len(x))
  BY DEF FillHole
<1>2. h \in holes /\ \A m \in holes : m \in 1..N /\ x[m] = Hole
  BY <1>0
<1>3. \A m \in holes : h <= m
  <2> SUFFICES ASSUME NEW m \in holes, ~(h <= m) PROVE FALSE
    OBVIOUS
  <2>1. m \in 1..N /\ x[m] = Hole
    BY <1>2
  <2>2. m \in 1..h - 1
    BY <1>0, <2>1
  <2> QED BY <2>1, <2>2
<1>4. first = h
  <2> HIDE DEF holes
  <2>1. first \in holes /\ \A m \in holes : first <= m
    BY <1>2, <1>3, Zenon
  <2>2. first <= h /\ h <= first /\ first \in 1..N
    BY <1>2, <1>3, <2>1
  <2> HIDE DEF first
  <2> QED BY <1>0, <2>2
<1>5. FillHole(x, v) = d
  <2>1. FillHole(x, v) = (SubSeq(x, 1, first - 1) \o v) \o SubSeq(x, first + 1, Len(x))
    BY <1>1, <1>2
  <2> HIDE DEF first
  <2> QED BY <1>4, <2>1
<1>6. a = [k \in 1..A |-> x[k]]
  BY <1>0
<1>7. b = [k \in 1..B |-> x[h + k]]
  <2>1. b = [k \in 1..(N - (h + 1) + 1) |-> x[(h + 1) + k - 1]]
    BY <1>0
  <2>2. N - (h + 1) + 1 = B
    BY <1>0
  <2>3. \A k \in 1..B : (h + 1) + k - 1 = h + k
    BY <1>0
  <2> HIDE DEF b
  <2> QED BY <2>1, <2>2, <2>3
<1> HIDE DEF a, b, N, A, B
<1>8. IsList(a) /\ Len(a) = A /\ \A k \in 1..A : a[k] = x[k]
  <2>1. a = [k \in 1..A |-> a[k]] /\ \A k \in 1..A : a[k] = x[k]
    BY <1>6
  <2> QED BY <1>0, <2>1, FunctionIsList
<1>9. IsList(b) /\ Len(b) = B /\ \A k \in 1..B : b[k] = x[h + k]
  <2>1. b = [k \in 1..B |-> b[k]] /\ \A k \in 1..B : b[k] = x[h + k]
    BY <1>7
  <2> QED BY <1>0, <2>1, FunctionIsList
<1>10. IsList(c) /\ Len(c) = A + 1 /\ (\A k \in 1..A : c[k] = x[k]) /\ c[A + 1] = v[1]
  <2>1. IsList(a) /\ IsList(v)
    BY <1>8
  <2>2. IsList(a \o v)
    BY <2>1, ConcatFacts
  <2>3. Len(a \o v) = Len(a) + Len(v)
    BY <2>1, ConcatFacts
  <2>4. \A k \in 1..Len(a) : (a \o v)[k] = a[k]
    BY <2>1, ConcatFacts
  <2>5. \A k \in 1..Len(v) : (a \o v)[Len(a) + k] = v[k]
    BY <2>1, ConcatFacts
  <2>6. 1 \in 1..Len(v)
    OBVIOUS
  <2> HIDE DEF c
  <2>7. c = a \o v
    BY DEF c
  <2> QED BY <1>8, <2>2, <2>3, <2>4, <2>5, <2>6, <2>7
<1> HIDE DEF c
<1>11. /\ IsList(d) /\ Len(d) = A + 1 + B
       /\ \A k \in 1..A + 1 : d[k] = c[k]
       /\ \A k \in 1..B : d[A + 1 + k] = b[k]
  <2>1. IsList(c) /\ IsList(b)
    BY <1>9, <1>10
  <2>2. IsList(c \o b)
    BY <2>1, ConcatFacts
  <2>3. Len(c \o b) = Len(c) + Len(b)
    BY <2>1, ConcatFacts
  <2>4. \A k \in 1..Len(c) : (c \o b)[k] = c[k]
    BY <2>1, ConcatFacts
  <2>5. \A k \in 1..Len(b) : (c \o b)[Len(c) + k] = b[k]
    BY <2>1, ConcatFacts
  <2> QED BY <1>9, <1>10, <2>2, <2>3, <2>4, <2>5
<1> HIDE DEF d
<1>12. ASSUME NEW k \in 1..N PROVE d[k] = IF k = h THEN v[1] ELSE x[k]
  <2>1. CASE k < h
    <3>1. k \in 1..A /\ k \in 1..A + 1 /\ k # h
      BY <1>0, <2>1
    <3> QED BY <1>10, <1>11, <3>1
  <2>2. CASE k = h
    <3>1. A + 1 \in 1..A + 1
      BY <1>0
    <3> QED BY <1>0, <1>10, <1>11, <2>2, <3>1
  <2>3. CASE k > h
    <3> DEFINE j == k - h
    <3>1. j \in 1..B /\ k = h + j /\ k # h /\ k = A + 1 + j
      BY <1>0, <2>3
    <3> HIDE DEF j
    <3> QED BY <1>9, <1>11, <3>1
  <2> QED BY <1>0, <2>1, <2>2, <2>3
<1> QED BY <1>0, <1>5, <1>11, <1>12 DEF N

(* x with its holes, at the places C, filled one by one: f[n] has n of the values. *)
Filling(x, C, pos, vals, f) ==
    /\ IsList(x) /\ \A k \in 1..Len(x) : k \in C <=> x[k] = Hole
    /\ IsEnumeration(pos, Len(x), C)
    /\ \A n \in 1..Len(pos) : IsList(vals[n]) /\ Len(vals[n]) = 1 /\ vals[n][1] # Hole
    /\ f[0] = x /\ \A n \in 1..Len(pos) : f[n] = FillHole(f[n - 1], vals[n])

FilledWith(x, pos, vals, y) ==
    /\ IsList(y) /\ Len(y) = Len(x)
    /\ \A n \in 1..Len(pos) : pos[n] \in 1..Len(x) /\ y[pos[n]] = vals[n][1]
    /\ \A k \in 1..Len(x) : x[k] # Hole => y[k] = x[k]

(* The values come into the holes in their order, and the rest stays. *)
LEMMA FilledInOrder ==
    ASSUME NEW x, NEW C, NEW pos, NEW vals, NEW f, Filling(x, C, pos, vals, f)
    PROVE  FilledWith(x, pos, vals, f[Len(pos)])
<1>f. /\ IsList(x) /\ \A k \in 1..Len(x) : k \in C <=> x[k] = Hole
      /\ IsEnumeration(pos, Len(x), C)
      /\ \A n \in 1..Len(pos) : IsList(vals[n]) /\ Len(vals[n]) = 1 /\ vals[n][1] # Hole
      /\ f[0] = x /\ \A n \in 1..Len(pos) : f[n] = FillHole(f[n - 1], vals[n])
  BY DEF Filling
<1> DEFINE L == Len(pos)
           N == Len(x)
           Filled(y, n) == /\ IsList(y) /\ Len(y) = N
                           /\ \A m \in 1..L : y[pos[m]] = IF m <= n THEN vals[m][1] ELSE Hole
                           /\ \A k \in 1..N : x[k] # Hole => y[k] = x[k]
           G == {n \in Nat : n <= L => Filled(f[n], n)}
<1>0. /\ N \in Nat /\ L \in Nat /\ IsList(pos) /\ DOMAIN pos = 1..L
      /\ ToSet(pos) = (1..N) \cap C
      /\ \A j, k \in 1..L : j < k => pos[j] < pos[k]
  BY <1>f, ListFacts DEF IsEnumeration
<1>1. \A n \in 1..L : pos[n] \in 1..N /\ pos[n] \in Nat /\ x[pos[n]] = Hole
  <2> SUFFICES ASSUME NEW n \in 1..L PROVE pos[n] \in 1..N /\ pos[n] \in Nat /\ x[pos[n]] = Hole
    OBVIOUS
  <2>1. pos[n] \in ToSet(pos)
    BY <1>0 DEF ToSet
  <2>2. pos[n] \in 1..N /\ pos[n] \in C
    BY <1>0, <2>1
  <2>3. x[pos[n]] = Hole
    BY <1>f, <2>2
  <2>4. \A k \in 1..N : k \in Nat
    BY <1>0
  <2> QED BY <2>2, <2>3, <2>4
<1>2. \A k \in 1..N : x[k] = Hole => \E n \in 1..L : pos[n] = k
  <2> SUFFICES ASSUME NEW k \in 1..N, x[k] = Hole PROVE \E n \in 1..L : pos[n] = k
    OBVIOUS
  <2>1. k \in ToSet(pos)
    BY <1>f, <1>0
  <2> QED BY <1>0, <2>1 DEF ToSet
<1>3. \A j, k \in 1..L : pos[j] < pos[k] => j < k
  <2> SUFFICES ASSUME NEW j \in 1..L, NEW k \in 1..L, pos[j] < pos[k], ~(j < k) PROVE FALSE
    OBVIOUS
  <2>1. j = k \/ k < j
    BY <1>0
  <2>2. k < j => pos[k] < pos[j]
    BY <1>0
  <2> QED BY <1>1, <2>1, <2>2
<1>4. \A j, k \in 1..L : pos[j] = pos[k] => j = k
  <2> SUFFICES ASSUME NEW j \in 1..L, NEW k \in 1..L, pos[j] = pos[k], j # k PROVE FALSE
    OBVIOUS
  <2>1. j < k \/ k < j
    BY <1>0
  <2>2. pos[j] < pos[k] \/ pos[k] < pos[j]
    BY <1>0, <2>1
  <2> QED BY <1>1, <2>2
<1> HIDE DEF N, L
<1>5. 0 \in G
  <2>1. \A m \in 1..L : ~(m <= 0)
    BY <1>0
  <2>2. Filled(x, 0)
    BY <1>f, <1>1, <2>1 DEF N
  <2> HIDE DEF Filled
  <2> QED BY <1>f, <2>2
<1>6. ASSUME NEW n \in Nat, n \in G PROVE n + 1 \in G
  <2> SUFFICES ASSUME n + 1 <= L PROVE Filled(f[n + 1], n + 1)
    <3> HIDE DEF Filled
    <3> QED OBVIOUS
  <2> DEFINE y == f[n]
             z == f[n + 1]
             h == pos[n + 1]
             v == vals[n + 1]
  <2>1. n <= L /\ n + 1 \in 1..L /\ (n + 1) - 1 = n
    BY <1>0
  <2>2. Filled(y, n)
    <3> HIDE DEF Filled
    <3> QED BY <1>6, <2>1
  <2>3. z = FillHole(y, v)
    BY <1>f, <2>1 DEF L
  <2>4. IsList(v) /\ Len(v) = 1
    BY <1>f, <2>1 DEF L
  <2>5. h \in 1..N /\ h \in Nat
    BY <1>1, <2>1
  <2> HIDE DEF y, z, v
  <2>6. y[h] = Hole
    BY <2>1, <2>2
  <2>7. \A k \in 1..h - 1 : y[k] # Hole
    <3> SUFFICES ASSUME NEW k \in 1..h - 1, y[k] = Hole PROVE FALSE
      OBVIOUS
    <3>1. k \in 1..N /\ k < h
      BY <1>0, <2>5
    <3>2. x[k] = Hole
      BY <2>2, <3>1
    <3>3. PICK m \in 1..L : pos[m] = k
      BY <1>2, <3>1, <3>2
    <3>4. m < n + 1
      BY <1>3, <2>1, <3>1, <3>3
    <3>5. m <= n
      BY <1>0, <3>4
    <3>6. y[k] = vals[m][1]
      BY <2>2, <3>3, <3>5
    <3>7. vals[m][1] # Hole
      BY <1>f DEF L
    <3> QED BY <3>6, <3>7
  <2>8. /\ IsList(z) /\ Len(z) = Len(y)
        /\ \A k \in 1..Len(y) : z[k] = IF k = h THEN v[1] ELSE y[k]
    <3>1. IsList(y) /\ h \in 1..Len(y)
      BY <2>2, <2>5
    <3> HIDE DEF h
    <3> QED BY <2>3, <2>4, <2>6, <2>7, <3>1, FillOne
  <2>9. IsList(z) /\ Len(z) = N
    BY <2>2, <2>8
  <2>10. ASSUME NEW m \in 1..L PROVE z[pos[m]] = IF m <= n + 1 THEN vals[m][1] ELSE Hole
    <3>1. pos[m] \in 1..Len(y)
      BY <1>1, <2>2
    <3>2. pos[m] = h <=> m = n + 1
      BY <1>4, <2>1
    <3>3. CASE m = n + 1
      <4>1. z[pos[m]] = v[1]
        BY <2>8, <3>1, <3>2, <3>3
      <4> QED BY <3>3, <4>1, <1>0 DEF v
    <3>4. CASE m # n + 1
      <4>1. z[pos[m]] = y[pos[m]]
        BY <2>8, <3>1, <3>2, <3>4
      <4>2. y[pos[m]] = IF m <= n THEN vals[m][1] ELSE Hole
        BY <2>2
      <4>3. m <= n <=> m <= n + 1
        BY <1>0, <3>4
      <4> QED BY <4>1, <4>2, <4>3
    <3> QED BY <3>3, <3>4
  <2>11. ASSUME NEW k \in 1..N, x[k] # Hole PROVE z[k] = x[k]
    <3>1. k # h /\ k \in 1..Len(y)
      BY <1>1, <2>1, <2>2, <2>11
    <3> QED BY <2>2, <2>8, <2>11, <3>1
  <2> QED BY <2>9, <2>10, <2>11 DEF z
<1>7. Nat \subseteq G
  <2> HIDE DEF G
  <2> QED BY <1>5, <1>6, SetInduction
<1> DEFINE y == f[L]
<1>8. Filled(y, L)
  <2> HIDE DEF Filled
  <2> QED BY <1>0, <1>7
<1> HIDE DEF y
<1>9. \A m \in 1..L : m <= L
  BY <1>0
<1>10. /\ IsList(y) /\ Len(y) = N
       /\ \A n \in 1..L : pos[n] \in 1..N /\ y[pos[n]] = vals[n][1]
       /\ \A k \in 1..N : x[k] # Hole => y[k] = x[k]
  BY <1>1, <1>8, <1>9
<1> QED BY <1>10 DEF y, L, N, FilledWith

(* The path parameters are at the places of the path parameters. *)
LEMMA AtIsMapped ==
    ASSUME NEW e, WellFormed(e), NEW location
    PROVE  At(e.params, location) = Mapped(e.params, Places(e, location))
<1> DEFINE P == e.params
           n == Len(P)
           Here(k) == P[k].location = location
           ss == [k \in 1..n |-> IF Here(k) THEN <<k>> ELSE <<>>]
           tt == [k \in 1..n |-> IF Here(k) THEN <<P[k]>> ELSE <<>>]
           id == [k \in DOMAIN P |-> k]
<1>0. n \in Nat /\ DOMAIN P = 1..n
  BY ListFacts DEF WellFormed
<1>1. Places(e, location) = FlattenSeq(ss)
  <2> DEFINE S == {k \in DOMAIN P : P[k].location = location}
             uu == [k \in DOMAIN id |-> IF id[k] \in S THEN <<id[k]>> ELSE <<>>]
  <2>1. Places(e, location) = FlattenSeq(uu)
    BY DEF Places, Keep
  <2>2. DOMAIN id = 1..n
    BY <1>0
  <2>3. \A k \in 1..n : (IF id[k] \in S THEN <<id[k]>> ELSE <<>>) = IF Here(k) THEN <<k>> ELSE <<>>
    BY <1>0
  <2>4. uu = ss
    <3> HIDE DEF id, S, Here
    <3> QED BY <2>2, <2>3
  <2> QED BY <2>1, <2>4
<1>2. At(P, location) = FlattenSeq(tt)
  <2> DEFINE S == {p \in ToSet(P) : p.location = location}
             uu == [k \in DOMAIN P |-> IF P[k] \in S THEN <<P[k]>> ELSE <<>>]
  <2>1. At(P, location) = FlattenSeq(uu)
    BY DEF At, Keep
  <2>2. \A k \in 1..n : P[k] \in S <=> Here(k)
    BY <1>0 DEF ToSet
  <2>3. uu = tt
    <3> HIDE DEF S, Here
    <3> QED BY <1>0, <2>2
  <2> QED BY <2>1, <2>3
<1>3. \A k \in 1..n : /\ IsList(ss[k]) /\ tt[k] = Mapped(P, ss[k])
  <2> SUFFICES ASSUME NEW k \in 1..n PROVE IsList(ss[k]) /\ tt[k] = Mapped(P, ss[k])
    OBVIOUS
  <2>1. CASE Here(k)
    <3> DEFINE u == <<k>>
               v == <<P[k]>>
               w == Mapped(P, u)
    <3>1. IsList(u) /\ Len(u) = 1 /\ u[1] = k /\ IsList(v) /\ Len(v) = 1 /\ v[1] = P[k]
      BY SmallLists
    <3>2. ss[k] = u /\ tt[k] = v
      BY <2>1
    <3> HIDE DEF u, v, P
    <3>3. IsList(w) /\ Len(w) = Len(u) /\ \A j \in 1..Len(u) : w[j] = P[u[j]]
      BY <3>1, MappedFacts
    <3> HIDE DEF w, ss, tt
    <3>4. \A j \in 1..Len(w) : w[j] = v[j]
      BY <3>1, <3>3
    <3>5. w = v
      BY <3>1, <3>3, <3>4, ListEqual
    <3> QED BY <3>1, <3>2, <3>5 DEF w
  <2>2. CASE ~Here(k)
    <3> DEFINE u == <<>>
               w == Mapped(P, u)
    <3>1. IsList(u) /\ Len(u) = 0
      BY SmallLists
    <3>2. ss[k] = u /\ tt[k] = <<>>
      BY <2>2
    <3> HIDE DEF u, P
    <3>3. IsList(w) /\ Len(w) = 0
      BY <3>1, MappedFacts
    <3> HIDE DEF w, ss, tt
    <3>4. w = <<>>
      BY <3>3, SmallLists
    <3> QED BY <3>1, <3>2, <3>4 DEF w
  <2> QED BY <2>1, <2>2
<1>4. ss = [k \in 1..n |-> ss[k]] /\ tt = [k \in 1..n |-> tt[k]]
  OBVIOUS
<1> HIDE DEF ss, tt, P, n
<1>5. IsList(ss) /\ Len(ss) = n /\ IsList(tt) /\ Len(tt) = n
  BY <1>0, <1>4, FunctionIsList
<1>6. IsListOfLists(ss)
  BY <1>3, <1>5 DEF IsListOfLists
<1>7. \A i \in 1..Len(ss) : tt[i] = Mapped(P, ss[i])
  BY <1>3, <1>5
<1>8. IsList(tt) /\ Len(tt) = Len(ss)
  BY <1>5
<1>9. FlattenSeq(tt) = Mapped(P, FlattenSeq(ss))
  BY <1>6, <1>7, <1>8, MappedFlatten
<1> QED BY <1>1, <1>2, <1>9 DEF P

(* A template whose placeholders are all filled in has a hole where the path has a
   placeholder. *)
LEMMA TemplateTokens ==
    ASSUME NEW p, IsList(p), NEW t, IsList(t), Len(t) = Len(p),
           \A i \in 1..Len(p) : /\ IsList(p[i]) /\ IsList(t[i]) /\ Len(t[i]) = Len(p[i])
                                /\ \A k \in 1..Len(p[i]) : t[i][k] = IF p[i][k].ph THEN Hole ELSE p[i][k]
    PROVE  /\ IsList(Tokens(t)) /\ Len(Tokens(t)) = Len(Tokens(p))
           /\ \A k \in 1..Len(Tokens(p)) :
                 Tokens(t)[k] = IF Tokens(p)[k].ph THEN Hole ELSE Tokens(p)[k]
<1> DEFINE x == Tokens(p)
           N == Len(p)
           F == [u \in ToSet(x) |-> IF u.ph THEN Hole ELSE u]
           ss == [i \in 1..N |-> <<Slash>> \o p[i]]
           tt == [i \in 1..N |-> <<Slash>> \o t[i]]
<1>0. N \in Nat /\ DOMAIN p = 1..N /\ DOMAIN t = 1..N
  BY ListFacts
<1>1. x = FlattenSeq(ss) /\ Tokens(t) = FlattenSeq(tt)
  BY <1>0 DEF Tokens
<1>2. IsList(x) /\ ToSet(x) = UNION {{Slash} \cup ToSet(p[i]) : i \in 1..N}
  BY TokensFacts
<1>3. \A i \in 1..N : Slash \in ToSet(x) /\ \A k \in 1..Len(p[i]) : p[i][k] \in ToSet(x)
  <2> SUFFICES ASSUME NEW i \in 1..N PROVE Slash \in ToSet(x) /\ \A k \in 1..Len(p[i]) : p[i][k] \in ToSet(x)
    OBVIOUS
  <2>1. DOMAIN p[i] = 1..Len(p[i])
    BY ListFacts
  <2>2. \A k \in 1..Len(p[i]) : p[i][k] \in ToSet(p[i])
    BY <2>1 DEF ToSet
  <2> HIDE DEF x
  <2> QED BY <1>2, <2>2
<1>4. F[Slash] = Slash \/ N = 0
  <2>1. Slash.ph = FALSE
    BY DEF Slash, Text
  <2>2. N # 0 => 1 \in 1..N
    BY <1>0
  <2> HIDE DEF x
  <2> QED BY <1>3, <2>1, <2>2
<1>5. \A i \in 1..N : \A k \in 1..Len(p[i]) : F[p[i][k]] = t[i][k]
  <2> HIDE DEF x
  <2> QED BY <1>3
<1> HIDE DEF F
<1>6. \A i \in 1..N : IsList(ss[i]) /\ tt[i] = Mapped(F, ss[i])
  <2> SUFFICES ASSUME NEW i \in 1..N PROVE IsList(ss[i]) /\ tt[i] = Mapped(F, ss[i])
    OBVIOUS
  <2> DEFINE s == <<Slash>>
             a == p[i]
             b == t[i]
             ms == Mapped(F, s)
             ma == Mapped(F, a)
  <2>1. IsList(s) /\ Len(s) = 1 /\ s[1] = Slash
    BY SmallLists
  <2>2. IsList(a) /\ IsList(b) /\ Len(b) = Len(a) /\ \A k \in 1..Len(a) : F[a[k]] = b[k]
    BY <1>5
  <2>3. F[Slash] = Slash
    BY <1>0, <1>4
  <2>4. ss[i] = s \o a /\ tt[i] = s \o b
    OBVIOUS
  <2> HIDE DEF s, a, b
  <2>5. IsList(ms) /\ Len(ms) = Len(s) /\ \A k \in 1..Len(s) : ms[k] = F[s[k]]
    BY <2>1, MappedFacts
  <2>6. IsList(ma) /\ Len(ma) = Len(a) /\ \A k \in 1..Len(a) : ma[k] = F[a[k]]
    BY <2>2, MappedFacts
  <2>7. IsList(s) /\ IsList(a)
    BY <2>1, <2>2
  <2>8. Mapped(F, s \o a) = ms \o ma
    BY <2>7, MappedConcat
  <2>9. IsList(s \o a)
    BY <2>7, ConcatFacts
  <2> HIDE DEF ms, ma
  <2>10. ms = s
    <3>1. \A k \in 1..Len(ms) : ms[k] = s[k]
      BY <2>1, <2>3, <2>5
    <3> QED BY <2>1, <2>5, <3>1, ListEqual
  <2>11. ma = b
    <3>1. \A k \in 1..Len(ma) : ma[k] = b[k]
      BY <2>2, <2>6
    <3> QED BY <2>2, <2>6, <3>1, ListEqual
  <2> HIDE DEF ss, tt
  <2> QED BY <2>4, <2>8, <2>9, <2>10, <2>11
<1>7. ss = [i \in 1..N |-> ss[i]] /\ tt = [i \in 1..N |-> tt[i]]
  OBVIOUS
<1> HIDE DEF ss, tt, N
<1>8. IsList(ss) /\ Len(ss) = N /\ IsList(tt) /\ Len(tt) = N
  BY <1>0, <1>7, FunctionIsList
<1>9. IsListOfLists(ss)
  BY <1>6, <1>8 DEF IsListOfLists
<1>10. IsList(tt) /\ Len(tt) = Len(ss) /\ \A i \in 1..Len(ss) : tt[i] = Mapped(F, ss[i])
  BY <1>6, <1>8
<1>11. FlattenSeq(tt) = Mapped(F, FlattenSeq(ss))
  BY <1>9, <1>10, MappedFlatten
<1> DEFINE y == Tokens(t)
<1>12. y = Mapped(F, x)
  BY <1>1, <1>11
<1> HIDE DEF x, y
<1>13. IsList(y) /\ Len(y) = Len(x) /\ \A k \in 1..Len(x) : y[k] = F[x[k]]
  BY <1>2, <1>12, MappedFacts
<1>14. DOMAIN x = 1..Len(x)
  BY <1>2, ListFacts
<1>15. \A k \in 1..Len(x) : F[x[k]] = IF x[k].ph THEN Hole ELSE x[k]
  BY <1>14 DEF F, ToSet
<1> QED BY <1>13, <1>15 DEF x, y

(* The placeholders of a path are the path parameters, one after the other, if the
   arguments come in path order. *)
LEMMA PlaceholdersInOrder ==
    ASSUME NEW e, WellFormed(e), InPathOrder(e), IsList(Tokens(e.path))
    PROVE  LET x == Tokens(e.path)
               pl == Places(e, "path")
           IN \E pos : /\ IsEnumeration(pos, Len(x), {k \in 1..Len(x) : x[k].ph})
                       /\ Len(pos) = Len(pl)
                       /\ \A n \in 1..Len(pl) :
                             /\ e.params[pl[n]].wire_name = x[pos[n]].text
                             /\ \E q \in ToSet(At(e.params, "path")) : q.name = x[pos[n]].text
<1> DEFINE P == e.params
           x == Tokens(e.path)
           pl == Places(e, "path")
           sent == At(P, "path")
           S == {t \in ToSet(x) : t.ph}
           kept == Keep(x, S)
           C == {k \in DOMAIN x : x[k] \in S}
           D == {k \in 1..Len(x) : x[k].ph}
           f == [k \in DOMAIN sent |-> sent[k].wire_name]
           g == [k \in DOMAIN kept |-> kept[k].text]
<1>0. IsList(pl) /\ Len(pl) \in Nat /\ IsList(x) /\ DOMAIN x = 1..Len(x)
  <2>1. IsList(pl) /\ Len(pl) \in Nat
    BY ArgumentPlaces
  <2> QED BY <2>1, ListFacts
<1>1. sent = Mapped(P, pl)
  BY AtIsMapped
<1>2. f = g /\ \A q \in ToSet(sent) : q.name = q.wire_name
  BY DEF InPathOrder, PlaceholderNames
<1>3. kept = Chosen(x, C)
  <2>1. Pieces(x, C) = [k \in DOMAIN x |-> IF x[k] \in S THEN <<x[k]>> ELSE <<>>]
    BY DEF Pieces, Piece
  <2> QED BY <2>1 DEF Keep, Chosen
<1>4. C = D
  BY <1>0 DEF ToSet
<1> HIDE DEF P, x, pl, sent, kept, C
<1>5. PICK pos : /\ IsEnumeration(pos, Len(x), C) /\ Len(pos) = Len(Chosen(x, C))
                 /\ \A n \in 1..Len(pos) : Chosen(x, C)[n] = x[pos[n]]
  BY <1>0, ChosenPlaces
<1>6. /\ IsEnumeration(pos, Len(x), D) /\ Len(pos) = Len(kept)
      /\ \A n \in 1..Len(pos) : kept[n] = x[pos[n]]
  BY <1>3, <1>4, <1>5
<1>7. IsList(kept) /\ Len(kept) \in Nat /\ DOMAIN kept = 1..Len(kept)
  BY <1>0, <1>3, ChosenFacts, ListFacts
<1>8. IsList(sent) /\ Len(sent) = Len(pl) /\ \A n \in 1..Len(pl) : sent[n] = P[pl[n]]
  BY <1>0, <1>1, MappedFacts
<1>9. DOMAIN sent = 1..Len(pl)
  BY <1>8, ListFacts
<1>10. /\ \A n \in 1..Len(pl) : f[n] = sent[n].wire_name
       /\ \A n \in 1..Len(kept) : g[n] = kept[n].text
       /\ f = [n \in 1..Len(pl) |-> f[n]] /\ g = [n \in 1..Len(kept) |-> g[n]]
  BY <1>7, <1>9
<1> HIDE DEF f, g
<1>11. Len(f) = Len(pl) /\ Len(g) = Len(kept)
  BY <1>0, <1>7, <1>10, FunctionIsList
<1>12. Len(kept) = Len(pl)
  BY <1>2, <1>11
<1>13. \A n \in 1..Len(pl) : sent[n] \in ToSet(sent)
  BY <1>9 DEF ToSet
<1>14. ASSUME NEW n \in 1..Len(pl)
       PROVE  /\ P[pl[n]].wire_name = x[pos[n]].text
              /\ \E q \in ToSet(sent) : q.name = x[pos[n]].text
  <2>1. sent[n].wire_name = kept[n].text
    BY <1>2, <1>10, <1>12
  <2>2. kept[n] = x[pos[n]] /\ sent[n] = P[pl[n]] /\ sent[n] \in ToSet(sent)
    BY <1>6, <1>8, <1>12, <1>13
  <2> QED BY <1>2, <2>1, <2>2
<1> QED BY <1>6, <1>12, <1>14 DEF P, x, pl, sent, D

(* The path that emitPathParams makes: every placeholder is one that the template
   leaves open, and has become the argument of its name. *)
LEMMA TargetPathTokens ==
    ASSUME NEW e, WellFormed(e), NEW args \in ArgumentLists(e), InPathOrder(e),
           \A k \in ToSet(Places(e, "path")) : PlainText(args[k])
    PROVE  LET x == Tokens(e.path)
               y == TargetPath(e, args)
           IN /\ \A u \in ToSet(Tokens(e.path_template)) : u.ph => u = Hole
              /\ IsList(x) /\ IsList(y) /\ Len(y) = Len(x)
              /\ \A k \in 1..Len(x) :
                    IF x[k].ph
                      THEN \E j \in ToSet(Places(e, "path")) :
                              e.params[j].wire_name = x[k].text /\ y[k] = args[j][1]
                      ELSE y[k] = x[k]
<1> DEFINE p == e.path
           t == e.path_template
           x == Tokens(p)
           z == Tokens(t)
           pl == Places(e, "path")
           y == TargetPath(e, args)
           names == {q.name : q \in ToSet(At(e.params, "path"))}
           vals == [n \in 1..Len(pl) |-> args[pl[n]]]
<1>1. IsPath(p) /\ t = PathTemplate(p, names)
  BY DEF WellFormed
<1>2. IsList(p) /\ \A i \in 1..Len(p) : IsList(p[i])
  BY <1>1, PathFacts
<1>3. IsList(x) /\ Len(x) \in Nat /\ DOMAIN x = 1..Len(x)
      /\ ToSet(x) = UNION {{Slash} \cup ToSet(p[i]) : i \in 1..Len(p)}
  <2> HIDE DEF p
  <2>1. IsList(x) /\ ToSet(x) = UNION {{Slash} \cup ToSet(p[i]) : i \in 1..Len(p)}
    BY <1>2, TokensFacts
  <2> HIDE DEF x
  <2> QED BY <2>1, ListFacts
<1>4. IsList(pl) /\ Len(pl) \in Nat /\ DOMAIN pl = 1..Len(pl)
      /\ \A n \in 1..Len(pl) : pl[n] \in DOMAIN e.params
  BY ArgumentPlaces, ListFacts
<1>5. PICK pos : /\ IsEnumeration(pos, Len(x), {k \in 1..Len(x) : x[k].ph})
                 /\ Len(pos) = Len(pl)
                 /\ \A n \in 1..Len(pl) :
                       /\ e.params[pl[n]].wire_name = x[pos[n]].text
                       /\ \E q \in ToSet(At(e.params, "path")) : q.name = x[pos[n]].text
  BY <1>3, PlaceholdersInOrder
<1> DEFINE C == {k \in 1..Len(x) : x[k].ph}
<1>6. ASSUME NEW k \in 1..Len(x), x[k].ph
      PROVE  x[k].text \in names /\ \E n \in 1..Len(pl) : pos[n] = k
  <2>1. k \in ToSet(pos)
    BY <1>5, <1>6 DEF IsEnumeration
  <2>2. PICK n \in 1..Len(pos) : pos[n] = k
    <3>1. DOMAIN pos = 1..Len(pos)
      BY <1>5, ListFacts DEF IsEnumeration
    <3> QED BY <2>1, <3>1 DEF ToSet
  <2> QED BY <1>5, <2>2
<1>7. \A i \in 1..Len(p) : \A k \in 1..Len(p[i]) : p[i][k] \in ToSet(x)
  <2> SUFFICES ASSUME NEW i \in 1..Len(p), NEW k \in 1..Len(p[i]) PROVE p[i][k] \in ToSet(x)
    OBVIOUS
  <2>1. DOMAIN p[i] = 1..Len(p[i])
    BY <1>2, ListFacts
  <2>2. p[i][k] \in ToSet(p[i])
    BY <2>1 DEF ToSet
  <2> HIDE DEF x, p
  <2> QED BY <1>3, <2>2
<1>8. \A u \in ToSet(x) : u.ph => u.text \in names
  <2> HIDE DEF x, names
  <2>1. \A u \in ToSet(x) : \E k \in 1..Len(x) : x[k] = u
    BY <1>3 DEF ToSet
  <2> QED BY <1>6, <2>1
<1> DEFINE Form(u) ==
             /\ IsList(u) /\ Len(u) = Len(p)
             /\ \A i \in 1..Len(p) :
                   /\ IsList(u[i]) /\ Len(u[i]) = Len(p[i]) /\ IsList(p[i])
                   /\ \A k \in 1..Len(p[i]) :
                         /\ u[i][k] = IF p[i][k].ph /\ p[i][k].text \in names THEN Hole ELSE p[i][k]
                         /\ u[i][k] # Slash /\ u[i][k] # Mark
<1>9. Form(t)
  <2>1. Form(PathTemplate(p, names))
    <3> HIDE DEF p, names
    <3> QED BY <1>1, TemplateFacts
  <2> HIDE DEF Form, t, p, names
  <2> QED BY <1>1, <2>1
<1> HIDE DEF p, t, x, pl, names
<1>10. /\ IsList(t) /\ Len(t) = Len(p)
       /\ \A i \in 1..Len(p) :
             /\ IsList(p[i]) /\ IsList(t[i]) /\ Len(t[i]) = Len(p[i])
             /\ \A k \in 1..Len(p[i]) : t[i][k] = IF p[i][k].ph THEN Hole ELSE p[i][k]
  BY <1>7, <1>8, <1>9
<1>11. /\ IsList(z) /\ Len(z) = Len(x)
       /\ \A k \in 1..Len(x) : z[k] = IF x[k].ph THEN Hole ELSE x[k]
  <2> USE DEF x
  <2> QED BY <1>2, <1>10, TemplateTokens
<1> HIDE DEF z, Form
<1>12. \A k \in 1..Len(x) : z[k] = Hole <=> x[k].ph
  <2>1. Hole.ph = TRUE
    BY DEF Hole, Placeholder
  <2> QED BY <1>11, <2>1
<1>13. IsEnumeration(pos, Len(z), C) /\ \A k \in 1..Len(z) : k \in C <=> z[k] = Hole
  BY <1>5, <1>11, <1>12
<1>14. \A n \in 1..Len(pl) : vals[n] = args[pl[n]] /\ pl[n] \in ToSet(pl)
  BY <1>4 DEF ToSet
<1>15. \A n \in 1..Len(pos) : IsList(vals[n]) /\ Len(vals[n]) = 1 /\ vals[n][1] # Hole
  <2> SUFFICES ASSUME NEW n \in 1..Len(pos)
               PROVE  IsList(vals[n]) /\ Len(vals[n]) = 1 /\ vals[n][1] # Hole
    OBVIOUS
  <2>1. n \in 1..Len(pl) /\ vals[n] = args[pl[n]] /\ pl[n] \in ToSet(pl) /\ pl[n] \in DOMAIN e.params
    BY <1>4, <1>5, <1>14
  <2>2. IsList(args[pl[n]])
    BY <2>1, ArgumentsAreLists
  <2>3. PlainText(args[pl[n]])
    BY <2>1 DEF pl
  <2>4. Hole.ph = TRUE
    BY DEF Hole, Placeholder
  <2> QED BY <2>1, <2>2, <2>3, <2>4 DEF PlainText
<1>16. PICK f : /\ y = f[Len(pl)] /\ f[0] = z
                /\ \A n \in 1..Len(pl) : f[n] = FillHole(f[n - 1], args[pl[n]])
  BY <1>4, TargetPathIs DEF pl, z, t
<1>17. \A n \in 1..Len(pos) : f[n] = FillHole(f[n - 1], vals[n])
  BY <1>5, <1>14, <1>16
<1> HIDE DEF vals, y
<1>18. FilledWith(z, pos, vals, f[Len(pos)])
  <2> HIDE DEF C
  <2>1. Filling(z, C, pos, vals, f)
    BY <1>11, <1>13, <1>15, <1>16, <1>17 DEF Filling
  <2> QED BY <2>1, FilledInOrder
<1>19. /\ IsList(y) /\ Len(y) = Len(x)
       /\ \A n \in 1..Len(pl) : y[pos[n]] = vals[n][1]
       /\ \A k \in 1..Len(x) : z[k] # Hole => y[k] = z[k]
  BY <1>5, <1>11, <1>16, <1>18 DEF FilledWith
<1>20. ASSUME NEW k \in 1..Len(x)
       PROVE  IF x[k].ph THEN \E j \in ToSet(pl) : e.params[j].wire_name = x[k].text /\ y[k] = args[j][1]
                         ELSE y[k] = x[k]
  <2>1. CASE ~x[k].ph
    BY <1>11, <1>12, <1>19, <2>1
  <2>2. CASE x[k].ph
    <3>1. PICK n \in 1..Len(pl) : pos[n] = k
      BY <1>6, <2>2
    <3>2. y[k] = args[pl[n]][1] /\ pl[n] \in ToSet(pl)
      BY <1>14, <1>19, <3>1
    <3>3. e.params[pl[n]].wire_name = x[k].text
      BY <1>5, <3>1
    <3> QED BY <2>2, <3>2, <3>3
  <2> QED BY <2>1, <2>2
<1>21. \A u \in ToSet(z) : u.ph => u = Hole
  <2>1. \A u \in ToSet(z) : \E k \in 1..Len(x) : z[k] = u
    BY <1>11, ListFacts DEF ToSet
  <2> QED BY <1>11, <2>1
<1> QED BY <1>3, <1>19, <1>20, <1>21 DEF x, p, y, pl, z, t

(* The path of a call has the segments that are meant, and no question mark. *)
LEMMA TargetPathSegments ==
    ASSUME NEW e, WellFormed(e), NEW args \in ArgumentLists(e), InPathOrder(e), WholeSegments(e.path),
           \A k \in ToSet(Places(e, "path")) : PlainText(args[k])
    PROVE  LET y == TargetPath(e, args)
           IN /\ IsList(y) /\ \A k \in 1..Len(y) : y[k] # Mark
              /\ \E at : IsCut(y, [i \in DOMAIN e.path |-> Meant(e, args, i)], at)
              /\ Fits(e.path, [i \in DOMAIN e.path |-> Meant(e, args, i)])
<1> DEFINE p == e.path
           x == Tokens(p)
           y == TargetPath(e, args)
           pl == Places(e, "path")
           P == e.params
           s == [i \in DOMAIN p |-> Meant(e, args, i)]
           Named(t) == {k \in ToSet(pl) : P[k].wire_name = t.text}
<1>1. IsPath(p)
  BY DEF WellFormed
<1>2. /\ IsList(p) /\ Len(p) \in Nat /\ DOMAIN p = 1..Len(p)
      /\ \A i \in 1..Len(p) :
            /\ IsList(p[i])
            /\ \A k \in 1..Len(p[i]) : p[i][k] \in Token /\ p[i][k] # Slash /\ p[i][k] # Mark
  BY <1>1, PathFacts, ListFacts
<1>3. /\ IsList(x) /\ IsList(y) /\ Len(y) = Len(x)
      /\ \A k \in 1..Len(x) :
            IF x[k].ph THEN \E j \in ToSet(pl) : P[j].wire_name = x[k].text /\ y[k] = args[j][1]
                       ELSE y[k] = x[k]
  BY TargetPathTokens
<1>4. ToSet(x) = UNION {{Slash} \cup ToSet(p[i]) : i \in 1..Len(p)}
  <2> HIDE DEF p
  <2> QED BY <1>2, TokensFacts
<1>5. \A j \in ToSet(pl) : /\ j \in DOMAIN P /\ IsList(args[j]) /\ Len(args[j]) = 1
                           /\ args[j][1] # Slash /\ args[j][1] # Mark
  <2> SUFFICES ASSUME NEW j \in ToSet(pl)
               PROVE  /\ j \in DOMAIN P /\ IsList(args[j]) /\ Len(args[j]) = 1
                      /\ args[j][1] # Slash /\ args[j][1] # Mark
    OBVIOUS
  <2>1. IsList(pl) /\ DOMAIN pl = 1..Len(pl) /\ \A n \in 1..Len(pl) : pl[n] \in DOMAIN P
    BY ArgumentPlaces, ListFacts
  <2>2. j \in DOMAIN P
    BY <2>1 DEF ToSet
  <2>3. IsList(args[j])
    BY <2>2, ArgumentsAreLists
  <2> QED BY <2>2, <2>3 DEF PlainText
<1>6. \A i \in 1..Len(p) : (\E k \in 1..Len(p[i]) : p[i][k].ph) => Len(p[i]) = 1
  BY <1>2, ListFacts DEF WholeSegments
<1>7. \A i \in 1..Len(p) : s[i] = IF p[i] # <<>> /\ p[i][1].ph
                                    THEN args[CHOOSE k \in Named(p[i][1]) : TRUE] ELSE p[i]
  <2> SUFFICES ASSUME NEW i \in 1..Len(p)
               PROVE  s[i] = IF p[i] # <<>> /\ p[i][1].ph
                               THEN args[CHOOSE k \in Named(p[i][1]) : TRUE] ELSE p[i]
    OBVIOUS
  <2> DEFINE hole == p[i] # <<>> /\ p[i][1].ph
             declared == CHOOSE k \in ToSet(pl) : P[k].wire_name = p[i][1].text
             named == CHOOSE k \in Named(p[i][1]) : TRUE
  <2>1. s[i] = Meant(e, args, i)
    BY <1>2
  <2>2. Meant(e, args, i) = IF hole THEN args[declared] ELSE p[i]
    BY DEF Meant
  <2>3. declared = named
    OBVIOUS
  <2>4. s[i] = IF hole THEN args[named] ELSE p[i]
    <3> HIDE DEF s, hole, declared, named
    <3> QED BY <2>1, <2>2, <2>3
  <2> HIDE DEF s
  <2> QED BY <2>4
<1>8. \A j, k \in DOMAIN P : P[j].wire_name = P[k].wire_name => j = k
  BY DEF WellFormed
<1>9. PICK at : IsCut(x, p, at)
  BY TemplateCut
<1>10. s = [i \in 1..Len(p) |-> s[i]]
  BY <1>2
<1> HIDE DEF p, x, y, P, s, pl
<1>n. Len(p) \in Nat /\ \A i \in 1..Len(p) : i = Len(p) \/ i + 1 \in 1..Len(p)
  <2>1. Len(p) \in Nat
    BY <1>2
  <2> QED BY <2>1
<1>11. ASSUME NEW i \in 1..Len(p)
       PROVE  /\ IsList(s[i]) /\ Len(s[i]) = Len(p[i])
              /\ \A k \in 1..Len(p[i]) : p[i][k].ph \/ p[i][k] = s[i][k]
              /\ \A k \in 1..Len(p[i]) :
                    at[i] + k \in 1..Len(x) => y[at[i] + k] = s[i][k] /\ s[i][k] # Slash
  <2>0. /\ IsList(p[i]) /\ Len(p[i]) \in Nat
        /\ \A k \in 1..Len(p[i]) : x[at[i] + k] = p[i][k] /\ p[i][k] # Slash
    BY <1>9, ListFacts DEF IsCut
  <2>1. CASE p[i] # <<>> /\ p[i][1].ph
    <3> DEFINE N == Named(p[i][1])
               c == CHOOSE k \in N : TRUE
    <3>1. Len(p[i]) = 1
      <4>1. Len(p[i]) # 0
        BY <2>0, <2>1, SmallLists
      <4>2. 1 \in 1..Len(p[i])
        BY <2>0, <4>1
      <4> QED BY <1>6, <2>1, <4>2
    <3>2. s[i] = args[c]
      BY <1>7, <2>1
    <3>3. \A j \in N : c = j /\ j \in ToSet(pl)
      <4> SUFFICES ASSUME NEW j \in N PROVE c = j /\ j \in ToSet(pl)
        OBVIOUS
      <4>1. c \in N
        <5> HIDE DEF N
        <5> QED BY Zenon
      <4>2. P[c].wire_name = P[j].wire_name /\ c \in DOMAIN P /\ j \in DOMAIN P
        BY <1>5, <4>1
      <4> HIDE DEF c
      <4> QED BY <1>8, <4>2
    <3>4. at[i] + 1 \in 1..Len(x)
      <4>1. /\ at[i] \in 1..Len(x) /\ at[i + 1] = at[i] + 1 + Len(p[i])
            /\ at[Len(p) + 1] = Len(x) + 1
        BY <1>9 DEF IsCut
      <4>2. Len(x) \in Nat
        BY <1>3, ListFacts
      <4>3. i = Len(p) \/ i + 1 \in 1..Len(p)
        BY <1>n
      <4>4. i + 1 \in 1..Len(p) => at[i + 1] \in 1..Len(x)
        BY <1>9 DEF IsCut
      <4> QED BY <3>1, <4>1, <4>2, <4>3, <4>4
    <3>5. x[at[i] + 1] = p[i][1] /\ p[i][1].ph
      BY <2>0, <2>1, <3>1
    <3>6. PICK j \in ToSet(pl) : P[j].wire_name = p[i][1].text /\ y[at[i] + 1] = args[j][1]
      BY <1>3, <3>4, <3>5
    <3>7. j \in N
      BY <3>6
    <3> HIDE DEF N, c
    <3>8. s[i] = args[j]
      BY <3>2, <3>3, <3>7
    <3>9. IsList(s[i]) /\ Len(s[i]) = 1 /\ s[i][1] # Slash /\ y[at[i] + 1] = s[i][1]
      BY <1>5, <3>6, <3>8
    <3>10. \A k \in 1..Len(p[i]) : k = 1
      BY <3>1
    <3>11. \A k \in 1..Len(p[i]) : p[i][k].ph
      BY <2>1, <3>10
    <3> QED BY <3>1, <3>9, <3>10, <3>11
  <2>2. CASE ~(p[i] # <<>> /\ p[i][1].ph)
    <3>1. s[i] = p[i]
      BY <1>7, <2>2
    <3>2. \A k \in 1..Len(p[i]) : ~p[i][k].ph
      <4> SUFFICES ASSUME NEW k \in 1..Len(p[i]), p[i][k].ph PROVE FALSE
        OBVIOUS
      <4>1. Len(p[i]) = 1
        BY <1>6
      <4>2. k = 1 /\ p[i] # <<>>
        BY <4>1, SmallLists
      <4> QED BY <2>2, <4>2
    <3> QED BY <1>3, <2>0, <3>1, <3>2
  <2> QED BY <2>1, <2>2
<1>12. IsList(s) /\ Len(s) = Len(p)
  BY <1>2, <1>10, FunctionIsList
<1>13. IsCut(y, s, at)
  <2>1. at[1] = 1 /\ at[Len(s) + 1] = Len(y) + 1
    BY <1>3, <1>9, <1>12 DEF IsCut
  <2>2. ASSUME NEW n \in 1..Len(s)
        PROVE  /\ IsList(s[n]) /\ at[n] \in 1..Len(y) /\ at[n + 1] = at[n] + 1 + Len(s[n])
               /\ y[at[n]] = Slash
               /\ \A k \in 1..Len(s[n]) : y[at[n] + k] = s[n][k] /\ s[n][k] # Slash
    <3>1. /\ n \in 1..Len(p) /\ at[n] \in 1..Len(x) /\ at[n + 1] = at[n] + 1 + Len(p[n])
          /\ x[at[n]] = Slash
      BY <1>9, <1>12 DEF IsCut
    <3>2. IsList(s[n]) /\ Len(s[n]) = Len(p[n])
      BY <1>11, <3>1
    <3>3. y[at[n]] = Slash
      <4>1. Slash.ph = FALSE
        BY DEF Slash, Text
      <4> QED BY <1>3, <3>1, <4>1
    <3>4. Len(p[n]) \in Nat /\ Len(x) \in Nat
      BY <1>2, <1>3, <3>1, ListFacts
    <3>5. at[n + 1] <= Len(x) + 1
      <4>1. n = Len(p) \/ n + 1 \in 1..Len(p)
        BY <1>n, <3>1
      <4>2. n + 1 \in 1..Len(p) => at[n + 1] \in 1..Len(x)
        BY <1>9 DEF IsCut
      <4>3. at[Len(p) + 1] = Len(x) + 1
        BY <1>9 DEF IsCut
      <4> QED BY <3>4, <4>1, <4>2, <4>3
    <3>6. \A k \in 1..Len(p[n]) : at[n] + k \in 1..Len(x)
      <4>1. at[n + 1] = at[n] + 1 + Len(p[n])
        BY <3>1, <3>2
      <4>2. Len(x) \in Nat /\ at[n] \in 1..Len(x) /\ Len(p[n]) \in Nat
        BY <3>1, <3>4
      <4> QED BY <3>5, <4>1, <4>2, PlacesInside
    <3>7. \A k \in 1..Len(p[n]) : y[at[n] + k] = s[n][k] /\ s[n][k] # Slash
      BY <1>11, <3>1, <3>6
    <3> QED BY <1>3, <3>1, <3>2, <3>3, <3>7
  <2> QED BY <1>3, <1>12, <2>1, <2>2 DEF IsCut
<1>14. ASSUME NEW k \in 1..Len(y) PROVE y[k] # Mark
  <2>1. k \in 1..Len(x) /\ x[k] \in ToSet(x)
    BY <1>3, ListFacts DEF ToSet
  <2>2. x[k] # Mark
    <3>1. x[k] = Slash \/ \E i \in 1..Len(p) : x[k] \in ToSet(p[i])
      BY <1>4, <2>1
    <3>2. \A i \in 1..Len(p) : \A u \in ToSet(p[i]) : u # Mark
      <4> SUFFICES ASSUME NEW i \in 1..Len(p), NEW u \in ToSet(p[i]) PROVE u # Mark
        OBVIOUS
      <4>1. DOMAIN p[i] = 1..Len(p[i])
        BY <1>2, ListFacts
      <4>2. \E m \in 1..Len(p[i]) : p[i][m] = u
        BY <4>1 DEF ToSet
      <4> QED BY <1>2, <4>2
    <3> QED BY <3>1, <3>2, TokensDiffer
  <2> QED BY <1>3, <1>5, <2>1, <2>2
<1>15. Fits(p, s)
  <2>1. \A i \in 1..Len(p) : DOMAIN p[i] = 1..Len(p[i])
    BY <1>2, ListFacts
  <2> QED BY <1>2, <1>11, <1>12, <2>1 DEF Fits
<1> QED BY <1>3, <1>13, <1>14, <1>15 DEF y, s, p

(* The path of a target ends where the first question mark is. *)
LEMMA PathOfConcat ==
    ASSUME NEW y, IsList(y), \A k \in 1..Len(y) : y[k] # Mark,
           NEW q, IsList(q), q = <<>> \/ q[1] = Mark
    PROVE  Path(y \o q) = y
<1> DEFINE w == y \o q
           marks == {k \in DOMAIN w : w[k] = Mark}
           m == CHOOSE k \in marks : \A n \in marks : k <= n
           N == Len(y)
<1>0. N \in Nat /\ Len(q) \in Nat
  BY ListFacts
<1>1. IsList(w) /\ Len(w) = N + Len(q)
  BY ConcatFacts
<1>2. \A k \in 1..N : w[k] = y[k]
  BY ConcatFacts
<1>3. \A k \in 1..Len(q) : w[N + k] = q[k]
  BY ConcatFacts
<1>4. Path(w) = IF marks = {} THEN w ELSE SubSeq(w, 1, m - 1)
  BY DEF Path
<1>5. DOMAIN w = 1..Len(w) /\ w \in Seq(ToSet(w))
  BY <1>1, ListFacts DEF IsList
<1>6. w = y \/ q # <<>>
  BY SmallLists
<1>7. \A k \in marks : k \in 1..Len(w) /\ w[k] = Mark
  BY <1>5
<1>8. \A k \in 1..Len(w) : w[k] = Mark => k \in marks
  BY <1>5
<1> HIDE DEF w, marks
<1>9. CASE q = <<>>
  <2>1. Len(w) = N
    BY <1>0, <1>1, <1>9, SmallLists
  <2>2. marks = {}
    BY <1>2, <1>7, <2>1
  <2> QED BY <1>4, <1>6, <1>9, <2>2 DEF w
<1>10. CASE q # <<>>
  <2>1. Len(q) # 0
    BY <1>10, SmallLists
  <2>2. N + 1 \in 1..Len(w) /\ 1 \in 1..Len(q)
    BY <1>0, <1>1, <2>1
  <2>3. N + 1 \in marks
    BY <1>3, <1>8, <1>10, <2>2
  <2>4. \A n \in marks : N + 1 <= n
    <3> SUFFICES ASSUME NEW n \in marks, ~(N + 1 <= n) PROVE FALSE
      OBVIOUS
    <3>1. n \in 1..Len(w) /\ w[n] = Mark
      BY <1>7
    <3>2. n \in 1..N
      BY <1>0, <1>1, <3>1
    <3> QED BY <1>2, <3>1, <3>2 DEF N
  <2>5. m \in marks /\ \A n \in marks : m <= n
    BY <2>3, <2>4, Zenon
  <2>6. m \in 1..Len(w) /\ m <= N + 1 /\ N + 1 <= m
    BY <1>7, <2>3, <2>4, <2>5
  <2> HIDE DEF m
  <2>7. m - 1 = N
    BY <1>0, <1>1, <2>6
  <2> DEFINE a == SubSeq(w, 1, N)
  <2>8. Path(w) = a
    BY <1>4, <2>3, <2>7
  <2>9. a = [k \in 1..N |-> w[k]]
    <3>1. N \in 0..Len(w)
      BY <1>0, <1>1
    <3> QED BY <1>0, <1>1, <1>5, <3>1
  <2> HIDE DEF a
  <2>10. a = [k \in 1..N |-> a[k]] /\ \A k \in 1..N : a[k] = w[k]
    BY <2>9
  <2>11. IsList(a) /\ Len(a) = N
    BY <1>0, <2>10, FunctionIsList
  <2>12. \A k \in 1..Len(a) : a[k] = y[k]
    BY <1>2, <2>10, <2>11
  <2>13. a = y
    BY <2>11, <2>12, ListEqual DEF N
  <2> QED BY <2>8, <2>13 DEF w
<1> QED BY <1>9, <1>10

(* What is given for the query is in the query, behind its name. *)
LEMMA QueryHas ==
    ASSUME NEW e, WellFormed(e), NEW args \in ArgumentLists(e),
           NEW k \in ToSet(Places(e, "query")), args[k] # <<>>
    PROVE  /\ Query(e, args) # <<>>
           /\ \E i \in 1..Len(Query(e, args)) - 1 :
                 /\ Query(e, args)[i] = Text(e.params[k].wire_name)
                 /\ Query(e, args)[i + 1] = args[k][1]
<1> DEFINE pl == Places(e, "query")
           Sent(n) == IF args[pl[n]] = <<>> THEN <<>> ELSE <<Text(e.params[pl[n]].wire_name)>> \o args[pl[n]]
           ss == [n \in DOMAIN pl |-> Sent(n)]
           query == Query(e, args)
           name == Text(e.params[k].wire_name)
           u == <<name>>
           v == args[k]
<1>1. query = FlattenSeq(ss)
  BY DEF Query
<1>2. IsList(pl) /\ Len(pl) \in Nat /\ DOMAIN pl = 1..Len(pl)
      /\ \A n \in 1..Len(pl) : pl[n] \in DOMAIN e.params
  BY ArgumentPlaces, ListFacts
<1>3. \A n \in 1..Len(pl) : IsList(args[pl[n]])
  BY <1>2, ArgumentsAreLists
<1>4. ASSUME NEW n \in 1..Len(pl) PROVE IsList(Sent(n))
  <2> DEFINE a == <<Text(e.params[pl[n]].wire_name)>>
             b == args[pl[n]]
  <2>1. IsList(a) /\ IsList(b)
    BY <1>3, SmallLists
  <2>2. IsList(a \o b)
    <3> HIDE DEF a, b
    <3> QED BY <2>1, ConcatFacts
  <2> QED BY <2>2, SmallLists
<1>5. PICK n \in 1..Len(pl) : pl[n] = k
  BY <1>2 DEF ToSet
<1>6. Sent(n) = u \o v
  BY <1>5
<1>7. IsList(u) /\ Len(u) = 1 /\ u[1] = name
  BY SmallLists
<1>8. IsList(v) /\ v # <<>>
  BY <1>3, <1>5
<1> HIDE DEF Sent, pl
<1>9. ss = [m \in 1..Len(pl) |-> ss[m]] /\ \A m \in 1..Len(pl) : ss[m] = Sent(m)
  BY <1>2
<1> HIDE DEF ss
<1>10. IsList(ss) /\ Len(ss) = Len(pl)
  BY <1>2, <1>9, FunctionIsList
<1>11. IsListOfLists(ss)
  BY <1>4, <1>9, <1>10 DEF IsListOfLists
<1> DEFINE w == u \o v
<1> HIDE DEF query, name, u, v
<1>12. IsList(u) /\ IsList(v)
  BY <1>7, <1>8
<1>13. Len(w) = Len(u) + Len(v)
  BY <1>12, ConcatFacts
<1>14. \A m \in 1..Len(u) : w[m] = u[m]
  BY <1>12, ConcatFacts
<1>15. \A m \in 1..Len(v) : w[Len(u) + m] = v[m]
  BY <1>12, ConcatFacts
<1>16. Len(v) \in Nat /\ Len(v) # 0
  BY <1>8, ListFacts, SmallLists
<1>17. ss[n] = w
  BY <1>6, <1>9
<1> HIDE DEF w
<1>18. Len(w) \in Nat /\ Len(w) >= 2 /\ w[1] = name /\ w[2] = v[1]
  <2>1. Len(w) = 1 + Len(v)
    BY <1>7, <1>13
  <2>2. 1 \in 1..Len(u) /\ 1 \in 1..Len(v)
    BY <1>7, <1>16
  <2>3. w[1] = u[1] /\ w[Len(u) + 1] = v[1]
    BY <1>14, <1>15, <2>2
  <2> QED BY <1>7, <1>16, <2>1, <2>3
<1>19. PICK off \in Nat : /\ off + Len(w) <= Len(query)
                          /\ \A m \in 1..Len(w) : query[off + m] = w[m]
  <2>1. n \in 1..Len(ss)
    BY <1>10
  <2> QED BY <1>1, <1>11, <1>17, <2>1, FlattenHas
<1>20. query[off + 1] = name /\ query[off + 2] = v[1]
  BY <1>18, <1>19
<1>21. IsList(query) /\ Len(query) \in Nat
  <2>1. IsList(query)
    BY QueryIsList DEF query
  <2> QED BY <2>1, ListFacts
<1>22. off + 1 \in 1..Len(query) - 1 /\ (off + 1) + 1 = off + 2
  BY <1>18, <1>19, <1>21
<1>23. query # <<>>
  BY <1>21, <1>22, SmallLists
<1> QED BY <1>20, <1>22, <1>23 DEF query, name, v

(* The request of a call, while it is on its way. *)
CalledOn(es, r) ==
    LET e == es[r.from]
        query == Query(e, r.args)
    IN /\ r.from \in DOMAIN es
       /\ r.args \in ArgumentLists(e)
       /\ r.verb = e.method
       /\ \E q : /\ IsList(q) /\ (q = <<>> \/ q[1] = Mark)
                 /\ r.target = TargetPath(e, r.args) \o q
                 /\ query # <<>> => q = <<Mark>> \o query
       /\ r.headers = {<<e.params[k].wire_name, r.args[k]>> :
                          k \in {m \in ToSet(Places(e, "header")) : r.args[m] # <<>>}}

CallInv == request.from # 0 => CalledOn(endpoints, request)

LEMMA CallMade ==
    ASSUME BuildInv, NEW n \in DOMAIN endpoints, NEW args \in ArgumentLists(endpoints[n]), Call(n, args)
    PROVE  CalledOn(endpoints, request')
<1> DEFINE e == endpoints[n]
           query == Query(e, args)
           queried == ToSet(At(e.params, "query"))
           always == At(e.params, "path") = <<>> /\ queried # {} /\ \A p \in queried : p.required
           x == TargetPath(e, args)
           q == IF query # <<>> \/ always THEN <<Mark>> \o query ELSE <<>>
           headers == {<<e.params[k].wire_name, args[k]>> :
                          k \in {m \in ToSet(Places(e, "header")) : args[m] # <<>>}}
<1>1. /\ request'.from = n /\ request'.args = args /\ request'.verb = e.method
      /\ request'.target = x \o q /\ request'.headers = headers
  BY DEF Call
<1>2. WellFormed(e)
  <2>1. e \in ToSet(endpoints)
    BY DEF ToSet
  <2> HIDE DEF e
  <2> QED BY <2>1, EndpointsWellFormed
<1>3. IsList(query)
  <2> HIDE DEF e
  <2>1. args \in ArgumentLists(e)
    BY DEF e
  <2> QED BY <1>2, <2>1, QueryIsList
<1>4. IsList(q) /\ (q = <<>> \/ q[1] = Mark) /\ (query # <<>> => q = <<Mark>> \o query)
  <2> HIDE DEF query, always
  <2> QED BY <1>3, QuestionMark, SmallLists
<1> HIDE DEF x, q, query, headers
<1>5. \E r : /\ IsList(r) /\ (r = <<>> \/ r[1] = Mark)
             /\ request'.target = x \o r
             /\ query # <<>> => r = <<Mark>> \o query
  BY <1>1, <1>4
<1>6. args \in ArgumentLists(e)
  OBVIOUS
<1> QED BY <1>1, <1>5, <1>6 DEF CalledOn, x, query, headers

LEMMA StepCall ==
    ASSUME BuildInv, RouteInv, CallInv, [ApiNext]_vars
    PROVE  CallInv'
<1>0. NoRequest.from = 0
  BY DEF NoRequest
<1>1. CASE Parse /\ UNCHANGED <<request, reply>>
  <2>1. phase # "done"
    BY <1>1 DEF Parse, ReadPath, EndOfPaths, BuildEndpoint, EndOfBuild
  <2>2. request' = NoRequest
    BY <1>1, <2>1 DEF RouteInv
  <2> QED BY <1>0, <2>2 DEF CallInv
<1>2. ASSUME NEW n \in DOMAIN endpoints, NEW args \in ArgumentLists(endpoints[n]), Call(n, args)
      PROVE  CallInv'
  <2>1. endpoints' = endpoints
    BY <1>2 DEF Call, parseVars
  <2>2. CalledOn(endpoints, request')
    BY <1>2, CallMade
  <2> QED BY <2>1, <2>2 DEF CallInv
<1>3. ASSUME NEW s \in Targets, NEW m \in Methods, NEW q \in {<<>>, <<Mark>>}, OtherClient(s, m, q)
      PROVE  CallInv'
  <2>1. request'.from = 0
    BY <1>3 DEF OtherClient, NoRequest
  <2> QED BY <2>1 DEF CallInv
<1>4. CASE HandleRequest
  <2>1. request' = request /\ endpoints' = endpoints
    BY <1>4 DEF HandleRequest, parseVars
  <2> QED BY <2>1 DEF CallInv
<1>5. CASE Written
  <2>1. request' = NoRequest
    BY <1>5 DEF Written
  <2> QED BY <1>0, <2>1 DEF CallInv
<1>6. CASE UNCHANGED vars
  <2>1. request' = request /\ endpoints' = endpoints
    BY <1>6 DEF vars
  <2> QED BY <2>1 DEF CallInv
<1> QED BY <1>1, <1>2, <1>3, <1>4, <1>5, <1>6 DEF ApiNext

(* Where a call arrives, and as what. *)
LEMMA CallArrives ==
    ASSUME BuildInv, RouteInv, RoutedRight, CallInv, reply # <<>>, request.from # 0,
           InPathOrder(endpoints[request.from]), WholeSegments(endpoints[request.from].path),
           \A k \in ToSet(Places(endpoints[request.from], "path")) : PlainText(request.args[k])
    PROVE  LET e == endpoints[request.from]
               args == request.args
           IN /\ RequestSegments = [i \in DOMAIN e.path |-> Meant(e, args, i)]
              /\ \E d \in ToSet(endpoints) : /\ d.function_name = reply
                                             /\ d.method = e.method
                                             /\ MatchesSegments(d.path_template, RequestSegments)
              /\ \A k \in ToSet(Places(e, "query")) :
                    args[k] # <<>> => LET sent == Text(e.params[k].wire_name)
                                      IN \E i \in 1..Len(request.target) - 1 :
                                            request.target[i] = sent /\ request.target[i + 1] = args[k][1]
              /\ \A k \in ToSet(Places(e, "header")) :
                    args[k] # <<>> => <<e.params[k].wire_name, args[k]>> \in request.headers
<1> DEFINE e == endpoints[request.from]
           args == request.args
           query == Query(e, args)
           y == TargetPath(e, args)
           x == request.target
           s == [i \in DOMAIN e.path |-> Meant(e, args, i)]
           p == e.path
           t == e.path_template
<1>1. /\ request.from \in DOMAIN endpoints
      /\ args \in ArgumentLists(e)
      /\ request.verb = e.method
      /\ request.headers = {<<e.params[k].wire_name, args[k]>> :
                              k \in {m \in ToSet(Places(e, "header")) : args[m] # <<>>}}
  BY DEF CallInv, CalledOn
<1>2. PICK q : /\ IsList(q) /\ (q = <<>> \/ q[1] = Mark)
               /\ x = y \o q
               /\ query # <<>> => q = <<Mark>> \o query
  BY DEF CallInv, CalledOn
<1>3. e \in ToSet(endpoints) /\ InPathOrder(e) /\ WholeSegments(e.path)
      /\ \A k \in ToSet(Places(e, "path")) : PlainText(args[k])
  BY <1>1 DEF ToSet
<1>4. \A k \in ToSet(Places(e, "header")) :
         args[k] # <<>> => <<e.params[k].wire_name, args[k]>> \in request.headers
  BY <1>1
<1> HIDE DEF e, args, x
<1>5. WellFormed(e)
  BY <1>3, EndpointsWellFormed
<1>6. /\ IsList(y) /\ (\A k \in 1..Len(y) : y[k] # Mark) /\ (y = <<>> \/ y[1] = Slash)
      /\ \E at : IsCut(y, s, at)
      /\ Fits(e.path, s)
  BY <1>1, <1>3, <1>5, TargetPathSegments, TargetPathFacts
<1>7. \A u \in ToSet(Tokens(e.path_template)) : u.ph => u = Hole
  BY <1>1, <1>3, <1>5, TargetPathTokens
<1> HIDE DEF y, s
<1>8. Path(x) = y
  BY <1>2, <1>6, PathOfConcat
<1>9. RequestSegments = s
  <2>1. RequestSegments = Segments(y)
    BY <1>8 DEF RequestSegments, x
  <2>2. \E bt : IsCut(y, Segments(y), bt)
    BY <1>6, SegmentsCut
  <2> QED BY <1>6, <2>1, <2>2, CutUnique
<1>10. \A n \in DOMAIN PlaceholderNames(t) : PlaceholderNames(t)[n] = ""
  <2> DEFINE z == Tokens(t)
             S == {u \in ToSet(z) : u.ph}
             kept == Keep(z, S)
  <2>1. PlaceholderNames(t) = [k \in DOMAIN kept |-> kept[k].text]
    BY DEF PlaceholderNames
  <2>2. IsList(z)
    <3>1. IsList(t) /\ \A i \in 1..Len(t) : IsList(t[i])
      BY <1>5, EndpointTemplate
    <3> HIDE DEF t
    <3> QED BY <3>1, TokensFacts
  <2> HIDE DEF z
  <2>3. IsList(kept) /\ ToSet(kept) = ToSet(z) \cap S
    <3> HIDE DEF S
    <3> QED BY <2>2, KeepFacts
  <2>4. \A k \in DOMAIN kept : kept[k] \in ToSet(kept)
    BY DEF ToSet
  <2>5. \A u \in ToSet(z) : u.ph => u = Hole
    BY <1>7 DEF z
  <2>6. Hole.text = ""
    BY DEF Hole, Placeholder
  <2> HIDE DEF kept, t
  <2>7. \A k \in DOMAIN kept : kept[k].text = ""
    BY <2>3, <2>4, <2>5, <2>6
  <2> QED BY <2>1, <2>7
<1>11. reply # NotFound
  <2> SUFFICES ASSUME reply = NotFound PROVE FALSE
    OBVIOUS
  <2>1. ~Fits(e.path, RequestSegments)
    BY <1>1, <1>3, <1>10 DEF RoutedRight, Routed
  <2> QED BY <1>6, <1>9, <2>1
<1>12. \E d \in ToSet(endpoints) : /\ d.function_name = reply
                                   /\ d.method = e.method
                                   /\ MatchesSegments(d.path_template, RequestSegments)
  BY <1>1, <1>11 DEF RoutedRight, Routed
<1>13. ASSUME NEW k \in ToSet(Places(e, "query")), args[k] # <<>>
       PROVE  \E i \in 1..Len(x) - 1 : x[i] = Text(e.params[k].wire_name) /\ x[i + 1] = args[k][1]
  <2> DEFINE name == Text(e.params[k].wire_name)
             mark == <<Mark>>
  <2>1. query # <<>> /\ \E i \in 1..Len(query) - 1 : query[i] = name /\ query[i + 1] = args[k][1]
    BY <1>1, <1>5, <1>13, QueryHas
  <2>2. IsList(query) /\ Len(query) \in Nat
    BY <1>1, <1>5, QueryIsList, ListFacts
  <2>3. IsList(mark) /\ Len(mark) = 1
    BY SmallLists
  <2> HIDE DEF query, name, mark
  <2>4. PICK i \in 1..Len(query) - 1 : query[i] = name /\ query[i + 1] = args[k][1]
    BY <2>1
  <2>5. q = mark \o query
    BY <1>2, <2>1 DEF mark
  <2>6. Len(q) = 1 + Len(query) /\ \A m \in 1..Len(query) : q[1 + m] = query[m]
    <3>1. IsList(mark) /\ IsList(query)
      BY <2>2, <2>3
    <3>2. Len(mark \o query) = Len(mark) + Len(query)
      BY <3>1, ConcatFacts
    <3>3. \A m \in 1..Len(query) : (mark \o query)[Len(mark) + m] = query[m]
      BY <3>1, ConcatFacts
    <3> QED BY <2>3, <2>5, <3>2, <3>3
  <2>7. Len(x) = Len(y) + Len(q) /\ \A m \in 1..Len(q) : x[Len(y) + m] = q[m]
    <3>1. IsList(y) /\ IsList(q)
      BY <1>2, <1>6
    <3>2. Len(y \o q) = Len(y) + Len(q)
      BY <3>1, ConcatFacts
    <3>3. \A m \in 1..Len(q) : (y \o q)[Len(y) + m] = q[m]
      BY <3>1, ConcatFacts
    <3> QED BY <1>2, <3>2, <3>3
  <2>8. Len(y) \in Nat
    BY <1>6, ListFacts
  <2>9. i \in 1..Len(query) /\ i + 1 \in 1..Len(query)
    BY <2>2
  <2>10. 1 + i \in 1..Len(q) /\ 1 + (i + 1) \in 1..Len(q)
    BY <2>2, <2>6, <2>9
  <2>11. q[1 + i] = name /\ q[1 + (i + 1)] = args[k][1]
    BY <2>4, <2>6, <2>9
  <2>12. x[Len(y) + (1 + i)] = name /\ x[Len(y) + (1 + (i + 1))] = args[k][1]
    BY <2>7, <2>10, <2>11
  <2> DEFINE j == Len(y) + (1 + i)
  <2>13. j \in 1..Len(x) - 1 /\ Len(y) + (1 + (i + 1)) = j + 1
    BY <2>2, <2>6, <2>7, <2>8
  <2> HIDE DEF j
  <2>14. x[j] = name /\ x[j + 1] = args[k][1]
    BY <2>12, <2>13 DEF j
  <2> QED BY <2>13, <2>14 DEF name
<1> QED BY <1>4, <1>9, <1>12, <1>13 DEF e, args, s, x

(* emitMethodBody and handle_request together: a call on the client arrives as the
   call it was, for every document whose paths and every call whose values are of
   the form that RoundTrip states. *)
THEOREM CallsArrive == ApiSpec => []RoundTrip
<1>1. ApiInit => CallInv
  BY DEF ApiInit, NoRequest, CallInv
<1>2. BuildInv /\ RouteInv /\ CallInv /\ [ApiNext]_vars => CallInv'
  BY StepCall
<1>3. BuildInv /\ RouteInv /\ RoutedRight /\ CallInv => RoundTrip
  <2> SUFFICES ASSUME BuildInv, RouteInv, RoutedRight, CallInv, Routed, request.from # 0,
                      InPathOrder(endpoints[request.from]),
                      WholeSegments(endpoints[request.from].path),
                      \A k \in ToSet(Places(endpoints[request.from], "path")) : PlainText(request.args[k])
               PROVE  LET e == endpoints[request.from]
                          args == request.args
                      IN /\ RequestSegments = [i \in DOMAIN e.path |-> Meant(e, args, i)]
                         /\ \E d \in ToSet(endpoints) : /\ d.function_name = reply
                                                        /\ d.method = e.method
                                                        /\ MatchesSegments(d.path_template, RequestSegments)
                         /\ \A k \in ToSet(Places(e, "query")) :
                               args[k] # <<>> =>
                                 LET sent == Text(e.params[k].wire_name)
                                 IN \E i \in 1..Len(request.target) - 1 :
                                       request.target[i] = sent /\ request.target[i + 1] = args[k][1]
                         /\ \A k \in ToSet(Places(e, "header")) :
                               args[k] # <<>> => <<e.params[k].wire_name, args[k]>> \in request.headers
    BY Zenon DEF RoundTrip
  <2>1. reply # <<>>
    BY DEF Routed
  <2> QED BY <2>1, CallArrives
<1> QED BY <1>1, <1>2, <1>3, ApiInduction, RoutedAsDeclared, PTL DEF ApiSpec
=============================================================================
