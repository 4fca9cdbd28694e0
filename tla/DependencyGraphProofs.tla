----------------------- MODULE DependencyGraphProofs -----------------------
(***************************************************************************)
(* Proofs about DependencyGraph, for schemas of any size: the depth-first   *)
(* search reports a cycle iff there is one, and Kahn's loop puts            *)
(* dependencies first.                                                      *)
(***************************************************************************)
EXTENDS DependencyGraph, FiniteSetTheorems, SequenceTheorems, TLAPS

-----------------------------------------------------------------------------
(* The inductive invariant. *)

OnPath == {frames[i].node : i \in DOMAIN frames}

\* Nodes the search is done with.
Black == visited \ OnPath

\* S has no way out of itself that ends: every member depends on a member.
Cyclic(S) == \A a \in S : \E b \in S : DependsOn(a, b)

GraphInv ==
  /\ ast \in [Type -> Seq(Name)]
  /\ pc \in {"build", "detect", "sort", "done", "cyclic"}
  /\ nodes \subseteq Name
  /\ adjacency \in [Name -> Seq(Name)]
  /\ \A n \in Name : Elements(adjacency[n]) \subseteq nodes

\* Which variables a phase has not touched yet, and what it leaves behind.
PhaseInv ==
  /\ pc = "build" => visited = {} /\ cycles = {}
  /\ pc # "detect" => frames = <<>>
  /\ pc \in {"sort", "done"} => nodes \subseteq visited /\ cycles = {}
  /\ pc \notin {"sort", "done"} => queue = <<>> /\ result = <<>>

\* The frames are a path of the graph, entered through the neighbour before
\* the next one to look at.
PathInv ==
  /\ visited \subseteq nodes
  /\ frames \in Seq([node : nodes, next : Nat \ {0}])
  /\ OnPath \subseteq visited
  /\ \A i, j \in DOMAIN frames : frames[i].node = frames[j].node => i = j
  /\ \A i \in DOMAIN frames : frames[i].next <= Len(adjacency[frames[i].node]) + 1
  /\ \A i \in DOMAIN frames : i < Len(frames) =>
       /\ frames[i].next > 1
       /\ adjacency[frames[i].node][frames[i].next - 1] = frames[i + 1].node

\* Until a cycle is found, what was looked at is finished (or being entered),
\* and nothing finished leads out of the finished nodes or in a circle.
NoCycleInv ==
  cycles = {} =>
    /\ \A a \in Black : Elements(adjacency[a]) \subseteq Black
    /\ \A i \in DOMAIN frames : \A k \in 1 .. frames[i].next - 1 :
         \/ adjacency[frames[i].node][k] \in Black
         \/ i < Len(frames) /\ k = frames[i].next - 1
    /\ \A S \in SUBSET Black : Cyclic(S) => S = {}

RealCycle(c) ==
  /\ c \in Seq(Name) /\ Len(c) > 1
  /\ c[1] = c[Len(c)]
  /\ \A i \in 1 .. Len(c) - 1 : DependsOn(c[i], c[i + 1])

CycleInv == \A c \in cycles : RealCycle(c)

Distinct(s) == \A i, j \in DOMAIN s : s[i] = s[j] => i = j

\* Kahn's loop: the degree of a node counts its dependencies that are not out
\* yet, and a node is queued or out exactly if that count is zero.
KahnInv ==
  /\ queue \in Seq(nodes) /\ Distinct(queue)
  /\ result \in Seq(nodes) /\ Distinct(result)
  /\ Elements(queue) \cap Elements(result) = {}
  /\ DependenciesFirst
  /\ pc \in {"sort", "done"} =>
       /\ degree \in [Name -> Nat]
       /\ \A n \in Name : degree[n] = Cardinality(Positions(n, Name \ Elements(result)))
       /\ \A n \in nodes : degree[n] = 0 <=> n \in Elements(queue) \cup Elements(result)

SearchInv == GraphInv /\ PhaseInv /\ PathInv /\ NoCycleInv /\ CycleInv
Inv == SearchInv /\ KahnInv

-----------------------------------------------------------------------------
(* Sequences and the sets of their elements. *)

\* The members of a sequence over S are in S, and the empty one has none.
LEMMA ElementsType ==
  ASSUME NEW S, NEW s \in Seq(S)
  PROVE  Elements(s) \subseteq S /\ (Elements(s) = {} <=> s = <<>>)
<1>1. DOMAIN s = 1 .. Len(s) /\ Len(s) \in Nat
  BY LenProperties
<1>2. Len(s) = 0 <=> s = <<>>
  BY EmptySeq, SeqEqual
<1>3. \A i \in 1 .. Len(s) : s[i] \in S
  BY ElementOfSeq
<1>4. s # <<>> => 1 \in DOMAIN s
  BY <1>1, <1>2
<1>5. s = <<>> => DOMAIN s = {}
  BY <1>1, <1>2
<1> QED BY <1>1, <1>3, <1>4, <1>5 DEF Elements

\* Appending adds one member, and keeps distinct members distinct if it is new.
LEMMA ElementsOfAppend ==
  ASSUME NEW S, NEW s \in Seq(S), NEW x \in S
  PROVE  /\ Elements(Append(s, x)) = Elements(s) \cup {x}
         /\ Distinct(s) /\ x \notin Elements(s) => Distinct(Append(s, x))
<1>1. /\ Len(Append(s, x)) = Len(s) + 1 /\ Append(s, x) \in Seq(S)
      /\ \A i \in 1 .. Len(s) : Append(s, x)[i] = s[i]
      /\ Append(s, x)[Len(s) + 1] = x
  BY AppendProperties
<1>2. /\ DOMAIN s = 1 .. Len(s) /\ Len(s) \in Nat
      /\ DOMAIN Append(s, x) = 1 .. Len(s) + 1
  BY <1>1, LenProperties
<1>3. Elements(Append(s, x)) = Elements(s) \cup {x}
  BY <1>1, <1>2 DEF Elements
<1>4. ASSUME Distinct(s), x \notin Elements(s)
      PROVE  Distinct(Append(s, x))
  BY <1>1, <1>2, <1>4 DEF Elements, Distinct
<1> QED BY <1>3, <1>4

\* Taking the head of a sequence without repetitions removes that member.
LEMMA ElementsOfTail ==
  ASSUME NEW S, NEW s \in Seq(S), s # <<>>, Distinct(s)
  PROVE  /\ Head(s) \in Elements(s) /\ Head(s) \in S
         /\ Tail(s) \in Seq(S) /\ Distinct(Tail(s))
         /\ Elements(Tail(s)) = Elements(s) \ {Head(s)}
<1>1. /\ Head(s) = s[1] /\ Tail(s) \in Seq(S) /\ Len(Tail(s)) = Len(s) - 1
      /\ \A i \in 1 .. Len(Tail(s)) : Tail(s)[i] = s[i + 1]
  BY HeadTailProperties
<1>2. /\ DOMAIN s = 1 .. Len(s) /\ Len(s) \in Nat \ {0}
      /\ DOMAIN Tail(s) = 1 .. Len(s) - 1
  BY <1>1, LenProperties, EmptySeq
<1>3. Distinct(Tail(s))
  BY <1>1, <1>2 DEF Distinct
<1>4. \A e : e \in Elements(Tail(s)) <=> e \in Elements(s) \ {Head(s)}
  <2>1. ASSUME NEW i \in DOMAIN Tail(s)
        PROVE  Tail(s)[i] \in Elements(s) \ {Head(s)}
    BY <1>1, <1>2 DEF Elements, Distinct
  <2>2. ASSUME NEW i \in DOMAIN s, s[i] # Head(s)
        PROVE  s[i] \in Elements(Tail(s))
    <3>1. i - 1 \in DOMAIN Tail(s) /\ Tail(s)[i - 1] = s[i]
      BY <1>1, <1>2, <2>2
    <3> QED BY <3>1 DEF Elements
  <2> QED BY <2>1, <2>2 DEF Elements
<1>5. Head(s) \in Elements(s)
  BY <1>1, <1>2 DEF Elements
<1> QED BY <1>1, <1>3, <1>4, <1>5, ElementOfSeq, <1>2

\* Concatenating sequences without common members.
LEMMA ElementsOfConcat ==
  ASSUME NEW S, NEW s \in Seq(S), NEW t \in Seq(S)
  PROVE  /\ Elements(s \o t) = Elements(s) \cup Elements(t)
         /\ Distinct(s) /\ Distinct(t) /\ Elements(s) \cap Elements(t) = {}
              => Distinct(s \o t)
<1>1. /\ s \o t \in Seq(S) /\ Len(s \o t) = Len(s) + Len(t)
      /\ \A i \in 1 .. Len(s) + Len(t) :
           (s \o t)[i] = IF i <= Len(s) THEN s[i] ELSE t[i - Len(s)]
  BY ConcatProperties
<1>2. /\ DOMAIN s = 1 .. Len(s) /\ Len(s) \in Nat
      /\ DOMAIN t = 1 .. Len(t) /\ Len(t) \in Nat
      /\ DOMAIN (s \o t) = 1 .. Len(s) + Len(t)
  BY <1>1, LenProperties
<1>3. \A i \in DOMAIN s : i \in DOMAIN (s \o t) /\ (s \o t)[i] = s[i]
  BY <1>1, <1>2
<1>4. \A i \in DOMAIN t : i + Len(s) \in DOMAIN (s \o t) /\ (s \o t)[i + Len(s)] = t[i]
  BY <1>1, <1>2
<1>5. \A i \in DOMAIN (s \o t) :
         \/ i \in DOMAIN s /\ (s \o t)[i] = s[i]
         \/ i - Len(s) \in DOMAIN t /\ (s \o t)[i] = t[i - Len(s)]
  BY <1>1, <1>2
<1>6. Elements(s \o t) = Elements(s) \cup Elements(t)
  <2>1. \A i \in DOMAIN s : s[i] \in Elements(s \o t)
    BY <1>3 DEF Elements
  <2>2. \A i \in DOMAIN t : t[i] \in Elements(s \o t)
    BY <1>4 DEF Elements
  <2>3. \A i \in DOMAIN (s \o t) : (s \o t)[i] \in Elements(s) \cup Elements(t)
    BY <1>5 DEF Elements
  <2> QED BY <2>1, <2>2, <2>3 DEF Elements
<1>7. ASSUME Distinct(s), Distinct(t), Elements(s) \cap Elements(t) = {}
      PROVE  Distinct(s \o t)
  <2> SUFFICES ASSUME NEW i \in DOMAIN (s \o t), NEW j \in DOMAIN (s \o t),
                      (s \o t)[i] = (s \o t)[j]
               PROVE  i = j
    BY DEF Distinct
  <2>1. \A k \in DOMAIN s, l \in DOMAIN t : s[k] # t[l]
    BY <1>7 DEF Elements
  <2>2. CASE i \in DOMAIN s /\ (s \o t)[i] = s[i]
    BY <1>5, <1>7, <2>1, <2>2 DEF Distinct
  <2>3. CASE i - Len(s) \in DOMAIN t /\ (s \o t)[i] = t[i - Len(s)]
    <3>1. j - Len(s) \in DOMAIN t /\ t[i - Len(s)] = t[j - Len(s)]
      BY <1>5, <2>1, <2>3
    <3>2. i - Len(s) = j - Len(s)
      BY <1>7, <2>3, <3>1 DEF Distinct
    <3> QED BY <3>2, <1>2
  <2> QED BY <1>5, <2>2, <2>3
<1> QED BY <1>6, <1>7

\* An ordering of a finite set is a sequence of its members, each once.
LEMMA OrderingsAre ==
  ASSUME NEW S, IsFiniteSet(S), NEW s \in Orderings(S)
  PROVE  s \in Seq(S) /\ Elements(s) = S /\ Distinct(s)
<1>1. Cardinality(S) \in Nat
  BY FS_CardinalityType
<1>2. s \in [1 .. Cardinality(S) -> S]
  BY DEF Orderings
<1> QED BY <1>1, <1>2, IsASeq DEF Orderings, Distinct
-----------------------------------------------------------------------------
(* Building the graph. *)

\* With no frames nothing is on the path.
LEMMA NoFrames ==
  ASSUME frames = <<>>
  PROVE  OnPath = {} /\ Black = visited
<1>1. DOMAIN frames = {}
  OBVIOUS
<1> QED BY <1>1 DEF OnPath, Black

\* Before the search the invariant says nothing but that the graph is one.
LEMMA InitInv == Init => Inv
<1> SUFFICES ASSUME Init PROVE Inv
  OBVIOUS
<1>1. GraphInv
  <2>1. UNION {[1 .. k -> Name] : k \in 0 .. MaxRefs} \subseteq Seq(Name)
    BY SeqDef, MaxRefsAssumption
  <2>2. ast \in [Type -> Seq(Name)]
    BY <2>1 DEF Init
  <2>3. <<>> \in Seq(Name) /\ Elements(<<>>) = {}
    BY EmptySeq, ElementsType
  <2> QED BY <2>2, <2>3 DEF Init, GraphInv
<1>2. DOMAIN frames = {} /\ DOMAIN queue = {} /\ DOMAIN result = {}
  BY DEF Init
<1>3. PhaseInv /\ CycleInv
  BY DEF Init, PhaseInv, CycleInv
<1>4. PathInv
  BY <1>2, EmptySeq DEF Init, PathInv, OnPath
<1>5. NoCycleInv
  BY <1>2 DEF Init, NoCycleInv, Black
<1>6. KahnInv
  BY <1>2, EmptySeq DEF Init, KahnInv, Distinct, Elements, DependenciesFirst
<1> QED BY <1>1, <1>3, <1>4, <1>5, <1>6 DEF Inv, SearchInv

\* Adding the edges of one type adds their ends to the nodes.
LEMMA BuildInv ==
  ASSUME Inv, NEW t \in Type, BuildDependencies(t)
  PROVE  Inv'
<1> USE DEF Inv, SearchInv
<1>1. /\ visited = {} /\ cycles = {} /\ frames = <<>> /\ queue = <<>> /\ result = <<>>
      /\ UNCHANGED <<ast, pc, visited, cycles, frames, queue, result>> /\ pc = "build"
  BY DEF BuildDependencies, PhaseInv, detectVars, sortVars
<1>2. GraphInv'
  <2>1. ast[t] \in Seq(Name) /\ Elements(ast[t]) \subseteq Name
    BY ElementsType DEF GraphInv
  <2>2. t \in Name
    BY DEF Name
  <2>3. adjacency' = [adjacency EXCEPT ![t] = ast[t]]
    BY DEF BuildDependencies
  <2>4. nodes' \subseteq Name /\ nodes \subseteq nodes' /\ Elements(ast[t]) \subseteq nodes'
    BY <2>1, <2>2 DEF BuildDependencies, GraphInv
  <2>5. \A n \in Name : Elements(adjacency'[n]) \subseteq nodes'
    BY <2>1, <2>2, <2>3, <2>4 DEF GraphInv
  <2> QED BY <1>1, <2>1, <2>2, <2>3, <2>4, <2>5 DEF GraphInv
<1>3. DOMAIN frames' = {} /\ DOMAIN queue' = {} /\ DOMAIN result' = {}
  BY <1>1
<1>4. PhaseInv' /\ CycleInv'
  BY <1>1 DEF PhaseInv, CycleInv
<1>5. PathInv'
  BY <1>1, <1>3, EmptySeq DEF PathInv, OnPath
<1>6. NoCycleInv'
  BY <1>1, <1>3 DEF NoCycleInv, Black
<1>7. KahnInv'
  BY <1>1, <1>3, EmptySeq DEF KahnInv, Distinct, Elements, DependenciesFirst
<1> QED BY <1>2, <1>4, <1>5, <1>6, <1>7

\* The steps of the search and the end of the build do not touch the sort.
LEMMA KahnUntouched ==
  ASSUME KahnInv, UNCHANGED <<nodes, adjacency, degree, queue, result>>,
         pc' \in {"sort", "done"} => pc \in {"sort", "done"}
  PROVE  KahnInv'
BY SMTT(30) DEF KahnInv, Distinct, Elements, DependenciesFirst, Positions

\* The steps that leave graph and search alone.
LEMMA SearchUntouched ==
  ASSUME SearchInv, UNCHANGED <<ast, nodes, adjacency, visited, frames, cycles>>
  PROVE  PathInv' /\ NoCycleInv' /\ CycleInv'
<1>1. PathInv'
  BY DEF SearchInv, PathInv, OnPath
<1>2. NoCycleInv'
  <2>1. Black' = Black
    BY DEF Black, OnPath
  <2>2. \A a : Elements(adjacency[a])' = Elements(adjacency[a])
    BY DEF Elements
  <2>3. NoCycleInv
    BY DEF SearchInv
  <2>4. \A S \in SUBSET Black : Cyclic(S)' => Cyclic(S)
    BY <2>2 DEF Cyclic, DependsOn
  <2>5. ASSUME cycles = {}
        PROVE  \A S \in SUBSET Black : Cyclic(S)' => S = {}
    BY <2>3, <2>4, <2>5 DEF NoCycleInv
  <2> QED BY <2>1, <2>2, <2>3, <2>5 DEF NoCycleInv
<1>3. CycleInv'
  BY DEF SearchInv, CycleInv, RealCycle, DependsOn, Elements
<1> QED BY <1>1, <1>2, <1>3

\* After the build the graph stays as it is.
LEMMA GraphUntouched ==
  ASSUME GraphInv, UNCHANGED <<ast, nodes, adjacency>>,
         pc' \in {"build", "detect", "sort", "done", "cyclic"}
  PROVE  GraphInv'
BY DEF GraphInv, Elements

\* The search starts with what the build left.
LEMMA BuildFromASTInv ==
  ASSUME Inv, BuildFromAST
  PROVE  Inv'
<1>1. /\ pc = "build" /\ pc' = "detect"
      /\ UNCHANGED <<ast, nodes, adjacency, visited, frames, cycles, degree, queue, result>>
  BY DEF BuildFromAST, buildVars, detectVars, sortVars
<1>2. GraphInv'
  BY <1>1, GraphUntouched DEF Inv, SearchInv
<1>3. PhaseInv'
  BY <1>1 DEF Inv, SearchInv, PhaseInv
<1>4. PathInv' /\ NoCycleInv' /\ CycleInv'
  BY <1>1, SearchUntouched DEF Inv
<1>5. KahnInv'
  BY <1>1, KahnUntouched DEF Inv
<1> QED BY <1>2, <1>3, <1>4, <1>5 DEF Inv, SearchInv
-----------------------------------------------------------------------------
(* The search. *)

Frame == [node : nodes, next : Nat \ {0}]

\* What frames, or frames with the top advanced, look like next to frames: the
\* same nodes, and only the top may have gone on to its next neighbour.
Follows(fs, n) ==
  /\ fs \in Seq(Frame) /\ Len(fs) = Len(frames)
  /\ \A i \in 1 .. Len(frames) : fs[i].node = frames[i].node
  /\ \A i \in 1 .. Len(frames) - 1 : fs[i].next = frames[i].next
  /\ Len(frames) > 0 =>
       /\ fs[Len(frames)].next = frames[Len(frames)].next + 1
       /\ frames[Len(frames)].next <= Len(adjacency[frames[Len(frames)].node])
       /\ adjacency[frames[Len(frames)].node][frames[Len(frames)].next] = n

\* The top frame, advanced.
LEMMA AdvancedFollows ==
  ASSUME PathInv, GraphInv, HasNeighbor
  PROVE  Follows(Advanced, Neighbor) /\ Neighbor \in nodes /\ Len(frames) \in Nat \ {0}
<1> DEFINE l == Len(frames)
<1>1. frames \in Seq(Frame) /\ l \in Nat \ {0} /\ l \in 1 .. Len(frames)
  BY EmptySeq, LenProperties DEF PathInv, Frame, HasNeighbor
<1>2. frames[l] \in Frame /\ frames[l].node \in Name
  <2>1. frames[l] \in Frame
    BY <1>1, ElementOfSeq
  <2> QED BY <2>1 DEF GraphInv, Frame
<1>3. [frames[l] EXCEPT !.next = @ + 1] \in Frame
  BY <1>2 DEF Frame
<1>4. Advanced = [frames EXCEPT ![l] = [frames[l] EXCEPT !.next = @ + 1]]
  BY DEF Advanced
<1>5. /\ Advanced \in Seq(Frame) /\ Len(Advanced) = l
      /\ \A i \in 1 .. l : Advanced[i] = IF i = l THEN [frames[l] EXCEPT !.next = @ + 1]
                                           ELSE frames[i]
  BY <1>1, <1>3, <1>4, ExceptSeq
<1>6. /\ \A i \in 1 .. l - 1 : Advanced[i] = frames[i]
      /\ Advanced[l].node = frames[l].node /\ Advanced[l].next = frames[l].next + 1
  BY <1>1, <1>2, <1>5, SMTT(30) DEF Frame
<1>7. frames[l].next <= Len(adjacency[frames[l].node])
  BY DEF HasNeighbor, Top
<1>8. adjacency[frames[l].node][frames[l].next] = Neighbor
  BY DEF Neighbor, Top
<1>9. Neighbor \in nodes
  <2>1. adjacency[frames[l].node] \in Seq(Name)
    BY <1>2 DEF GraphInv
  <2>2. frames[l].next \in DOMAIN adjacency[frames[l].node]
    BY <1>2, <1>7, <2>1, LenProperties DEF Frame
  <2>3. Neighbor \in Elements(adjacency[frames[l].node])
    BY <1>8, <2>2 DEF Elements
  <2> QED BY <1>2, <2>3 DEF GraphInv
<1>10. \A i \in 1 .. l : Advanced[i].node = frames[i].node
  BY <1>1, <1>6
<1> QED BY <1>1, <1>5, <1>6, <1>7, <1>8, <1>9, <1>10 DEF Follows

\* Entering a new node: it goes on the path, and nothing gets finished.
LEMMA EnterInv ==
  ASSUME SearchInv, UNCHANGED <<nodes, adjacency>>,
         NEW n \in nodes \ visited, NEW fs, Follows(fs, n), Enter(n, fs)
  PROVE  PathInv' /\ NoCycleInv' /\ CycleInv'
<1> DEFINE l == Len(frames)
<1>1. frames \in Seq(Frame) /\ l \in Nat /\ DOMAIN frames = 1 .. l
  BY LenProperties DEF SearchInv, PathInv, Frame
<1>2. [node |-> n, next |-> 1] \in Frame
  BY DEF Frame
<1>3. fs \in Seq(Frame) /\ Len(fs) = l
  BY DEF Follows
<1>4. /\ frames' \in Seq(Frame) /\ Len(frames') = l + 1 /\ DOMAIN frames' = 1 .. l + 1
      /\ \A i \in 1 .. l : frames'[i] = fs[i]
      /\ frames'[l + 1] = [node |-> n, next |-> 1]
  BY <1>2, <1>3, AppendProperties, LenProperties DEF Enter
<1>5. \A i \in 1 .. l : frames'[i].node = frames[i].node /\ frames[i].node # n
                          /\ frames[i].node \in Name
  BY <1>1, <1>4, ElementOfSeq, ZenonT(60) DEF Follows, SearchInv, PathInv, OnPath, GraphInv, Frame
<1>6. frames'[l + 1].node = n /\ frames'[l + 1].next = 1
  BY <1>4
<1>7. \A i \in 1 .. l - 1 : frames'[i].next = frames[i].next
  BY <1>1, <1>4, SMTT(30) DEF Follows
<1>8. l > 0 => /\ frames'[l].next = frames[l].next + 1
               /\ frames[l].next <= Len(adjacency[frames[l].node])
               /\ adjacency[frames[l].node][frames[l].next] = n
  BY <1>1, <1>4 DEF Follows
<1>9. OnPath' = OnPath \cup {n}
  <2>1. \A x \in OnPath' : x \in OnPath \cup {n}
    BY <1>1, <1>4, <1>5, <1>6 DEF OnPath
  <2>2. n \in OnPath'
    BY <1>1, <1>4, <1>6 DEF OnPath
  <2>3. \A i \in DOMAIN frames : frames[i].node \in OnPath'
    BY <1>1, <1>4, <1>5 DEF OnPath
  <2> QED BY <2>1, <2>2, <2>3 DEF OnPath
<1>10. Black' = Black
  BY <1>9 DEF Black, Enter
<1>11. \A i \in 1 .. l : frames[i].next \in Nat \ {0}
  <2>1. \A i \in 1 .. l : frames[i] \in Frame
    BY <1>1, ElementOfSeq
  <2> QED BY <2>1 DEF Frame
<1>12. n \in Name /\ Len(adjacency[n]) \in Nat
  BY LenProperties DEF SearchInv, GraphInv
<1>13. PathInv'
  <2>1. visited' \subseteq nodes' /\ OnPath' \subseteq visited'
    BY <1>9 DEF Enter, SearchInv, PathInv
  <2>2. frames' \in Seq([node : nodes, next : Nat \ {0}]')
    BY <1>4 DEF Frame
  <2>3. \A i, j \in DOMAIN frames' : frames'[i].node = frames'[j].node => i = j
    BY <1>1, <1>4, <1>5, <1>6, SMTT(30) DEF SearchInv, PathInv
  <2>4. \A i \in DOMAIN frames' : frames'[i].next <= Len(adjacency[frames'[i].node]) + 1
    <3>1. \A i \in 1 .. l - 1 : frames'[i].next <= Len(adjacency[frames'[i].node]) + 1
      <4>1. \A i \in 1 .. l : frames[i].next <= Len(adjacency[frames[i].node]) + 1
        BY <1>1 DEF SearchInv, PathInv
      <4>2. \A i \in 1 .. l - 1 : i \in 1 .. l
        BY <1>1
      <4> QED BY <1>5, <1>7, <4>1, <4>2
    <3>2. l > 0 => frames'[l].next <= Len(adjacency[frames'[l].node]) + 1
      <4>1. l > 0 => Len(adjacency[frames[l].node]) \in Nat
        BY <1>1, <1>5, LenProperties DEF SearchInv, GraphInv
      <4> QED BY <1>1, <1>5, <1>8, <1>11, <4>1
    <3>3. frames'[l + 1].next <= Len(adjacency[frames'[l + 1].node]) + 1
      BY <1>6, <1>12
    <3> SUFFICES ASSUME NEW i \in 1 .. l + 1
                 PROVE  frames'[i].next <= Len(adjacency[frames'[i].node]) + 1
      BY <1>4
    <3>4. CASE i \in 1 .. l - 1
      BY <3>1, <3>4
    <3>5. CASE i = l /\ l > 0
      BY <3>2, <3>5
    <3>6. CASE i = l + 1
      BY <3>3, <3>6
    <3>7. l \in Nat
      BY <1>1
    <3>8. i \in 1 .. l - 1 \/ (i = l /\ l > 0) \/ i = l + 1
      <4> HIDE DEF l
      <4> QED BY <3>7
    <3> QED BY <3>4, <3>5, <3>6, <3>8
  <2>5. \A i \in DOMAIN frames' : i < Len(frames') =>
          /\ frames'[i].next > 1
          /\ adjacency[frames'[i].node][frames'[i].next - 1] = frames'[i + 1].node
    <3>1. \A i \in 1 .. l - 1 :
            /\ frames'[i].next > 1
            /\ adjacency[frames'[i].node][frames'[i].next - 1] = frames'[i + 1].node
      <4>1. \A i \in 1 .. l - 1 :
              /\ frames[i].next > 1
              /\ adjacency[frames[i].node][frames[i].next - 1] = frames[i + 1].node
        <5>1. \A i \in 1 .. l - 1 : i \in DOMAIN frames /\ i < Len(frames)
          BY <1>1
        <5> QED BY <5>1 DEF SearchInv, PathInv
      <4>2. \A i \in 1 .. l - 1 : i \in 1 .. l /\ i + 1 \in 1 .. l
        BY <1>1
      <4> QED BY <1>5, <1>7, <4>1, <4>2
    <3>2. l > 0 => /\ frames'[l].next > 1
                   /\ adjacency[frames'[l].node][frames'[l].next - 1] = frames'[l + 1].node
      <4> SUFFICES ASSUME l > 0
                   PROVE  /\ frames'[l].next > 1
                          /\ adjacency[frames'[l].node][frames'[l].next - 1]
                             = frames'[l + 1].node
        OBVIOUS
      <4>1. l \in 1 .. l
        BY <1>1
      <4>2. frames[l].next \in Nat \ {0} /\ frames'[l].node = frames[l].node
        BY <4>1, <1>5, <1>11
      <4>3. /\ frames'[l].next = frames[l].next + 1
            /\ adjacency[frames[l].node][frames[l].next] = n
        BY <1>8
      <4>4. frames'[l].next > 1 /\ frames'[l].next - 1 = frames[l].next
        BY <4>2, <4>3
      <4> QED BY <1>6, <4>2, <4>3, <4>4
    <3> QED BY <1>1, <1>4, <3>1, <3>2
  <2> QED BY <2>1, <2>2, <2>3, <2>4, <2>5 DEF PathInv
<1>14. NoCycleInv'
  <2> SUFFICES ASSUME cycles = {}
               PROVE  /\ \A a \in Black : Elements(adjacency[a]) \subseteq Black
                      /\ \A i \in DOMAIN frames' : \A k \in 1 .. frames'[i].next - 1 :
                           \/ adjacency[frames'[i].node][k] \in Black
                           \/ i < Len(frames') /\ k = frames'[i].next - 1
                      /\ \A S \in SUBSET Black : Cyclic(S) => S = {}
    <3>1. \A a : Elements(adjacency[a])' = Elements(adjacency[a])
      BY DEF Elements
    <3>2. \A S : Cyclic(S)' => Cyclic(S)
      BY <3>1 DEF Cyclic, DependsOn
    <3>3. cycles' = cycles /\ adjacency' = adjacency
      BY DEF Enter
    <3> QED BY <1>10, <3>1, <3>2, <3>3 DEF NoCycleInv
  <2>1. /\ \A a \in Black : Elements(adjacency[a]) \subseteq Black
        /\ \A i \in DOMAIN frames : \A k \in 1 .. frames[i].next - 1 :
             \/ adjacency[frames[i].node][k] \in Black
             \/ i < l /\ k = frames[i].next - 1
        /\ \A S \in SUBSET Black : Cyclic(S) => S = {}
    BY DEF SearchInv, NoCycleInv
  <2>2. ASSUME NEW i \in 1 .. l - 1, NEW k \in 1 .. frames'[i].next - 1
        PROVE  \/ adjacency[frames'[i].node][k] \in Black
               \/ k = frames'[i].next - 1
    BY <1>1, <1>5, <1>7, <2>1
  <2>3. ASSUME l > 0, NEW k \in 1 .. frames'[l].next - 1
        PROVE  \/ adjacency[frames'[l].node][k] \in Black
               \/ k = frames'[l].next - 1
    <3>1. l \in 1 .. l /\ l \in DOMAIN frames
      BY <1>1, <2>3
    <3>2. frames[l].next \in Nat \ {0} /\ frames'[l].node = frames[l].node
      BY <3>1, <1>5, <1>11
    <3>3. frames'[l].next = frames[l].next + 1
      BY <1>8, <2>3
    <3>4. k = frames'[l].next - 1 \/ k \in 1 .. frames[l].next - 1
      BY <3>2, <3>3
    <3>5. \A j \in 1 .. frames[l].next - 1 : adjacency[frames[l].node][j] \in Black
      BY <2>1, <3>1
    <3> QED BY <3>2, <3>4, <3>5
  <2>4. ASSUME NEW i \in DOMAIN frames', NEW k \in 1 .. frames'[i].next - 1
        PROVE  \/ adjacency[frames'[i].node][k] \in Black
               \/ i < Len(frames') /\ k = frames'[i].next - 1
    <3>1. l \in Nat /\ Len(frames') = l + 1 /\ i \in 1 .. l + 1
      BY <1>1, <1>4
    <3>2. CASE i \in 1 .. l - 1
      <4>1. i < Len(frames')
        BY <3>1, <3>2
      <4> QED BY <2>2, <3>2, <4>1
    <3>3. CASE i = l
      <4>1. l > 0 /\ i < Len(frames')
        BY <3>1, <3>3
      <4> QED BY <2>3, <3>3, <4>1
    <3>4. CASE i = l + 1
      BY <1>6, <3>4
    <3>5. i \in 1 .. l - 1 \/ i = l \/ i = l + 1
      BY <3>1
    <3> QED BY <3>2, <3>3, <3>4, <3>5
  <2> QED BY <2>1, <2>4
<1>15. CycleInv'
  BY ZenonT(60) DEF SearchInv, CycleInv, RealCycle, DependsOn, Elements, Enter
<1> QED BY <1>13, <1>14, <1>15

\* What all steps of the search share.
LEMMA SearchStep ==
  ASSUME Inv, pc = "detect", pc' = pc,
         UNCHANGED <<ast, nodes, adjacency, degree, queue, result>>
  PROVE  GraphInv' /\ PhaseInv' /\ KahnInv'
<1>1. GraphInv'
  BY GraphUntouched DEF Inv, SearchInv
<1>2. PhaseInv'
  BY DEF Inv, SearchInv, PhaseInv
<1>3. KahnInv'
  BY KahnUntouched DEF Inv
<1> QED BY <1>1, <1>2, <1>3

\* The outer loop starts a path of one node.
LEMMA DetectFromInv ==
  ASSUME Inv, NEW n \in Name, DetectFrom(n)
  PROVE  Inv'
<1>1. /\ pc = "detect" /\ pc' = pc /\ n \in nodes \ visited /\ frames = <<>>
      /\ Enter(n, <<>>) /\ UNCHANGED <<ast, nodes, adjacency, degree, queue, result>>
  BY DEF DetectFrom, buildVars, sortVars
<1>2. Follows(<<>>, n)
  <2>1. <<>> \in Seq(Frame) /\ Len(<<>>) = 0 /\ Len(frames) = 0
    BY <1>1, EmptySeq
  <2> QED BY <2>1 DEF Follows
<1>3. PathInv' /\ NoCycleInv' /\ CycleInv'
  BY <1>1, <1>2, EnterInv DEF Inv
<1> QED BY <1>1, <1>3, SearchStep DEF Inv, SearchInv

\* A visited neighbour on the path closes a cycle of the graph: the frames
\* from its own to the top are a path, and the top depends on it.
LEMMA CycleFromIsReal ==
  ASSUME PathInv, GraphInv, HasNeighbor, Neighbor \in Elements(Path)
  PROVE  RealCycle(CycleFrom(Neighbor))
<1> DEFINE l == Len(frames)
           first == CHOOSE i \in DOMAIN Path :
                      Path[i] = Neighbor /\ \A j \in 1 .. i - 1 : Path[j] # Neighbor
           body == SubSeq(Path, first, Len(Path))
<1>1. Follows(Advanced, Neighbor) /\ l \in Nat \ {0} /\ Neighbor \in Name
  BY AdvancedFollows DEF GraphInv
<1>2. frames \in Seq(Frame) /\ DOMAIN frames = 1 .. l
  BY LenProperties DEF PathInv, Frame
<1>3. \A i \in 1 .. l : frames[i].node \in Name
  <2>1. \A i \in 1 .. l : frames[i] \in Frame
    BY <1>2, ElementOfSeq
  <2> QED BY <2>1 DEF Frame, GraphInv
<1>4. /\ Path \in Seq(Name) /\ Len(Path) = l /\ DOMAIN Path = 1 .. l
      /\ \A i \in 1 .. l : Path[i] = frames[i].node
  BY <1>1, <1>2, <1>3 DEF Path
<1>5. PICK m \in 1 .. l : Path[m] = Neighbor
  BY <1>4 DEF Elements
<1>6. \A j \in 1 .. m - 1 : Path[j] # Neighbor
  <2>1. \A j \in 1 .. m - 1 : j \in 1 .. l /\ j # m
    BY <1>1
  <2>2. \A j \in 1 .. l : Path[j] = Path[m] => j = m
    BY <1>2, <1>4 DEF PathInv
  <2> QED BY <1>5, <2>1, <2>2
<1>7. first \in 1 .. l /\ Path[first] = Neighbor
  BY <1>4, <1>5, <1>6
<1> HIDE DEF first
<1>8. /\ body \in Seq(Name) /\ Len(body) = l - first + 1
      /\ \A i \in 1 .. l - first + 1 : body[i] = Path[first + i - 1]
  BY <1>1, <1>4, <1>7, SubSeqProperties
<1> DEFINE c == Append(body, Neighbor)
<1>9. c = CycleFrom(Neighbor)
  BY DEF CycleFrom, first
<1> HIDE DEF body
<1>10. /\ c \in Seq(Name) /\ Len(c) = l - first + 2
       /\ \A i \in 1 .. l - first + 1 : c[i] = Path[first + i - 1]
       /\ c[l - first + 2] = Neighbor
  <2>1. /\ c \in Seq(Name) /\ Len(c) = Len(body) + 1
        /\ \A i \in 1 .. Len(body) : c[i] = body[i]
        /\ c[Len(body) + 1] = Neighbor
    <3>1. body \in Seq(Name) /\ Neighbor \in Name
      BY <1>1, <1>8
    <3> QED BY <3>1, AppendProperties
  <2>2. Len(body) + 1 = l - first + 2
    <3>1. l \in Nat /\ first \in Nat
      BY <1>1, <1>7
    <3> HIDE DEF l
    <3> QED BY <1>8, <3>1
  <2> QED BY <1>8, <2>1, <2>2
<1> HIDE DEF c
<1>11. c[1] = Neighbor
  <2>1. 1 \in 1 .. l - first + 1 /\ first + 1 - 1 = first
    BY <1>1, <1>7
  <2> QED BY <1>7, <1>10, <2>1
<1>12. ASSUME NEW i \in 1 .. Len(c) - 1
       PROVE  DependsOn(c[i], c[i + 1])
  <2>1. CASE i = l - first + 1
    <3>1. c[i] = frames[l].node /\ c[i + 1] = Neighbor
      <4>1. /\ first \in 1 .. l /\ l \in Nat \ {0}
        BY <1>1, <1>7
      <4>2. /\ i \in 1 .. l - first + 1 /\ first + i - 1 = l /\ l \in 1 .. l
            /\ i + 1 = l - first + 2
        <5> HIDE DEF l
        <5> QED BY <2>1, <4>1
      <4>3. c[i] = Path[l]
        BY <1>10, <4>2
      <4> QED BY <1>4, <1>10, <4>2, <4>3
    <3>2. /\ adjacency[frames[l].node][frames[l].next] = Neighbor
          /\ frames[l].next <= Len(adjacency[frames[l].node])
      BY <1>1 DEF Follows
    <3>3. frames[l].next \in DOMAIN adjacency[frames[l].node]
      <4>1. frames[l].next \in Nat \ {0}
        <5>1. frames[l] \in Frame
          BY <1>1, <1>2, ElementOfSeq
        <5> QED BY <5>1 DEF Frame
      <4>2. adjacency[frames[l].node] \in Seq(Name)
        BY <1>1, <1>3 DEF GraphInv
      <4> QED BY <3>2, <4>1, <4>2, LenProperties
    <3> QED BY <3>1, <3>2, <3>3 DEF DependsOn, Elements
  <2>2. CASE i # l - first + 1
    <3> DEFINE k == first + i - 1
    <3>1. k \in 1 .. l - 1 /\ i \in 1 .. l - first + 1 /\ i + 1 \in 1 .. l - first + 1
      <4>1. l \in Nat \ {0} /\ first \in 1 .. l /\ i \in 1 .. l - first + 1
        BY <1>1, <1>7, <1>10
      <4> HIDE DEF l
      <4> QED BY <2>2, <4>1
    <3>2. c[i] = frames[k].node /\ c[i + 1] = frames[k + 1].node
      <4>1. c[i] = Path[k] /\ c[i + 1] = Path[k + 1] /\ k \in 1 .. l /\ k + 1 \in 1 .. l
        BY <1>1, <1>7, <1>10, <3>1
      <4> QED BY <1>4, <4>1
    <3> HIDE DEF k
    <3>3. k \in DOMAIN frames /\ k < Len(frames)
      BY <1>1, <1>2, <3>1
    <3>4. /\ frames[k].next > 1 /\ frames[k].next <= Len(adjacency[frames[k].node]) + 1
          /\ adjacency[frames[k].node][frames[k].next - 1] = frames[k + 1].node
      BY <3>3 DEF PathInv
    <3>5. frames[k].next - 1 \in DOMAIN adjacency[frames[k].node]
      <4>1. frames[k].next \in Nat \ {0}
        <5>1. frames[k] \in Frame
          BY <1>2, <3>3, ElementOfSeq
        <5> QED BY <5>1 DEF Frame
      <4>2. adjacency[frames[k].node] \in Seq(Name)
        BY <1>2, <1>3, <3>3 DEF GraphInv
      <4> QED BY <3>4, <4>1, <4>2, LenProperties, SMTT(30)
    <3> QED BY <3>2, <3>4, <3>5 DEF DependsOn, Elements
  <2> QED BY <2>1, <2>2
<1>13. Len(c) > 1 /\ c[Len(c)] = Neighbor
  BY <1>1, <1>7, <1>10
<1> QED BY <1>9, <1>10, <1>11, <1>12, <1>13 DEF RealCycle

\* Passing a visited neighbour: a cycle if it is on the path, and otherwise one
\* more neighbour of the top that is finished.
LEMMA PassInv ==
  ASSUME SearchInv, UNCHANGED <<nodes, adjacency, visited>>, HasNeighbor,
         Neighbor \in visited, frames' = Advanced,
         cycles' = cycles \cup IF Neighbor \in Elements(Path)
                                THEN {CycleFrom(Neighbor)} ELSE {}
  PROVE  PathInv' /\ NoCycleInv' /\ CycleInv'
<1> DEFINE l == Len(frames)
<1>1. Follows(Advanced, Neighbor) /\ l \in Nat \ {0}
  BY AdvancedFollows DEF SearchInv
<1>2. /\ frames \in Seq(Frame) /\ DOMAIN frames = 1 .. l
      /\ frames' \in Seq(Frame) /\ DOMAIN frames' = 1 .. l /\ Len(frames') = l
  BY <1>1, LenProperties DEF SearchInv, PathInv, Frame, Follows
<1>3. /\ \A i \in 1 .. l : frames'[i].node = frames[i].node
      /\ \A i \in 1 .. l - 1 : frames'[i].next = frames[i].next
      /\ frames'[l].next = frames[l].next + 1
      /\ frames[l].next <= Len(adjacency[frames[l].node])
      /\ adjacency[frames[l].node][frames[l].next] = Neighbor
  BY <1>1 DEF Follows
<1>4. OnPath' = OnPath /\ Black' = Black
  <2>1. DOMAIN frames' = DOMAIN frames /\ DOMAIN frames = 1 .. l
    BY <1>2
  <2>2. OnPath' = OnPath
    BY <1>3, <2>1, ZenonT(60) DEF OnPath
  <2> QED BY <2>2 DEF Black
<1>5. \A i \in 1 .. l : frames[i].next \in Nat \ {0} /\ frames[i].node \in Name
  <2>1. \A i \in 1 .. l : frames[i] \in Frame
    BY <1>2, ElementOfSeq
  <2> QED BY <2>1 DEF Frame, SearchInv, GraphInv
<1>6. \A i \in 1 .. l : i \in 1 .. l - 1 \/ i = l
  BY <1>1
<1>7. PathInv'
  <2>1. frames' \in Seq([node : nodes, next : Nat \ {0}]')
    BY <1>2 DEF Frame
  <2>2. \A i, j \in DOMAIN frames' : frames'[i].node = frames'[j].node => i = j
    BY <1>2, <1>3 DEF SearchInv, PathInv
  <2>3. ASSUME NEW i \in DOMAIN frames'
        PROVE  frames'[i].next <= Len(adjacency[frames'[i].node]) + 1
    <3>1. CASE i \in 1 .. l - 1
      BY <1>2, <1>3, <3>1, <2>3 DEF SearchInv, PathInv
    <3>2. CASE i = l
      <4>1. Len(adjacency[frames[l].node]) \in Nat
        BY <1>1, <1>5, LenProperties DEF SearchInv, GraphInv
      <4> QED BY <1>1, <1>3, <1>5, <3>2, <4>1
    <3> QED BY <1>2, <1>6, <3>1, <3>2
  <2>4. ASSUME NEW i \in DOMAIN frames', i < Len(frames')
        PROVE  /\ frames'[i].next > 1
               /\ adjacency[frames'[i].node][frames'[i].next - 1] = frames'[i + 1].node
    <3>1. i \in 1 .. l - 1 /\ i \in 1 .. l /\ i + 1 \in 1 .. l
      BY <1>1, <1>2, <2>4
    <3>2. /\ frames[i].next > 1
          /\ adjacency[frames[i].node][frames[i].next - 1] = frames[i + 1].node
      BY <1>2, <2>4 DEF SearchInv, PathInv
    <3> QED BY <1>3, <3>1, <3>2
  <2> QED BY <1>4, <2>1, <2>2, <2>3, <2>4 DEF SearchInv, PathInv
<1>8. NoCycleInv'
  <2> SUFFICES ASSUME cycles' = {}
               PROVE  /\ \A a \in Black : Elements(adjacency[a]) \subseteq Black
                      /\ \A i \in DOMAIN frames' : \A k \in 1 .. frames'[i].next - 1 :
                           \/ adjacency[frames'[i].node][k] \in Black
                           \/ i < Len(frames') /\ k = frames'[i].next - 1
                      /\ \A S \in SUBSET Black : Cyclic(S) => S = {}
    <3>1. \A a : Elements(adjacency[a])' = Elements(adjacency[a])
      BY DEF Elements
    <3>2. \A S : Cyclic(S)' => Cyclic(S)
      BY <3>1 DEF Cyclic, DependsOn
    <3> QED BY <1>4, <3>1, <3>2 DEF NoCycleInv
  <2>1. cycles = {} /\ Neighbor \notin Elements(Path)
    OBVIOUS
  <2>2. /\ \A a \in Black : Elements(adjacency[a]) \subseteq Black
        /\ \A i \in DOMAIN frames : \A k \in 1 .. frames[i].next - 1 :
             \/ adjacency[frames[i].node][k] \in Black
             \/ i < l /\ k = frames[i].next - 1
        /\ \A S \in SUBSET Black : Cyclic(S) => S = {}
    BY <2>1 DEF SearchInv, NoCycleInv
  <2>3. Neighbor \in Black
    BY <2>1 DEF Black, OnPath, Elements, Path
  <2>4. ASSUME NEW i \in 1 .. l - 1, NEW k \in 1 .. frames'[i].next - 1
        PROVE  \/ adjacency[frames'[i].node][k] \in Black
               \/ i < l /\ k = frames'[i].next - 1
    <3>1. i \in 1 .. l
      BY <1>1
    <3> QED BY <1>2, <1>3, <2>2, <3>1
  <2>5. ASSUME NEW k \in 1 .. frames'[l].next - 1
        PROVE  adjacency[frames'[l].node][k] \in Black
    <3>1. l \in 1 .. l
      BY <1>1
    <3>2. k = frames[l].next \/ k \in 1 .. frames[l].next - 1
      BY <1>3, <1>5, <3>1
    <3> QED BY <1>2, <1>3, <2>2, <2>3, <3>1, <3>2
  <2> QED BY <1>2, <1>6, <2>2, <2>4, <2>5
<1>9. CycleInv'
  <2>1. \A c : RealCycle(c) => RealCycle(c)'
    BY DEF RealCycle, DependsOn, Elements
  <2>2. Neighbor \in Elements(Path) => RealCycle(CycleFrom(Neighbor))
    BY CycleFromIsReal DEF SearchInv
  <2>3. \A c \in cycles' : RealCycle(c)
    BY <2>2 DEF SearchInv, CycleInv
  <2> QED BY <2>1, <2>3 DEF CycleInv
<1> QED BY <1>7, <1>8, <1>9

\* A neighbour is entered, or passed.
LEMMA DfsNeighborInv ==
  ASSUME Inv, DfsNeighbor
  PROVE  Inv'
<1>1. /\ pc = "detect" /\ pc' = pc /\ HasNeighbor
      /\ UNCHANGED <<ast, nodes, adjacency, degree, queue, result>>
  BY DEF DfsNeighbor, buildVars, sortVars
<1>2. PathInv' /\ NoCycleInv' /\ CycleInv'
  <2>1. CASE Neighbor \notin visited
    <3>1. Follows(Advanced, Neighbor) /\ Neighbor \in nodes \ visited
      BY <1>1, <2>1, AdvancedFollows DEF Inv, SearchInv
    <3>2. Enter(Neighbor, Advanced)
      BY <2>1 DEF DfsNeighbor
    <3> QED BY <1>1, <3>1, <3>2, EnterInv DEF Inv
  <2>2. CASE Neighbor \in visited
    <3>1. /\ frames' = Advanced /\ UNCHANGED visited
          /\ cycles' = cycles \cup IF Neighbor \in Elements(Path)
                                     THEN {CycleFrom(Neighbor)} ELSE {}
      BY <2>2 DEF DfsNeighbor
    <3> QED BY <1>1, <2>2, <3>1, PassInv DEF Inv
  <2> QED BY <2>1, <2>2
<1> QED BY <1>1, <1>2, SearchStep DEF Inv, SearchInv

\* Leaving a node finishes it. Its dependencies are finished, none of them is
\* itself, and the finished ones do not depend on it: no new circle.
LEMMA DfsReturnInv ==
  ASSUME Inv, DfsReturn
  PROVE  Inv'
<1> DEFINE l == Len(frames)
           x == frames[l].node
<1> USE DEF Inv, SearchInv
<1>1. /\ pc = "detect" /\ pc' = pc /\ frames # <<>> /\ ~HasNeighbor
      /\ frames' = SubSeq(frames, 1, l - 1)
      /\ UNCHANGED <<ast, nodes, adjacency, degree, queue, result, visited, cycles>>
  BY DEF DfsReturn, buildVars, sortVars
<1>2. frames \in Seq(Frame) /\ l \in Nat \ {0} /\ DOMAIN frames = 1 .. l /\ l \in 1 .. l
  BY <1>1, LenProperties, EmptySeq DEF PathInv, Frame
<1>0. /\ \A i \in 1 .. l - 1 : i \in 1 .. l /\ i # l /\ i < l
      /\ \A i \in 1 .. l - 1 : IF i < l - 1 THEN i + 1 \in 1 .. l - 1 ELSE i + 1 = l
      /\ l - 1 \in Nat
  <2> HIDE DEF l
  <2> QED BY <1>2
<1>3. /\ frames' \in Seq(Frame) /\ Len(frames') = l - 1 /\ DOMAIN frames' = 1 .. l - 1
      /\ \A i \in 1 .. l - 1 : frames'[i] = frames[i] /\ i \in 1 .. l /\ i # l
  <2>1. \A i \in 1 .. l - 1 : frames[i] \in Frame
    BY <1>2, ElementOfSeq
  <2>2. /\ frames' \in Seq(Frame) /\ Len(frames') = l - 1
        /\ \A i \in 1 .. l - 1 : frames'[i] = frames[i]
    BY <1>1, <1>2, <2>1, SubSeqProperties
  <2>3. DOMAIN frames' = 1 .. l - 1
    BY <2>2, LenProperties
  <2> QED BY <1>0, <2>2, <2>3
<1>4. \A i \in 1 .. l : frames[i].next \in Nat \ {0} /\ frames[i].node \in Name
  <2>1. \A i \in 1 .. l : frames[i] \in Frame
    BY <1>2, ElementOfSeq
  <2> QED BY <2>1 DEF Frame, GraphInv
<1>5. OnPath' = OnPath \ {x} /\ x \in OnPath
  <2>1. \A i \in DOMAIN frames' : frames'[i].node \in OnPath \ {x}
    BY <1>2, <1>3 DEF OnPath, PathInv
  <2>2. \A i \in 1 .. l : frames[i].node # x => i \in 1 .. l - 1
    BY <1>2
  <2>3. \A i \in 1 .. l : frames[i].node # x => frames[i].node \in OnPath'
    BY <1>3, <2>2 DEF OnPath
  <2> QED BY <1>2, <2>1, <2>3 DEF OnPath
<1>6. Black' = Black \cup {x}
  BY <1>1, <1>5 DEF Black, PathInv
<1>7. x \notin Black
  BY <1>5 DEF Black
<1>8. PathInv'
  <2>1. frames' \in Seq([node : nodes, next : Nat \ {0}]')
    BY <1>1, <1>3 DEF Frame
  <2>2. \A i, j \in DOMAIN frames' : frames'[i].node = frames'[j].node => i = j
    BY <1>2, <1>3 DEF PathInv
  <2>3. \A i \in DOMAIN frames' : frames'[i].next <= Len(adjacency[frames'[i].node]) + 1
    BY <1>2, <1>3 DEF PathInv
  <2>4. ASSUME NEW i \in DOMAIN frames', i < Len(frames')
        PROVE  /\ frames'[i].next > 1
               /\ adjacency[frames'[i].node][frames'[i].next - 1] = frames'[i + 1].node
    <3>1. i \in 1 .. l - 1 /\ i + 1 \in 1 .. l - 1 /\ i < l
      BY <1>0, <1>3, <2>4
    <3>2. /\ frames[i].next > 1
          /\ adjacency[frames[i].node][frames[i].next - 1] = frames[i + 1].node
      BY <1>2, <1>3, <3>1 DEF PathInv
    <3> QED BY <1>3, <3>1, <3>2
  <2> QED BY <1>1, <1>5, <2>1, <2>2, <2>3, <2>4 DEF PathInv
<1>9. NoCycleInv'
  <2> SUFFICES ASSUME cycles = {}
               PROVE  /\ \A a \in Black' : Elements(adjacency[a]) \subseteq Black'
                      /\ \A i \in DOMAIN frames' : \A k \in 1 .. frames'[i].next - 1 :
                           \/ adjacency[frames'[i].node][k] \in Black'
                           \/ i < Len(frames') /\ k = frames'[i].next - 1
                      /\ \A S \in SUBSET Black' : Cyclic(S) => S = {}
    <3>1. \A a : Elements(adjacency[a])' = Elements(adjacency[a])
      BY <1>1 DEF Elements
    <3>2. \A S : Cyclic(S)' => Cyclic(S)
      BY <3>1 DEF Cyclic, DependsOn
    <3> QED BY <1>1, <3>1, <3>2 DEF NoCycleInv
  <2>1. /\ \A a \in Black : Elements(adjacency[a]) \subseteq Black
        /\ \A i \in DOMAIN frames : \A k \in 1 .. frames[i].next - 1 :
             \/ adjacency[frames[i].node][k] \in Black
             \/ i < l /\ k = frames[i].next - 1
        /\ \A S \in SUBSET Black : Cyclic(S) => S = {}
    BY DEF NoCycleInv
  <2>2. Elements(adjacency[x]) \subseteq Black
    <3>1. adjacency[x] \in Seq(Name)
      BY <1>2, <1>4 DEF GraphInv
    <3>2. ~(frames[l].next <= Len(adjacency[x]))
      BY <1>1 DEF HasNeighbor, Top
    <3>3. \A k \in DOMAIN adjacency[x] : k \in 1 .. frames[l].next - 1
      BY <1>2, <1>4, <3>1, <3>2, LenProperties
    <3>4. \A k \in 1 .. frames[l].next - 1 : adjacency[x][k] \in Black
      BY <1>2, <2>1
    <3> QED BY <3>3, <3>4 DEF Elements
  <2>3. ASSUME NEW i \in 1 .. l - 1, NEW k \in 1 .. frames'[i].next - 1
        PROVE  \/ adjacency[frames'[i].node][k] \in Black'
               \/ i < Len(frames') /\ k = frames'[i].next - 1
    <3>1. i \in DOMAIN frames /\ frames'[i] = frames[i] /\ i < l
      BY <1>0, <1>2, <1>3
    <3>2. CASE adjacency[frames[i].node][k] \in Black
      BY <1>6, <3>1, <3>2
    <3>3. CASE k = frames[i].next - 1 /\ i < l - 1
      BY <1>3, <3>1, <3>3
    <3>4. CASE k = frames[i].next - 1 /\ i = l - 1
      <4>1. adjacency[frames[i].node][k] = frames[i + 1].node /\ i + 1 = l
        <5>1. ~(i < l - 1)
          BY <1>0, <3>4
        <5>2. i + 1 = l
          BY <1>0, <5>1
        <5> QED BY <3>1, <3>4, <5>2 DEF PathInv
      <4> QED BY <1>6, <3>1, <4>1
    <3>5. i < l - 1 \/ i = l - 1
      <4> HIDE DEF l
      <4> QED BY <1>0, <1>2
    <3> QED BY <2>1, <2>3, <3>1, <3>2, <3>3, <3>4, <3>5
  <2>4. ASSUME NEW S \in SUBSET Black', Cyclic(S)
        PROVE  S = {}
    <3>1. \A a \in S \ {x} : \E b \in S \ {x} : DependsOn(a, b)
      <4> SUFFICES ASSUME NEW a \in S \ {x} PROVE \E b \in S \ {x} : DependsOn(a, b)
        OBVIOUS
      <4>1. PICK b \in S : DependsOn(a, b)
        BY <2>4 DEF Cyclic
      <4>2. b \in Black
        BY <1>6, <2>1, <4>1 DEF DependsOn
      <4> QED BY <1>7, <4>1, <4>2
    <3>2. S \ {x} = {}
      BY <1>6, <2>1, <3>1 DEF Cyclic
    <3>3. x \notin S
      <4>1. ASSUME x \in S PROVE FALSE
        <5>1. PICK b \in S : DependsOn(x, b)
          BY <2>4, <4>1 DEF Cyclic
        <5>2. b \in Black
          BY <2>2, <5>1 DEF DependsOn
        <5> QED BY <1>7, <3>2, <5>1, <5>2
      <4> QED BY <4>1
    <3> QED BY <3>2, <3>3
  <2>5. \A a \in Black' : Elements(adjacency[a]) \subseteq Black'
    BY <1>6, <2>1, <2>2
  <2> QED BY <1>3, <2>3, <2>4, <2>5
<1>10. CycleInv'
  BY <1>1 DEF CycleInv, RealCycle, DependsOn, Elements
<1> QED BY <1>1, <1>8, <1>9, <1>10, SearchStep

\* A search that ended without a cycle has finished all nodes: there is none.
LEMMA SearchIsExact ==
  ASSUME SearchInv, frames = <<>>, nodes \subseteq visited, cycles = {}
  PROVE  ~HasCycle
<1>1. Black = nodes
  BY NoFrames DEF SearchInv, PathInv
<1> QED BY <1>1 DEF SearchInv, NoCycleInv, Cyclic, HasCycle

\* Stopping at cycles leaves everything as the search left it.
LEMMA DetectCyclesInv ==
  ASSUME Inv, DetectCycles
  PROVE  Inv'
<1>1. /\ pc = "detect" /\ pc' = "cyclic" /\ frames = <<>>
      /\ UNCHANGED <<ast, nodes, adjacency, visited, frames, cycles, degree, queue, result>>
  BY DEF DetectCycles, buildVars, detectVars, sortVars
<1>2. GraphInv'
  BY <1>1, GraphUntouched DEF Inv, SearchInv
<1>3. PhaseInv'
  BY <1>1 DEF Inv, SearchInv, PhaseInv
<1>4. PathInv' /\ NoCycleInv' /\ CycleInv'
  BY <1>1, SearchUntouched DEF Inv
<1>5. KahnInv'
  BY <1>1, KahnUntouched DEF Inv
<1> QED BY <1>2, <1>3, <1>4, <1>5 DEF Inv, SearchInv
-----------------------------------------------------------------------------
(* The sort. *)

\* Positions are positions of a finite sequence.
LEMMA PositionsFinite ==
  ASSUME GraphInv, NEW n \in Name, NEW S
  PROVE  IsFiniteSet(Positions(n, S)) /\ Cardinality(Positions(n, S)) \in Nat
<1>1. adjacency[n] \in Seq(Name)
  BY DEF GraphInv
<1>2. DOMAIN adjacency[n] = 1 .. Len(adjacency[n]) /\ Len(adjacency[n]) \in Nat
  BY <1>1, LenProperties
<1>3. IsFiniteSet(DOMAIN adjacency[n])
  BY <1>2, FS_Interval
<1>4. Positions(n, S) \subseteq DOMAIN adjacency[n]
  BY DEF Positions
<1> QED BY <1>3, <1>4, FS_Subset, FS_CardinalityType

\* There are finitely many names, so every set of nodes is finite.
LEMMA NodesFinite ==
  ASSUME GraphInv, NEW S \in SUBSET nodes
  PROVE  IsFiniteSet(S)
<1>1. IsFiniteSet(Name)
  BY TypeAssumption, FS_Union DEF Name
<1> QED BY <1>1, FS_Subset DEF GraphInv

\* At first the degrees count all dependencies, and exactly the nodes without
\* any are queued.
LEMMA StartSortInv ==
  ASSUME Inv, StartSort
  PROVE  Inv'
<1> DEFINE Z == {n \in nodes : adjacency[n] = <<>>}
<1>1. /\ pc = "detect" /\ pc' = "sort" /\ frames = <<>> /\ nodes \subseteq visited
      /\ cycles = {} /\ degree' = [n \in Name |-> Len(adjacency[n])]
      /\ queue' \in Orderings(Z) /\ result' = result
      /\ UNCHANGED <<ast, nodes, adjacency, visited, frames, cycles>>
  BY DEF StartSort, buildVars, detectVars
<1>2. GraphInv'
  BY <1>1, GraphUntouched DEF Inv, SearchInv
<1>3. PhaseInv'
  BY <1>1 DEF PhaseInv
<1>4. PathInv' /\ NoCycleInv' /\ CycleInv'
  BY <1>1, SearchUntouched DEF Inv
<1>5. KahnInv'
  <2>1. result = <<>> /\ DOMAIN result = {}
    BY <1>1 DEF Inv, SearchInv, PhaseInv
  <2>2. Elements(result) = {}
    BY <2>1 DEF Elements
  <2>3. GraphInv
    BY DEF Inv, SearchInv
  <2>4. queue' \in Seq(Z) /\ Elements(queue') = Z /\ Distinct(queue')
    BY <1>1, <2>3, NodesFinite, OrderingsAre
  <2>5. queue' \in Seq(nodes) /\ Distinct(queue)'
    BY <2>4, SeqMonotonic DEF Distinct
  <2>6. Elements(queue)' = Z /\ Elements(result)' = {}
    BY <1>1, <2>1, <2>4 DEF Elements
  <2>7. ASSUME NEW n \in Name
        PROVE  /\ Len(adjacency[n]) \in Nat
               /\ Len(adjacency[n]) = 0 <=> adjacency[n] = <<>>
               /\ Positions(n, Name \ {}) = 1 .. Len(adjacency[n])
               /\ Cardinality(1 .. Len(adjacency[n])) = Len(adjacency[n])
    <3>1. adjacency[n] \in Seq(Name)
      BY <2>3 DEF GraphInv
    <3>2. /\ Len(adjacency[n]) \in Nat /\ DOMAIN adjacency[n] = 1 .. Len(adjacency[n])
          /\ \A i \in 1 .. Len(adjacency[n]) : adjacency[n][i] \in Name
      BY <3>1, LenProperties, ElementOfSeq
    <3>3. Len(adjacency[n]) = 0 <=> adjacency[n] = <<>>
      BY <3>1, EmptySeq, SeqEqual
    <3>4. Positions(n, Name \ {}) = 1 .. Len(adjacency[n])
      BY <3>2 DEF Positions
    <3>5. \A k \in Nat : Cardinality(1 .. k) = k
      BY FS_Interval
    <3> QED BY <3>2, <3>3, <3>4, <3>5
  <2>8. degree' \in [Name -> Nat]
    BY <1>1, <2>7
  <2>9. \A n \in Name : degree'[n] = Cardinality(Positions(n, Name \ Elements(result)))'
    BY <1>1, <2>1, <2>6, <2>7 DEF Positions
  <2>10. \A n \in nodes : degree'[n] = 0 <=> n \in Z
    BY <1>1, <2>3, <2>7 DEF GraphInv
  <2>11. result' \in Seq(nodes') /\ Distinct(result)' /\ DependenciesFirst'
    BY <1>1, <2>1, EmptySeq DEF Distinct, DependenciesFirst
  <2> QED BY <1>1, <2>5, <2>6, <2>8, <2>9, <2>10, <2>11 DEF KahnInv
<1> QED BY <1>2, <1>3, <1>4, <1>5 DEF Inv, SearchInv

\* Putting out the front of the queue takes its positions out of every count,
\* and queues exactly the nodes whose count this brings to zero.
LEMMA KahnStepInv ==
  ASSUME Inv, KahnStep
  PROVE  Inv'
<1> DEFINE current == Head(queue)
           loses == [n \in Name |-> Cardinality(Positions(n, {current}))]
           ready == {n \in nodes : loses[n] > 0 /\ degree[n] = loses[n]}
           done == Elements(result)
<1>1. PICK s \in Orderings(ready) :
        /\ pc = "sort" /\ pc' = pc /\ queue # <<>>
        /\ result' = Append(result, current)
        /\ degree' = [n \in Name |-> degree[n] - loses[n]]
        /\ queue' = Tail(queue) \o s
        /\ UNCHANGED <<ast, nodes, adjacency, visited, frames, cycles>>
  BY DEF KahnStep, buildVars, detectVars
<1>2. GraphInv
  BY DEF Inv, SearchInv
<1>3. /\ queue \in Seq(nodes) /\ Distinct(queue) /\ result \in Seq(nodes)
      /\ Distinct(result) /\ Elements(queue) \cap done = {} /\ DependenciesFirst
      /\ degree \in [Name -> Nat]
      /\ \A n \in Name : degree[n] = Cardinality(Positions(n, Name \ done))
      /\ \A n \in nodes : degree[n] = 0 <=> n \in Elements(queue) \cup done
  BY <1>1 DEF Inv, KahnInv
<1>4. /\ current \in Elements(queue) /\ current \in nodes /\ current \notin done
      /\ Tail(queue) \in Seq(nodes) /\ Distinct(Tail(queue))
      /\ Elements(Tail(queue)) = Elements(queue) \ {current}
  BY <1>1, <1>3, ElementsOfTail
<1>5. current \in Name /\ degree[current] = 0
  BY <1>2, <1>3, <1>4 DEF GraphInv
<1> HIDE DEF current
<1>6. \A n \in Name : loses[n] \in Nat
  BY <1>2, PositionsFinite
<1>7. s \in Seq(ready) /\ Elements(s) = ready /\ Distinct(s)
  BY <1>2, NodesFinite, OrderingsAre
<1>8. s \in Seq(nodes)
  BY <1>7, SeqMonotonic
<1>9. \A n \in ready : degree[n] # 0
  BY <1>2, <1>6 DEF GraphInv
<1>10. ready \cap (Elements(queue) \cup done) = {}
  BY <1>3, <1>9
<1>11. /\ queue' \in Seq(nodes) /\ Distinct(queue')
       /\ Elements(queue') = (Elements(queue) \ {current}) \cup ready
  <2> DEFINE t == Tail(queue)
  <2>1. t \in Seq(nodes) /\ Distinct(t) /\ Elements(t) = Elements(queue) \ {current}
    BY <1>4
  <2>2. Elements(t) \cap Elements(s) = {}
    BY <2>1, <1>7, <1>10
  <2> HIDE DEF t, ready
  <2>3. t \o s \in Seq(nodes)
    BY <2>1, <1>8, ConcatProperties
  <2>4. Elements(t \o s) = Elements(t) \cup Elements(s) /\ Distinct(t \o s)
    BY <2>1, <2>2, <1>7, <1>8, ElementsOfConcat
  <2>5. queue' = t \o s
    BY <1>1 DEF t
  <2> QED BY <2>1, <2>3, <2>4, <2>5, <1>7
<1>12. /\ result' \in Seq(nodes) /\ Distinct(result') /\ Elements(result') = done \cup {current}
  BY <1>1, <1>3, <1>4, ElementsOfAppend, AppendProperties
<1>13. ASSUME NEW n \in Name
       PROVE  /\ degree'[n] = Cardinality(Positions(n, Name \ (done \cup {current})))
              /\ degree'[n] \in Nat
              /\ degree[n] = 0 => degree'[n] = 0
  <2> DEFINE A == Positions(n, Name \ done)
             B == Positions(n, {current})
  <2>1. IsFiniteSet(A) /\ Cardinality(A) \in Nat /\ Cardinality(B) \in Nat
    BY <1>2, PositionsFinite
  <2>2. A \cap B = B
    BY <1>4, <1>5 DEF Positions
  <2>3. A \ B = Positions(n, Name \ (done \cup {current}))
    BY DEF Positions
  <2>4. /\ IsFiniteSet(A \ B) /\ Cardinality(A \ B) = Cardinality(A) - Cardinality(A \cap B)
    BY <2>1, FS_Difference
  <2>5. Cardinality(A \ B) \in Nat
    BY <2>4, FS_CardinalityType
  <2>6. degree'[n] = degree[n] - Cardinality(B) /\ degree[n] = Cardinality(A)
    BY <1>1, <1>3
  <2>7. Cardinality(A \cap B) = Cardinality(B)
    BY <2>2
  <2>8. Cardinality(A \ B) = Cardinality(Positions(n, Name \ (done \cup {current})))
    BY <2>3
  <2> HIDE DEF A, B
  <2> QED BY <2>1, <2>4, <2>5, <2>6, <2>7, <2>8
<1>14. \A n \in nodes : degree'[n] = 0 <=> n \in Elements(queue) \cup done \cup ready
  <2> SUFFICES ASSUME NEW n \in nodes
               PROVE  degree'[n] = 0 <=> n \in Elements(queue) \cup done \cup ready
    OBVIOUS
  <2>1. /\ n \in Name /\ loses[n] \in Nat /\ degree[n] \in Nat
        /\ degree'[n] = degree[n] - loses[n]
    BY <1>1, <1>2, <1>3, <1>6 DEF GraphInv
  <2>2. n \in ready <=> loses[n] > 0 /\ degree[n] = loses[n]
    OBVIOUS
  <2>3. degree[n] = 0 <=> n \in Elements(queue) \cup done
    BY <1>3
  <2>4. degree[n] = 0 => degree'[n] = 0
    <3> HIDE DEF done
    <3> QED BY <1>13, <2>1
  <2> HIDE DEF ready, loses, done
  <2> QED BY <2>1, <2>2, <2>3, <2>4
<1>15. DependenciesFirst'
  <2>1. Elements(adjacency[current]) \subseteq done
    <3>1. Cardinality(Positions(current, Name \ done)) = 0
      BY <1>3, <1>5
    <3>2. Positions(current, Name \ done) = {}
      BY <1>2, <1>5, <3>1, PositionsFinite, FS_EmptySet
    <3>3. Elements(adjacency[current]) \subseteq Name
      BY <1>2, <1>5, ElementsType DEF GraphInv
    <3> QED BY <3>2, <3>3 DEF Positions, Elements
  <2>2. /\ DOMAIN result' = 1 .. Len(result) + 1 /\ Len(result) \in Nat
        /\ DOMAIN result = 1 .. Len(result)
        /\ \A i \in 1 .. Len(result) : result'[i] = result[i]
        /\ result'[Len(result) + 1] = current
    BY <1>1, <1>3, <1>4, AppendProperties, LenProperties
  <2> SUFFICES ASSUME NEW i \in DOMAIN result', NEW n \in Elements(adjacency[result'[i]])
               PROVE  \E j \in 1 .. i - 1 : result'[j] = n
    <3>1. \A i \in DOMAIN result' :
            {adjacency'[result'[i]][k] : k \in DOMAIN adjacency'[result'[i]]}
            = {adjacency[result'[i]][k] : k \in DOMAIN adjacency[result'[i]]}
      BY <1>1
    <3> QED BY <3>1 DEF DependenciesFirst, Elements
  <2>3. CASE i \in 1 .. Len(result)
    <3>1. PICK j \in 1 .. i - 1 : result[j] = n
      BY <1>3, <2>2, <2>3 DEF DependenciesFirst
    <3> QED BY <2>2, <2>3, <3>1
  <2>4. CASE i = Len(result) + 1
    <3>1. n \in done
      BY <2>1, <2>2, <2>4
    <3>2. PICK j \in DOMAIN result : result[j] = n
      BY <3>1 DEF Elements
    <3> QED BY <2>2, <2>4, <3>2
  <2> QED BY <2>2, <2>3, <2>4
<1>16. KahnInv'
  <2>1. /\ Elements(queue)' = (Elements(queue) \ {current}) \cup ready
        /\ Elements(result)' = done \cup {current}
        /\ Distinct(queue)' /\ Distinct(result)'
    BY <1>11, <1>12 DEF Elements, Distinct
  <2>2. Elements(queue)' \cap Elements(result)' = {}
    BY <1>3, <1>4, <1>10, <2>1
  <2>3. degree' \in [Name -> Nat]
    <3> HIDE DEF loses, done
    <3>1. \A n \in Name : degree'[n] \in Nat
      BY <1>13
    <3> QED BY <1>1, <3>1
  <2>4. \A n \in Name : degree'[n] = Cardinality(Positions(n, Name \ Elements(result)))'
    <3>1. \A n \in Name : Positions(n, Name \ Elements(result))'
                            = Positions(n, Name \ (done \cup {current}))
      BY <1>1, <2>1 DEF Positions
    <3> HIDE DEF done
    <3>2. \A n \in Name : degree'[n] = Cardinality(Positions(n, Name \ (done \cup {current})))
      BY <1>13
    <3> QED BY <3>1, <3>2
  <2>5. \A n \in nodes' : degree'[n] = 0 <=> n \in Elements(queue)' \cup Elements(result)'
    BY <1>1, <1>4, <1>14, <2>1
  <2> QED BY <1>1, <1>11, <1>12, <1>15, <2>1, <2>2, <2>3, <2>4, <2>5 DEF KahnInv
<1>17. GraphInv'
  BY <1>1, <1>2, GraphUntouched
<1>18. PhaseInv'
  BY <1>1 DEF Inv, SearchInv, PhaseInv
<1>19. PathInv' /\ NoCycleInv' /\ CycleInv'
  BY <1>1, SearchUntouched DEF Inv
<1> QED BY <1>16, <1>17, <1>18, <1>19 DEF Inv, SearchInv

\* When the queue runs empty every node is out: what is left over would depend
\* on what is left over, and that is a cycle.
LEMMA NothingLeft ==
  ASSUME Inv, pc \in {"sort", "done"}, queue = <<>>
  PROVE  Elements(result) = nodes
<1>1. GraphInv /\ SearchInv /\ frames = <<>> /\ nodes \subseteq visited /\ cycles = {}
  BY DEF Inv, SearchInv, PhaseInv
<1>2. ~HasCycle
  BY <1>1, SearchIsExact
<1>3. /\ result \in Seq(nodes) /\ Elements(queue) = {}
      /\ \A n \in Name : degree[n] = Cardinality(Positions(n, Name \ Elements(result)))
      /\ \A n \in nodes : degree[n] = 0 <=> n \in Elements(queue) \cup Elements(result)
  BY DEF Inv, KahnInv, Elements
<1> DEFINE left == nodes \ Elements(result)
<1>4. ASSUME NEW a \in left
      PROVE  \E b \in left : DependsOn(a, b)
  <2>1. a \in Name /\ Cardinality(Positions(a, Name \ Elements(result))) # 0
    BY <1>1, <1>3 DEF GraphInv
  <2>2. Positions(a, Name \ Elements(result)) # {}
    BY <2>1, FS_EmptySet
  <2>3. PICK i \in DOMAIN adjacency[a] : adjacency[a][i] \notin Elements(result)
    BY <2>2 DEF Positions
  <2>4. adjacency[a][i] \in Elements(adjacency[a])
    BY DEF Elements
  <2>5. adjacency[a][i] \in nodes
    BY <1>1, <2>1, <2>4 DEF GraphInv
  <2> QED BY <2>3, <2>4, <2>5 DEF DependsOn
<1>5. left = {}
  BY <1>2, <1>4 DEF HasCycle
<1>6. Elements(result) \subseteq nodes
  BY <1>3, ElementsType
<1> QED BY <1>5, <1>6

\* Handing the order over changes nothing of graph, search and sort.
LEMMA FinishSortInv ==
  ASSUME Inv, FinishSort
  PROVE  Inv'
<1>1. /\ pc = "sort" /\ pc' = "done" /\ queue = <<>>
      /\ UNCHANGED <<ast, nodes, adjacency, visited, frames, cycles, degree, queue, result>>
  BY DEF FinishSort, buildVars, detectVars, sortVars
<1>2. GraphInv'
  BY <1>1, GraphUntouched DEF Inv, SearchInv
<1>3. PhaseInv'
  BY <1>1 DEF Inv, SearchInv, PhaseInv
<1>4. PathInv' /\ NoCycleInv' /\ CycleInv'
  BY <1>1, SearchUntouched DEF Inv
<1>5. KahnInv'
  BY <1>1, KahnUntouched DEF Inv
<1> QED BY <1>2, <1>3, <1>4, <1>5 DEF Inv, SearchInv

-----------------------------------------------------------------------------
(* The theorems. *)

\* Every step of the build, the search and the sort keeps the invariant.
LEMMA NextInv == Inv /\ [Next]_vars => Inv'
<1> SUFFICES ASSUME Inv, [Next]_vars PROVE Inv'
  OBVIOUS
<1>1. CASE Next
  BY <1>1, BuildInv, BuildFromASTInv, DetectFromInv, DfsNeighborInv, DfsReturnInv,
     DetectCyclesInv, StartSortInv, KahnStepInv, FinishSortInv DEF Next
<1>2. CASE UNCHANGED vars
  <2>1. /\ pc' = pc
        /\ UNCHANGED <<ast, nodes, adjacency, visited, frames, cycles, degree, queue, result>>
    BY <1>2 DEF vars
  <2>2. GraphInv'
    BY <2>1 DEF Inv, SearchInv, GraphInv, Elements
  <2>3. PhaseInv'
    BY <2>1 DEF Inv, SearchInv, PhaseInv
  <2>4. PathInv' /\ NoCycleInv' /\ CycleInv'
    BY <2>1, SearchUntouched DEF Inv
  <2>5. KahnInv'
    BY <2>1, KahnUntouched DEF Inv
  <2> QED BY <2>2, <2>3, <2>4, <2>5 DEF Inv, SearchInv
<1> QED BY <1>1, <1>2

\* The invariant of search and sort.
THEOREM GraphInvariant == Spec => []Inv
BY InitInv, NextInv, PTL DEF Spec

\* For every schema and every iteration order of the maps: sortTypes goes on to
\* sort only graphs without a cycle, and each reported cycle is a closed path.
THEOREM CycleDetection == Spec => []CyclesAreExact
<1>1. Inv => CyclesAreExact
  <2> SUFFICES ASSUME Inv PROVE CyclesAreExact
    OBVIOUS
  <2>1. pc \in {"sort", "done"} => ~HasCycle
    BY SearchIsExact DEF Inv, SearchInv, PhaseInv
  <2>2. \A c \in cycles : RealCycle(c)
    BY DEF Inv, SearchInv, CycleInv
  <2> QED BY <2>1, <2>2 DEF CyclesAreExact, RealCycle
<1> QED BY <1>1, GraphInvariant, PTL

\* For every schema: each name comes after all the names it depends on.
THEOREM TopologicalOrder == Spec => []DependenciesFirst
<1>1. Inv => DependenciesFirst
  BY DEF Inv, KahnInv
<1> QED BY <1>1, GraphInvariant, PTL

\* The test of topologicalSort for nodes left over (result.size() against
\* adjacency_.size()) never fails after a search without cycles: all nodes are
\* out when the queue is empty.
SortLeavesNothing ==
  pc \in {"sort", "done"} /\ queue = <<>> => Elements(result) = nodes

\* For every schema: what topologicalSort returns is complete.
THEOREM CompleteSort == Spec => []SortLeavesNothing
<1>1. Inv => SortLeavesNothing
  BY NothingLeft DEF SortLeavesNothing
<1> QED BY <1>1, GraphInvariant, PTL

-----------------------------------------------------------------------------
(* The order that is handed over. *)

\* What the invariant leaves out: the types of what only one phase writes, and
\* that a type with dependencies is a node.
RestInv ==
  /\ toBuild \subseteq Type
  /\ \A n \in Name : adjacency[n] # <<>> => n \in nodes
  /\ degree \in [Name -> Nat]
  /\ ordered \in Seq(Type)
  /\ OrderIsComplete

\* A sequence without repetitions is as long as it has members.
LEMMA DistinctLength ==
  ASSUME NEW S, NEW s \in Seq(S), Distinct(s)
  PROVE  Len(s) = Cardinality(Elements(s))
<1>1. Len(s) \in Nat /\ DOMAIN s = 1 .. Len(s) /\ s \in [1 .. Len(s) -> S]
  BY LenProperties
<1>2. s \in [1 .. Len(s) -> Elements(s)]
  BY <1>1 DEF Elements
<1>3. s \in Bijection(1 .. Len(s), Elements(s))
  <2>1. \A i, j \in 1 .. Len(s) : s[i] = s[j] => i = j
    BY <1>1 DEF Distinct
  <2>2. \A e \in Elements(s) : \E i \in 1 .. Len(s) : s[i] = e
    BY <1>1 DEF Elements
  <2>3. s \in Injection(1 .. Len(s), Elements(s))
    BY <1>1, <1>2, <2>1, Zenon DEF Injection, IsInjective
  <2>4. s \in Surjection(1 .. Len(s), Elements(s))
    BY <1>2, <2>2, Zenon DEF Surjection
  <2> QED BY <2>3, <2>4 DEF Bijection
<1>4. ExistsBijection(1 .. Len(s), Elements(s))
  BY <1>3 DEF ExistsBijection
<1> QED BY <1>1, <1>4, FS_CountingElements

\* sortTypes returns what topologicalSort puts out, all of it.
LEMMA SortedIsResult ==
  ASSUME Inv, pc = "sort", queue = <<>>
  PROVE  Sorted = result /\ Elements(result) = nodes
<1>1. Elements(result) = nodes
  BY NothingLeft
<1>2. result \in Seq(nodes) /\ Distinct(result)
  BY DEF Inv, KahnInv
<1>3. Len(result) = Cardinality(nodes)
  BY <1>1, <1>2, DistinctLength
<1> QED BY <1>1, <1>3 DEF Sorted

\* Filtering the order of the nodes keeps every dependency before what needs it.
LEMMA FilteredOrder ==
  ASSUME Inv, NEW f \in Filtered(result, Type), IsFiniteSet(Elements(result) \cap Type),
         NEW i \in DOMAIN f, NEW j \in DOMAIN f, DependsOn(f[i], f[j])
  PROVE  j < i
<1>1. f \in Seq(Elements(result) \cap Type) /\ Distinct(f)
  BY OrderingsAre DEF Filtered
<1>2. /\ Len(f) \in Nat /\ DOMAIN f = 1 .. Len(f) /\ i \in Int /\ j \in Int
      /\ f[i] \in Elements(result)
  BY <1>1, LenProperties, ElementOfSeq
<1>3. result \in Seq(nodes) /\ Distinct(result) /\ DependenciesFirst
  BY DEF Inv, KahnInv
<1>4. DOMAIN result = 1 .. Len(result) /\ Len(result) \in Nat
  BY <1>3, LenProperties
<1>5. PICK p \in DOMAIN result : result[p] = f[i]
  BY <1>2 DEF Elements
<1>6. PICK q \in 1 .. p - 1 : result[q] = f[j]
  BY <1>3, <1>5 DEF DependenciesFirst, DependsOn
<1>7. q \in DOMAIN result /\ q < p
  BY <1>4, <1>6
<1>8. i # j
  BY <1>3, <1>5, <1>6, <1>7 DEF Distinct
<1>9. ~(i < j)
  <2> SUFFICES ASSUME i < j
               PROVE  FALSE
    OBVIOUS
  <2>1. PICK k, l \in DOMAIN result : k < l /\ result[k] = f[i] /\ result[l] = f[j]
    BY DEF Filtered
  <2>2. k = p /\ l = q
    BY <1>3, <1>5, <1>6, <1>7, <2>1 DEF Distinct
  <2> QED BY <1>4, <1>7, <2>1, <2>2
<1> QED BY <1>2, <1>8, <1>9

\* What sortTypes hands over has every type once, dependencies first.
LEMMA FinishSortOrder ==
  ASSUME Inv, RestInv, FinishSort
  PROVE  ordered' \in Seq(Type) /\ OrderIsComplete'
<1>0. PICK f \in Filtered(Sorted, Type) :
        \E s \in Orderings(Type \ Elements(f)) : ordered' = f \o s
  BY DEF FinishSort
<1>1. PICK s \in Orderings(Type \ Elements(f)) : ordered' = f \o s
  BY <1>0
<1>2. Sorted = result /\ Elements(result) = nodes
  BY SortedIsResult DEF FinishSort
<1>3. IsFiniteSet(nodes \cap Type) /\ IsFiniteSet(Type \ Elements(f)) /\ IsFiniteSet(Type)
  BY TypeAssumption, FS_Subset
<1>4. f \in Seq(nodes \cap Type) /\ Elements(f) = nodes \cap Type /\ Distinct(f)
  BY <1>1, <1>2, <1>3, OrderingsAre DEF Filtered
<1>5. s \in Seq(Type \ Elements(f)) /\ Elements(s) = Type \ nodes /\ Distinct(s)
  BY <1>3, <1>4, OrderingsAre
<1>6. f \in Seq(Type) /\ s \in Seq(Type)
  BY <1>4, <1>5, SeqMonotonic
<1>7. f \o s \in Seq(Type) /\ Elements(f \o s) = Type /\ Distinct(f \o s)
  <2>1. Elements(f) \cap Elements(s) = {} /\ Elements(f) \cup Elements(s) = Type
    BY <1>4, <1>5
  <2>2. f \o s \in Seq(Type)
    BY <1>6, ConcatProperties
  <2>3. Elements(f \o s) = Elements(f) \cup Elements(s) /\ Distinct(f \o s)
    BY <1>4, <1>5, <1>6, <2>1, ElementsOfConcat
  <2> QED BY <2>1, <2>2, <2>3
<1>8. Len(f \o s) = Cardinality(Type)
  BY <1>7, DistinctLength
<1>9. \A i \in DOMAIN (f \o s) : (f \o s)[i] \in nodes => i \in DOMAIN f /\ (f \o s)[i] = f[i]
  <2> SUFFICES ASSUME NEW i \in DOMAIN (f \o s), (f \o s)[i] \in nodes
               PROVE  i \in DOMAIN f /\ (f \o s)[i] = f[i]
    OBVIOUS
  <2>1. /\ Len(f) \in Nat /\ Len(s) \in Nat
        /\ DOMAIN f = 1 .. Len(f) /\ DOMAIN s = 1 .. Len(s)
    BY <1>6, LenProperties
  <2>2. /\ DOMAIN (f \o s) = 1 .. Len(f) + Len(s)
        /\ (f \o s)[i] = IF i <= Len(f) THEN f[i] ELSE s[i - Len(f)]
    BY <1>6, <1>7, LenProperties, ConcatProperties
  <2>3. CASE i <= Len(f)
    BY <2>1, <2>2, <2>3
  <2>4. CASE ~(i <= Len(f))
    <3>1. i - Len(f) \in DOMAIN s
      BY <2>1, <2>2, <2>4
    <3>2. s[i - Len(f)] \in Elements(s)
      BY <3>1 DEF Elements
    <3> QED BY <1>5, <2>2, <2>4, <3>2
  <2> QED BY <2>3, <2>4
<1>10. ASSUME NEW i \in DOMAIN (f \o s), NEW j \in DOMAIN (f \o s),
              DependsOn((f \o s)[i], (f \o s)[j])
       PROVE  j < i
  <2> DEFINE a == (f \o s)[i]
             b == (f \o s)[j]
  <2>1. a \in Elements(f \o s) /\ b \in Elements(adjacency[a])
    BY <1>10 DEF Elements, DependsOn
  <2>2. a \in Name
    BY <1>7, <2>1 DEF Name
  <2>3. adjacency[a] \in Seq(Name) /\ Elements(adjacency[a]) \subseteq nodes
    BY <2>2 DEF Inv, SearchInv, GraphInv
  <2>4. adjacency[a] # <<>>
    BY <2>1, <2>3, ElementsType
  <2>5. a \in nodes /\ b \in nodes
    BY <2>1, <2>2, <2>3, <2>4 DEF RestInv
  <2>6. i \in DOMAIN f /\ a = f[i] /\ j \in DOMAIN f /\ b = f[j]
    BY <1>9, <2>5
  <2> QED BY <1>1, <1>2, <1>3, <1>10, <2>6, FilteredOrder
<1>11. adjacency' = adjacency
  BY DEF FinishSort, buildVars
<1> QED BY <1>1, <1>7, <1>8, <1>10, <1>11 DEF OrderIsComplete, DependsOn

\* The rest of the invariant is kept.
LEMMA RestStep ==
  ASSUME Inv, RestInv, [Next]_vars
  PROVE  RestInv'
<1> USE DEF buildVars, detectVars, sortVars
<1>1. CASE FinishSort
  BY <1>1, FinishSortOrder DEF FinishSort, RestInv
<1>2. CASE UNCHANGED vars
  BY <1>2 DEF vars, RestInv, OrderIsComplete, DependsOn
<1>3. ASSUME NEW t \in Type, BuildDependencies(t)
      PROVE  RestInv'
  <2>1. ast \in [Type -> Seq(Name)] /\ adjacency \in [Name -> Seq(Name)] /\ t \in Name
    BY DEF Inv, SearchInv, GraphInv, Name
  <2>2. \A n \in Name : adjacency'[n] # <<>> => n \in nodes'
    BY <1>3, <2>1 DEF BuildDependencies, RestInv
  <2> QED BY <1>3, <2>2 DEF BuildDependencies, RestInv, OrderIsComplete
<1>4. CASE StartSort
  <2>1. degree' \in [Name -> Nat]
    BY <1>4, LenProperties DEF StartSort, Inv, SearchInv, GraphInv
  <2> QED BY <1>4, <2>1 DEF StartSort, RestInv, OrderIsComplete
<1>5. CASE KahnStep
  <2>1. pc' = "sort" /\ Inv'
    BY <1>5, KahnStepInv DEF KahnStep
  <2>2. degree' \in [Name -> Nat]
    BY <2>1 DEF Inv, KahnInv
  <2> QED BY <1>5, <2>1, <2>2 DEF KahnStep, RestInv, OrderIsComplete
<1>6. CASE BuildFromAST \/ (\E n \in Name : DetectFrom(n)) \/ DfsNeighbor \/ DfsReturn
           \/ DetectCycles
  <2>1. UNCHANGED <<toBuild, nodes, adjacency, degree, ordered>> /\ pc' # "done"
    BY <1>6 DEF BuildFromAST, DetectFrom, DfsNeighbor, DfsReturn, DetectCycles
  <2> QED BY <2>1 DEF RestInv, OrderIsComplete
<1> QED BY <1>1, <1>2, <1>3, <1>4, <1>5, <1>6 DEF Next

\* Both parts of the invariant.
LEMMA WholeInvariant == Spec => [](Inv /\ RestInv)
<1>1. Init => RestInv
  BY EmptySeq DEF Init, RestInv, OrderIsComplete
<1> QED BY <1>1, InitInv, NextInv, RestStep, PTL DEF Spec

\* For every schema and every iteration order of the maps: a schema that is
\* sorted is handed over with each of its types exactly once, no others, and
\* every type after those it depends on.
THEOREM CompleteOrder == Spec => []OrderIsComplete
<1>1. RestInv => OrderIsComplete
  BY DEF RestInv
<1> QED BY <1>1, WholeInvariant, PTL

\* The types of what the three phases leave for one another.
THEOREM GraphTypeOK == Spec => []TypeOK
<1>1. Inv /\ RestInv => TypeOK
  <2> SUFFICES ASSUME Inv, RestInv
               PROVE  TypeOK
    OBVIOUS
  <2>1. nodes \subseteq Name /\ visited \subseteq Name
    BY DEF Inv, SearchInv, GraphInv, PathInv
  <2>2. [node : nodes, next : Nat \ {0}] \subseteq [node : Name, next : Nat \ {0}]
    BY <2>1
  <2>3. frames \in Seq([node : Name, next : Nat \ {0}])
    BY <2>2, SeqMonotonic DEF Inv, SearchInv, PathInv
  <2>4. queue \in Seq(Name) /\ result \in Seq(Name)
    BY <2>1, SeqMonotonic DEF Inv, KahnInv
  <2>5. \A c \in cycles : c \in Seq(Name)
    BY DEF Inv, SearchInv, CycleInv, RealCycle
  <2> QED BY <2>1, <2>3, <2>4, <2>5 DEF Inv, SearchInv, GraphInv, RestInv, TypeOK
<1> QED BY <1>1, WholeInvariant, PTL
=============================================================================
