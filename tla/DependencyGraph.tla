-------------------------- MODULE DependencyGraph --------------------------
(***************************************************************************)
(* analysis::DependencyGraph and sortTypes (generator/src/IR/               *)
(* DependencyGraph.hpp, .cpp): from the types of a schema to the order in   *)
(* which their definitions are emitted.                                     *)
(*                                                                          *)
(* The program is sequential; what is open is the iteration order of its    *)
(* unordered_maps, so every loop over one takes its elements in any order.  *)
(* The recursion of dfsDetectCycle is a stack of frames. A type is the list *)
(* of the names it refers to, in whatever form (plain, std::vector<...>,    *)
(* std::map<...>): buildDependencies takes the name out of each; the parser *)
(* makes no containers of containers. References to synthetic C++ types,    *)
(* which it skips, are left out of the list.                                *)
(***************************************************************************)
EXTENDS Integers, Sequences, FiniteSets

CONSTANTS Type,       \* the names of the AST
          Unknown,    \* names that a $ref mentions and the AST does not have
          MaxRefs     \* bound on the references of one type

ASSUME TypeAssumption ==
  /\ IsFiniteSet(Type) /\ IsFiniteSet(Unknown)
  /\ Type \cap Unknown = {}
ASSUME MaxRefsAssumption == MaxRefs \in Nat

Name == Type \cup Unknown

VARIABLES
  ast,        \* the names each type refers to (fields, bases, alternatives, element)
  pc,         \* "build", "detect", "sort", "done" or "cyclic"
  toBuild,    \* types buildFromAST has not visited
  nodes,      \* the keys of adjacency_
  adjacency,  \* adjacency_, with repetitions
  visited,    \* dfsDetectCycle's visited
  frames,     \* its recursion: node and next neighbour; the nodes are path
              \* and, as a set, rec_stack
  cycles,     \* out_cycles
  degree,     \* topologicalSort's in_degree
  queue,      \* its queue
  result,     \* its result
  ordered     \* ordered_types of sortTypes

vars == <<ast, pc, toBuild, nodes, adjacency, visited, frames, cycles, degree,
          queue, result, ordered>>
buildVars == <<ast, toBuild, nodes, adjacency>>
detectVars == <<visited, frames, cycles>>
sortVars == <<degree, queue, result>>

-----------------------------------------------------------------------------
Elements(s) == {s[i] : i \in DOMAIN s}

\* The ways to go through a finite set.
Orderings(S) ==
  {s \in [1 .. Cardinality(S) -> S] :
     /\ Elements(s) = S
     /\ \A i, j \in 1 .. Cardinality(S) : s[i] = s[j] => i = j}

\* Where the dependencies of n mention a member of S.
Positions(n, S) == {i \in DOMAIN adjacency[n] : adjacency[n][i] \in S}

Init ==
  /\ ast \in [Type -> UNION {[1 .. k -> Name] : k \in 0 .. MaxRefs}]
  /\ pc = "build"
  /\ toBuild = Type
  /\ nodes = {}
  /\ adjacency = [n \in Name |-> <<>>]
  /\ visited = {}
  /\ frames = <<>>
  /\ cycles = {}
  /\ degree = [n \in Name |-> 0]
  /\ queue = <<>>
  /\ result = <<>>
  /\ ordered = <<>>

-----------------------------------------------------------------------------
\* buildDependencies: one addDependency for each reference to a named type;
\* both ends become nodes, and a type without such references does not.
BuildDependencies(t) ==
  /\ pc = "build"
  /\ t \in toBuild
  /\ toBuild' = toBuild \ {t}
  /\ adjacency' = [adjacency EXCEPT ![t] = ast[t]]
  /\ nodes' = nodes \cup Elements(ast[t]) \cup (IF ast[t] = <<>> THEN {} ELSE {t})
  /\ UNCHANGED <<ast, pc, detectVars, sortVars, ordered>>

BuildFromAST ==
  /\ pc = "build"
  /\ toBuild = {}
  /\ pc' = "detect"
  /\ UNCHANGED <<buildVars, detectVars, sortVars, ordered>>

-----------------------------------------------------------------------------
(* detectCycles. *)

Path == [i \in DOMAIN frames |-> frames[i].node]
Top == frames[Len(frames)]
Advanced == [frames EXCEPT ![Len(frames)].next = @ + 1]
Neighbor == adjacency[Top.node][Top.next]
HasNeighbor == frames # <<>> /\ Top.next <= Len(adjacency[Top.node])

\* The path from the first occurrence of n, closed with n.
CycleFrom(n) ==
  LET first == CHOOSE i \in DOMAIN Path :
                 Path[i] = n /\ \A j \in 1 .. i - 1 : Path[j] # n
  IN  Append(SubSeq(Path, first, Len(Path)), n)

Enter(n, fs) ==
  /\ visited' = visited \cup {n}
  /\ frames' = Append(fs, [node |-> n, next |-> 1])
  /\ UNCHANGED cycles

\* The outer loop: a node not visited yet.
DetectFrom(n) ==
  /\ pc = "detect"
  /\ frames = <<>>
  /\ n \in nodes \ visited
  /\ Enter(n, <<>>)
  /\ UNCHANGED <<pc, buildVars, sortVars, ordered>>

\* One neighbour: descend, or report a cycle, or pass.
DfsNeighborOnlyFirst ==
  /\ pc = "detect"
  /\ HasNeighbor
  /\ IF Neighbor \notin visited
     THEN Enter(Neighbor, Advanced)
     ELSE /\ frames' = Advanced
          /\ cycles' = cycles \cup IF Neighbor = Path[1] THEN {CycleFrom(Neighbor)} ELSE {}
          /\ UNCHANGED visited
  /\ UNCHANGED <<pc, buildVars, sortVars, ordered>>

DfsNeighborStays ==
  /\ pc = "detect"
  /\ HasNeighbor
  /\ IF Neighbor \notin visited
     THEN Enter(Neighbor, Advanced)
     ELSE /\ cycles' = cycles \cup IF Neighbor \in Elements(Path)
                                   THEN {CycleFrom(Neighbor)} ELSE {}
          /\ UNCHANGED <<visited, frames>>
  /\ UNCHANGED <<pc, buildVars, sortVars, ordered>>

DfsNeighbor ==
  /\ pc = "detect"
  /\ HasNeighbor
  /\ IF Neighbor \notin visited
     THEN Enter(Neighbor, Advanced)
     ELSE /\ frames' = Advanced
          /\ cycles' = cycles \cup IF Neighbor \in Elements(Path)
                                   THEN {CycleFrom(Neighbor)} ELSE {}
          /\ UNCHANGED visited
  /\ UNCHANGED <<pc, buildVars, sortVars, ordered>>

\* All neighbours done: pop the node from path and rec_stack.
DfsReturn ==
  /\ pc = "detect"
  /\ frames # <<>>
  /\ ~HasNeighbor
  /\ frames' = SubSeq(frames, 1, Len(frames) - 1)
  /\ UNCHANGED <<pc, buildVars, visited, cycles, sortVars, ordered>>

-----------------------------------------------------------------------------
(* sortTypes: stop at cycles; otherwise the degrees and the first queue. *)

DetectCycles ==
  /\ pc = "detect"
  /\ frames = <<>>
  /\ nodes \subseteq visited
  /\ cycles # {}
  /\ pc' = "cyclic"
  /\ UNCHANGED <<buildVars, detectVars, sortVars, ordered>>

StartSortCountsDependents ==
  /\ pc = "detect"
  /\ frames = <<>>
  /\ nodes \subseteq visited
  /\ cycles = {}
  /\ pc' = "sort"
  /\ degree' = [n \in Name |-> Cardinality({m \in nodes : Positions(m, {n}) # {}})]
  /\ queue' \in Orderings({n \in nodes : adjacency[n] = <<>>})
  /\ UNCHANGED <<buildVars, detectVars, result, ordered>>

StartSort ==
  /\ pc = "detect"
  /\ frames = <<>>
  /\ nodes \subseteq visited
  /\ cycles = {}
  /\ pc' = "sort"
  /\ degree' = [n \in Name |-> Len(adjacency[n])]
  /\ queue' \in Orderings({n \in nodes : adjacency[n] = <<>>})
  /\ UNCHANGED <<buildVars, detectVars, result, ordered>>

\* One round of Kahn's loop: the dependents of the front of the queue lose one
\* degree per dependency on it; those that reach zero are queued.
KahnStepQueuesEarly ==
  /\ pc = "sort"
  /\ queue # <<>>
  /\ LET current == Head(queue)
         loses == [n \in Name |-> Cardinality(Positions(n, {current}))]
         ready == {n \in nodes : loses[n] > 0} \ Elements(queue \o result)
     IN  /\ result' = Append(result, current)
         /\ degree' = [n \in Name |-> degree[n] - loses[n]]
         /\ \E s \in Orderings(ready) : queue' = Tail(queue) \o s
  /\ UNCHANGED <<pc, buildVars, detectVars, ordered>>

KahnStepCountsOnce ==
  /\ pc = "sort"
  /\ queue # <<>>
  /\ LET current == Head(queue)
         loses == [n \in Name |-> IF Positions(n, {current}) = {} THEN 0 ELSE 1]
         ready == {n \in nodes : loses[n] > 0 /\ degree[n] = loses[n]}
     IN  /\ result' = Append(result, current)
         /\ degree' = [n \in Name |-> degree[n] - loses[n]]
         /\ \E s \in Orderings(ready) : queue' = Tail(queue) \o s
  /\ UNCHANGED <<pc, buildVars, detectVars, ordered>>

KahnStep ==
  /\ pc = "sort"
  /\ queue # <<>>
  /\ LET current == Head(queue)
         loses == [n \in Name |-> Cardinality(Positions(n, {current}))]
         ready == {n \in nodes : loses[n] > 0 /\ degree[n] = loses[n]}
     IN  /\ result' = Append(result, current)
         /\ degree' = [n \in Name |-> degree[n] - loses[n]]
         /\ \E s \in Orderings(ready) : queue' = Tail(queue) \o s
  /\ UNCHANGED <<pc, buildVars, detectVars, ordered>>

\* What topologicalSort returns: everything, or nothing if some node is left.
Sorted == IF Len(result) = Cardinality(nodes) THEN result ELSE <<>>

\* The members of S among those of s, a sequence without repetitions, in the
\* order they have there (there is exactly one such sequence).
Filtered(s, S) ==
  {f \in Orderings(Elements(s) \cap S) :
     \A i, j \in DOMAIN f : i < j =>
       \E k, l \in DOMAIN s : k < l /\ s[k] = f[i] /\ s[l] = f[j]}

\* The rest of sortTypes: keep the names of the AST, then add the types that
\* are no nodes (all of them, if nothing was kept).
FinishSort ==
  /\ pc = "sort"
  /\ queue = <<>>
  /\ \E filtered \in Filtered(Sorted, Type) :
       \E s \in Orderings(Type \ Elements(filtered)) : ordered' = filtered \o s
  /\ pc' = "done"
  /\ UNCHANGED <<buildVars, detectVars, sortVars>>

-----------------------------------------------------------------------------
Next ==
  \/ \E t \in Type : BuildDependencies(t)
  \/ BuildFromAST
  \/ \E n \in Name : DetectFrom(n)
  \/ DfsNeighbor
  \/ DfsReturn
  \/ DetectCycles
  \/ StartSort
  \/ KahnStep
  \/ FinishSort

\* The program runs on.
Fairness == WF_vars(Next)

Spec == Init /\ [][Next]_vars /\ Fairness

-----------------------------------------------------------------------------
(* Properties. *)

TypeOK ==
  /\ ast \in [Type -> Seq(Name)]
  /\ pc \in {"build", "detect", "sort", "done", "cyclic"}
  /\ toBuild \subseteq Type
  /\ nodes \subseteq Name
  /\ adjacency \in [Name -> Seq(Name)]
  /\ visited \subseteq Name
  /\ frames \in Seq([node : Name, next : Nat \ {0}])
  /\ \A c \in cycles : c \in Seq(Name)
  /\ degree \in [Name -> Nat]
  /\ queue \in Seq(Name)
  /\ result \in Seq(Name)
  /\ ordered \in Seq(Type)

DependsOn(a, b) == b \in Elements(adjacency[a])

\* Sets of names that can follow each other forever: there is a cycle iff a
\* nonempty one exists.
HasCycle == \E S \in SUBSET nodes : S # {} /\ \A a \in S : \E b \in S : DependsOn(a, b)

\* The depth-first search, whatever the order of the maps, ends with a reported
\* cycle exactly if the graph has one, and what it reports is a closed path.
CyclesAreExact ==
  /\ pc \in {"sort", "done"} => ~HasCycle
  /\ \A c \in cycles :
       /\ c[1] = c[Len(c)] /\ Len(c) > 1
       /\ \A i \in 1 .. Len(c) - 1 : DependsOn(c[i], c[i + 1])

\* Every name topologicalSort has put out comes after everything it depends
\* on, so the emitted structs only contain complete types.
DependenciesFirst ==
  \A i \in DOMAIN result : \A n \in Elements(adjacency[result[i]]) :
    \E j \in 1 .. i - 1 : result[j] = n

\* In the end every type of the AST is in the order exactly once (the driver's
\* warning "AST types are NOT in topological order" never comes up), unknown
\* names are not, and the order still has dependencies first.
OrderIsComplete ==
  pc = "done" =>
    /\ Elements(ordered) = Type
    /\ Len(ordered) = Cardinality(Type)
    /\ \A i, j \in DOMAIN ordered : DependsOn(ordered[i], ordered[j]) => j < i

\* The generator gets an order or an error for every schema.
Terminates == <>(pc \in {"done", "cyclic"})
=============================================================================
