------------------------- MODULE MCDependencyGraph -------------------------
(* DependencyGraph for TLC: every schema of three types with at most two    *)
(* references each, to each other, to themselves or to a name the schema    *)
(* lacks: all shapes of cycle, a diamond's worth of sharing, repetitions.   *)
EXTENDS DependencyGraph
=============================================================================
