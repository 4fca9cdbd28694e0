------------------------------ MODULE MCServer ------------------------------
(* Server for TLC: two connections that interleave, two requests on each, so *)
(* that a second request can be pipelined behind the first.                  *)
EXTENDS Server
=============================================================================
