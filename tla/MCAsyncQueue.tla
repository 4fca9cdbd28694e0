---------------------------- MODULE MCAsyncQueue ----------------------------
(* AsyncQueue for TLC: three pollers and two values, so that two pollers can *)
(* be woken at once while a third sleeps and a backlog exists.               *)
EXTENDS AsyncQueue
=============================================================================
