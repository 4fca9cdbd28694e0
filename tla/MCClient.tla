------------------------------ MODULE MCClient ------------------------------
(* Client for TLC: three calls, so that a call follows one that failed, and  *)
(* two starts, so that a second connection follows a first.                  *)
EXTENDS Client
=============================================================================
