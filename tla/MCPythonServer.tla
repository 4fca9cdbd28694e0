--------------------------- MODULE MCPythonServer ---------------------------
(* PythonServer for TLC: a few requests, and listen called more than once.   *)
EXTENDS PythonServer
=============================================================================
