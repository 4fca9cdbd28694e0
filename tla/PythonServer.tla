---------------------------- MODULE PythonServer ----------------------------
(***************************************************************************)
(* The class PyServer that BeastServerPythonGen.cpp emits: a server whose   *)
(* handlers are Python methods. listen starts a thread in ctx.run();        *)
(* shutdown and the destructor stop ctx and join that thread. They are      *)
(* called from Python, so they run with the interpreter lock (GIL) held,    *)
(* and a handler on the server's thread needs the same lock.                *)
(*                                                                          *)
(* The connections and their operations are those of module Server; here a  *)
(* request is one handler on the server's thread.                           *)
(***************************************************************************)
EXTENDS Naturals

CONSTANTS MaxRequests,   \* bound on the requests that arrive
          MaxListens     \* bound on the calls of listen

ASSUME BoundAssumption == MaxRequests \in Nat /\ MaxListens \in Nat

VARIABLES
  gil,        \* who holds the interpreter lock: "caller", "server" or "free"
  caller,     \* the Python thread: "python", "waitGil", "shutdown" or "destroy"
              \* (both in join), "gone" (destroyed) or "terminated"
  thread,     \* _thread: "none" (not joinable), "running" or "ended"
  stopped,    \* ctx is stopped
  acceptor,   \* "closed", "open" (but not bound), "listening", or "deaf" (it
              \* accepts no more)
  handler,    \* the server's thread: "idle", "waitGil", "python" or "answers"
              \* (the lock is released, the 501 is not written yet)
  requests,   \* requests dispatched so far
  listens     \* calls of listen so far

vars == <<gil, caller, thread, stopped, acceptor, handler, requests, listens>>
serverVars == <<handler, requests>>

Init ==
  /\ gil = "caller"
  /\ caller = "python"
  /\ thread = "none"
  /\ stopped = FALSE
  /\ acceptor = "closed"
  /\ handler = "idle"
  /\ requests = 0
  /\ listens = 0

-----------------------------------------------------------------------------
(* The Python thread. *)

\* The interpreter lends the lock: a blocking call, or the switch interval.
CallerYields ==
  /\ caller = "python"
  /\ caller' = "waitGil"
  /\ gil' = "free"
  /\ UNCHANGED <<thread, stopped, acceptor, serverVars, listens>>

CallerAcquires ==
  /\ caller = "waitGil"
  /\ gil = "free"
  /\ caller' = "python"
  /\ gil' = "caller"
  /\ UNCHANGED <<thread, stopped, acceptor, serverVars, listens>>

\* start gives up silently at the first step that fails, and at once if the
\* acceptor is open from an earlier call. Then _thread is assigned: the program
\* ends (std::terminate) if it is joinable, running or not.
Listen ==
  /\ caller = "python"
  /\ listens < MaxListens
  /\ listens' = listens + 1
  /\ acceptor' \in IF acceptor = "closed" THEN {"closed", "open", "listening"}
                                         ELSE {acceptor}
  /\ IF thread = "none"
     THEN thread' = "running" /\ UNCHANGED caller
     ELSE caller' = "terminated" /\ UNCHANGED thread
  /\ UNCHANGED <<gil, stopped, serverVars>>

\* ctx.stop(), then join if the thread is joinable; the lock stays held.
ShutdownWithoutStop ==
  /\ caller = "python"
  /\ caller' = IF thread = "none" THEN "python" ELSE "shutdown"
  /\ UNCHANGED <<gil, thread, stopped, acceptor, serverVars, listens>>

ShutdownReleasesGil ==
  /\ caller = "python"
  /\ stopped' = TRUE
  /\ caller' = IF thread = "none" THEN "python" ELSE "shutdown"
  /\ gil' = IF thread = "none" THEN gil ELSE "free"
  /\ UNCHANGED <<thread, acceptor, serverVars, listens>>

Shutdown ==
  /\ caller = "python"
  /\ stopped' = TRUE
  /\ caller' = IF thread = "none" THEN "python" ELSE "shutdown"
  /\ UNCHANGED <<gil, thread, acceptor, serverVars, listens>>

\* ~PyServer, when the last reference goes.
Destroy ==
  /\ caller = "python"
  /\ stopped' = TRUE
  /\ caller' = IF thread = "none" THEN "gone" ELSE "destroy"
  /\ UNCHANGED <<gil, thread, acceptor, serverVars, listens>>

\* join returns when the thread's function has.
JoinAny ==
  /\ caller \in {"shutdown", "destroy"}
  /\ thread' = "none"
  /\ caller' = IF caller = "shutdown" THEN "python" ELSE "gone"
  /\ UNCHANGED <<gil, stopped, acceptor, serverVars, listens>>

Join ==
  /\ caller \in {"shutdown", "destroy"}
  /\ thread = "ended"
  /\ thread' = "none"
  /\ caller' = IF caller = "shutdown" THEN "python" ELSE "gone"
  /\ UNCHANGED <<gil, stopped, acceptor, serverVars, listens>>

-----------------------------------------------------------------------------
(* The server's thread. *)

ServerRuns == thread = "running" /\ caller # "terminated"

\* handle_request calls the override of PyServer, which wants the lock.
Dispatch ==
  /\ ServerRuns
  /\ ~stopped
  /\ acceptor \in {"listening", "deaf"}
  /\ handler = "idle"
  /\ requests < MaxRequests
  /\ requests' = requests + 1
  /\ handler' = "waitGil"
  /\ UNCHANGED <<gil, caller, thread, stopped, acceptor, listens>>

HandlerAcquires ==
  /\ ServerRuns
  /\ handler = "waitGil"
  /\ gil = "free"
  /\ handler' = "python"
  /\ gil' = "server"
  /\ UNCHANGED <<caller, thread, stopped, acceptor, requests, listens>>

\* The Python method lends the lock and wants it back.
HandlerYields ==
  /\ ServerRuns
  /\ handler = "python"
  /\ handler' = "waitGil"
  /\ gil' = "free"
  /\ UNCHANGED <<caller, thread, stopped, acceptor, requests, listens>>

\* The reply of the Python method or the 500 of an exception is written, then the
\* lock released. For a method that is not overridden it is released first.
HandlerReturns ==
  /\ ServerRuns
  /\ handler = "python"
  /\ handler' \in {"idle", "answers"}
  /\ gil' = "free"
  /\ UNCHANGED <<caller, thread, stopped, acceptor, requests, listens>>

HandlerAnswers ==
  /\ ServerRuns
  /\ handler = "answers"
  /\ handler' = "idle"
  /\ UNCHANGED <<gil, caller, thread, stopped, acceptor, requests, listens>>

\* on_accept gets an error and waits for no further connection; the ones there are
\* go on.
AcceptFails ==
  /\ ServerRuns
  /\ ~stopped
  /\ acceptor = "listening"
  /\ handler = "idle"
  /\ acceptor' = "deaf"
  /\ UNCHANGED <<gil, caller, thread, stopped, serverVars, listens>>

\* ctx.run() returns between two handlers: ctx is stopped, or has no work (and
\* is stopped thereby). Without an accept there is none once the last connection
\* has ended.
RunReturns ==
  /\ ServerRuns
  /\ handler = "idle"
  /\ stopped \/ acceptor # "listening"
  /\ thread' = "ended"
  /\ stopped' = TRUE
  /\ UNCHANGED <<gil, caller, acceptor, serverVars, listens>>

-----------------------------------------------------------------------------
Next ==
  \/ CallerYields \/ CallerAcquires
  \/ Listen \/ Shutdown \/ Destroy \/ Join
  \/ Dispatch \/ HandlerAcquires \/ HandlerYields \/ HandlerReturns
  \/ HandlerAnswers \/ AcceptFails \/ RunReturns

\* Threads that can run do; the interpreter passes its lock around (a Python
\* thread is made to yield); Python methods return, and connections end, as
\* module Server shows. Nobody has to call listen
\* or shutdown, and no request has to come.
Fairness ==
  /\ WF_vars(CallerYields) /\ SF_vars(CallerAcquires)
  /\ SF_vars(HandlerAcquires) /\ SF_vars(HandlerReturns)
  /\ WF_vars(HandlerAnswers) /\ WF_vars(RunReturns) /\ WF_vars(Join)

Spec == Init /\ [][Next]_vars /\ Fairness

-----------------------------------------------------------------------------
(* Properties. *)

Joining == caller \in {"shutdown", "destroy"}

\* The wait of the hazard: the thread to be joined waits for the lock that the
\* joining thread holds.
GilCycle == Joining /\ handler = "waitGil"

\* Once shutdown (or the destructor) has joined the thread, no handler is left
\* that could call into Python or use the object; and while it joins, none is
\* inside Python.
QuietAfterShutdown ==
  /\ thread \in {"none", "ended"} => handler = "idle"
  /\ caller = "gone" => thread = "none"
  /\ Joining => gil = "caller" /\ handler # "python"

\* shutdown and the destructor return, unless a handler was waiting for the
\* interpreter lock; and a request that waits for it gets it, unless the
\* server is being shut down or the program has ended.
ShutdownReturns ==
  /\ Joining ~> (~Joining \/ GilCycle)
  /\ handler = "waitGil" ~> (handler # "waitGil" \/ GilCycle \/ caller = "terminated")

\* A shutdown that finds a handler waiting for the lock never returns: neither
\* of the two threads moves again.
GilCycleIsForever == [][GilCycle => GilCycle']_vars
=============================================================================
