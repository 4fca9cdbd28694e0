------------------------ MODULE PythonServerProofs ------------------------
(* Proofs about PythonServer. *)
EXTENDS PythonServer, TLAPS

\* The values of the variables that the argument needs.
Types ==
  /\ gil \in {"caller", "server", "free"}
  /\ caller \in {"python", "waitGil", "shutdown", "destroy", "gone", "terminated"}
  /\ thread \in {"none", "running", "ended"}
  /\ handler \in {"idle", "waitGil", "python", "answers"}

\* The lock is held by the side that runs Python: the caller in every state but
\* waitGil, the server's thread inside a Python method.
LockHeld ==
  /\ caller # "waitGil" <=> gil = "caller"
  /\ handler = "python" <=> gil = "server"

\* A thread that is joined exists, and one that is not running runs no handler.
ThreadInv ==
  /\ Joining => thread # "none"
  /\ thread # "running" => handler = "idle"
  /\ caller = "gone" => thread = "none"

Inv == Types /\ LockHeld /\ ThreadInv

\* The invariant holds for a new PyServer.
LEMMA InitInv == Init => Inv
BY DEF Init, Inv, Types, LockHeld, ThreadInv, Joining

\* Every step of the two threads keeps it: only the side that has the lock, or
\* finds it free, changes its part.
LEMMA NextInv == Inv /\ [Next]_vars => Inv'
<1> SUFFICES ASSUME Inv, [Next]_vars PROVE Inv'
  OBVIOUS
<1> USE DEF Inv, Types, LockHeld, ThreadInv, Joining, serverVars
<1>1. CASE CallerYields
  BY <1>1 DEF CallerYields
<1>2. CASE CallerAcquires
  BY <1>2 DEF CallerAcquires
<1>3. CASE Listen
  BY <1>3 DEF Listen
<1>4. CASE Shutdown
  BY <1>4 DEF Shutdown
<1>5. CASE Destroy
  BY <1>5 DEF Destroy
<1>6. CASE Join
  BY <1>6 DEF Join
<1>7. CASE Dispatch
  BY <1>7 DEF Dispatch, ServerRuns
<1>8. CASE HandlerAcquires
  BY <1>8 DEF HandlerAcquires, ServerRuns
<1>9. CASE HandlerYields
  BY <1>9 DEF HandlerYields, ServerRuns
<1>10. CASE HandlerReturns
  BY <1>10 DEF HandlerReturns, ServerRuns
<1>11. CASE RunReturns
  BY <1>11 DEF RunReturns, ServerRuns
<1>12. CASE HandlerAnswers
  BY <1>12 DEF HandlerAnswers, ServerRuns
<1>13. CASE AcceptFails
  BY <1>13 DEF AcceptFails, ServerRuns
<1>14. CASE UNCHANGED vars
  BY <1>14 DEF vars
<1> QED
  BY <1>1, <1>2, <1>3, <1>4, <1>5, <1>6, <1>7, <1>8, <1>9, <1>10, <1>11, <1>12, <1>13,
     <1>14 DEF Next

\* The invariant holds in every state of the emitted server.
LEMMA Invariant == Spec => []Inv
<1> QED
  BY InitInv, NextInv, PTL DEF Spec

\* For any number of requests and calls: when shutdown or the destructor has
\* joined the thread no handler is left, and while it joins none is in Python.
THEOREM Quiet == Spec => []QuietAfterShutdown
<1>1. Inv => QuietAfterShutdown
  BY DEF Inv, Types, LockHeld, ThreadInv, Joining, QuietAfterShutdown
<1> QED
  BY <1>1, Invariant, PTL

\* A step out of a state in which the joining thread and a handler wait for each
\* other leads to such a state.
LEMMA CycleStays == Inv /\ [Next]_vars => [GilCycle => GilCycle']_vars
<1> SUFFICES ASSUME Inv, Next, GilCycle PROVE GilCycle'
  OBVIOUS
<1>1. /\ Joining /\ handler = "waitGil"
      /\ gil = "caller" /\ thread = "running"
  BY DEF GilCycle, Inv, Types, LockHeld, ThreadInv, Joining
<1> QED
  BY <1>1 DEF GilCycle, Joining, Next, CallerYields, CallerAcquires, Listen, Shutdown,
     Destroy, Join, Dispatch, HandlerAcquires, HandlerYields, HandlerReturns,
     HandlerAnswers, AcceptFails, RunReturns, ServerRuns, serverVars

\* The deadlock of shutdown with a waiting handler is final.
THEOREM CycleIsForever == Spec => GilCycleIsForever
<1> QED
  BY Invariant, CycleStays, PTL DEF Spec, GilCycleIsForever
=============================================================================
