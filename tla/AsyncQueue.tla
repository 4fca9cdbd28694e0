----------------------------- MODULE AsyncQueue -----------------------------
(***************************************************************************)
(* siesta::asio::async_queue (include/siesta/asio/queue.hpp): a queue whose *)
(* pollers sleep on a steady_timer that never expires, and whose pushes     *)
(* wake one poller by cancelling one wait on that timer.                    *)
(*                                                                          *)
(* One event loop runs the handlers, so a push and a completion are atomic  *)
(* (the queue takes no lock). Completions of different pollers may run on   *)
(* different associated executors, so a posted completion may overtake      *)
(* another: they form a set.                                                *)
(***************************************************************************)
EXTENDS Integers, Sequences, FiniteSets

CONSTANTS Value,       \* what may be pushed
          Poller,      \* the outstanding-poll slots of the users of the queue
          MaxPushes    \* bound on the number of successful pushes

ASSUME MaxPushesAssumption == MaxPushes \in Nat
ASSUME PollerAssumption == IsFiniteSet(Poller)

VARIABLES
  queue,       \* _queue
  waiters,     \* waits in progress on _timer, oldest first
  aborted,     \* pollers whose wait was cancelled and whose wait_op is posted
  pushed,      \* history: the values accepted, in order
  delivered,   \* history: what the poll handlers got, in order of the calls
  unnoticed    \* history: how many pushes found nobody waiting

vars == <<queue, waiters, aborted, pushed, delivered, unnoticed>>

-----------------------------------------------------------------------------
Waiting == {waiters[i] : i \in DOMAIN waiters}

\* A poller whose poll was initiated and whose handler has not been called.
Outstanding == Waiting \cup aborted

CancelAll ==
  /\ waiters' = <<>>
  /\ aborted' = Outstanding

\* asio: cancel_one completes the oldest wait with operation_aborted, if any.
CancelOne ==
  IF waiters = <<>>
  THEN UNCHANGED <<waiters, aborted>>
  ELSE /\ waiters' = Tail(waiters)
       /\ aborted' = aborted \cup {Head(waiters)}

Init ==
  /\ queue = <<>>
  /\ waiters = <<>>
  /\ aborted = {}
  /\ pushed = <<>>
  /\ delivered = <<>>
  /\ unnoticed = 0

-----------------------------------------------------------------------------
(* Operations of the users. *)

\* async_poll always starts by waiting, even if the queue holds values.
AsyncPoll(p) ==
  /\ p \notin Outstanding
  /\ waiters' = Append(waiters, p)
  /\ UNCHANGED <<queue, aborted, pushed, delivered, unnoticed>>

\* async_push (and async_emplace): store the value, then wake one poller.
AsyncPushMovedFrom(v) ==
  /\ Len(pushed) < MaxPushes
  /\ queue' = Append(queue, "moved_from")
  /\ pushed' = Append(pushed, v)
  /\ unnoticed' = unnoticed + (IF waiters = <<>> THEN 1 ELSE 0)
  /\ CancelOne
  /\ UNCHANGED delivered

AsyncPushInFront(v) ==
  /\ Len(pushed) < MaxPushes
  /\ queue' = <<v>> \o queue
  /\ pushed' = Append(pushed, v)
  /\ unnoticed' = unnoticed + (IF waiters = <<>> THEN 1 ELSE 0)
  /\ CancelOne
  /\ UNCHANGED delivered

AsyncPush(v) ==
  /\ Len(pushed) < MaxPushes
  /\ queue' = Append(queue, v)
  /\ pushed' = Append(pushed, v)
  /\ unnoticed' = unnoticed + (IF waiters = <<>> THEN 1 ELSE 0)
  /\ CancelOne
  /\ UNCHANGED delivered

\* The push throws (no memory, or the move of the value): the handler gets the
\* error, nothing is stored and, the exception leaving the try block before
\* cancel_one, nobody is woken.
AsyncPushThrows(v) == UNCHANGED vars

-----------------------------------------------------------------------------
(* Completions run by the event loop. *)

\* wait_op::operator() with operation_aborted, the only code a wait on this
\* timer completes with: take the oldest value, or wait again if there is none.
WaitOpKeepsValue(p) ==
  /\ p \in aborted
  /\ aborted' = aborted \ {p}
  /\ IF queue = <<>>
     THEN waiters' = Append(waiters, p) /\ UNCHANGED <<queue, delivered>>
     ELSE /\ delivered' = Append(delivered, Head(queue))
          /\ UNCHANGED <<queue, waiters>>
  /\ UNCHANGED <<pushed, unnoticed>>

WaitOp(p) ==
  /\ p \in aborted
  /\ aborted' = aborted \ {p}
  /\ IF queue = <<>>
     THEN waiters' = Append(waiters, p) /\ UNCHANGED <<queue, delivered>>
     ELSE /\ delivered' = Append(delivered, Head(queue))
          /\ queue' = Tail(queue)
          /\ UNCHANGED waiters
  /\ UNCHANGED <<pushed, unnoticed>>

Next ==
  \/ \E p \in Poller : AsyncPoll(p)
  \/ \E v \in Value : AsyncPush(v)
  \/ \E v \in Value : AsyncPushThrows(v)
  \/ \E p \in Poller : WaitOp(p)

\* The event loop runs every posted completion; users owe nobody a call.
Fairness == \A p \in Poller : WF_vars(WaitOp(p))

Spec == Init /\ [][Next]_vars /\ Fairness

-----------------------------------------------------------------------------
(* Properties. *)

TypeOK ==
  /\ queue \in Seq(Value)
  /\ waiters \in Seq(Poller)
  /\ aborted \in SUBSET Poller
  /\ pushed \in Seq(Value)
  /\ delivered \in Seq(Value)
  /\ unnoticed \in Nat

\* A woken poller always finds a value: the queue never holds fewer values than
\* there are woken pollers, so the re-wait of wait_op on an empty queue
\* (queue.hpp:108-111) is never taken and no poller is woken in vain.
WokenFindsValue == Cardinality(aborted) <= Len(queue)

\* No value is lost, duplicated or reordered between async_push and the poll
\* handlers, in whatever order the completions run.
InOrderOnce == pushed = delivered \o queue

\* A poller sleeps on the timer at most once, and never while it is woken.
OneWaitEach ==
  /\ \A i, j \in DOMAIN waiters : waiters[i] = waiters[j] => i = j
  /\ Waiting \cap aborted = {}

\* Exactly the pushes that found nobody waiting are left over: because
\* async_poll never looks at the queue before it sleeps (queue.hpp:129), a
\* later poller does not pick them up, whatever polls and pushes follow.
BacklogIsUnnoticed == Len(queue) = Cardinality(aborted) + unnoticed

\* A woken poller's handler is called, whatever the others do.
WokenIsServed == \A p \in Poller : p \in aborted ~> p \notin Outstanding

\* The abstract queue this one implements.
Fifo == INSTANCE FifoQueue WITH contents <- queue, received <- delivered
FifoQueueSpec == Fifo!FifoSpec
=============================================================================
