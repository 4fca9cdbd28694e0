-------------------------- MODULE AsyncQueueProofs --------------------------
(***************************************************************************)
(* Proofs about AsyncQueue, for any sets of values and pollers.             *)
(***************************************************************************)
EXTENDS AsyncQueue, FiniteSetTheorems, SequenceTheorems, TLAPS

\* What a step of the queue keeps: exact accounting of wake-ups and values.
IInv ==
  /\ TypeOK
  /\ OneWaitEach
  /\ BacklogIsUnnoticed
  /\ InOrderOnce

\* Every set of woken pollers is finite, so its cardinality is a number.
LEMMA AbortedFinite ==
  ASSUME TypeOK
  PROVE  IsFiniteSet(aborted) /\ Cardinality(aborted) \in Nat
BY PollerAssumption, FS_Subset, FS_CardinalityType DEF TypeOK

\* Moving the head of a second sequence to the end of a first one does not
\* change their concatenation: what taking a value does to the history.
LEMMA HeadMoves ==
  ASSUME NEW S, NEW d \in Seq(S), NEW q \in Seq(S), q # <<>>
  PROVE  d \o q = Append(d, Head(q)) \o Tail(q)
<1>1. PICK h \in S, t \in Seq(S) : h = Head(q) /\ t = Tail(q)
  BY HeadTailProperties
<1>2. <<h>> \in Seq(S)
  OBVIOUS
<1>3. q = <<h>> \o t
  BY <1>1, <1>2, HeadTailProperties, ConcatProperties, SeqEqual, LenProperties
<1>4. Append(d, h) = d \o <<h>>
  BY AppendIsConcat
<1>5. (d \o <<h>>) \o t = d \o (<<h>> \o t)
  BY <1>2, ConcatAssociative, SMTT(30)
<1> QED BY <1>1, <1>3, <1>4, <1>5

\* The empty queue satisfies the invariant.
LEMMA InitIInv == Init => IInv
<1> SUFFICES ASSUME Init PROVE IInv
  OBVIOUS
<1>1. TypeOK
  BY DEF Init, TypeOK
<1>2. OneWaitEach
  BY DEF Init, OneWaitEach, Waiting
<1>3. BacklogIsUnnoticed
  BY FS_EmptySet DEF Init, BacklogIsUnnoticed
<1>4. InOrderOnce
  BY ConcatEmptySeq, <1>1 DEF Init, InOrderOnce, TypeOK
<1> QED BY <1>1, <1>2, <1>3, <1>4 DEF IInv

\* Starting to wait (async_poll) touches neither the values nor the woken.
LEMMA AsyncPollIInv ==
  ASSUME IInv, NEW p \in Poller, AsyncPoll(p)
  PROVE  IInv'
<1> USE DEF IInv
<1>1. TypeOK'
  BY AppendProperties DEF AsyncPoll, TypeOK
<1>2. OneWaitEach'
  <2>1. \A i \in 1..Len(waiters) : waiters'[i] = waiters[i] /\ waiters[i] # p
    BY AppendProperties, LenProperties DEF AsyncPoll, TypeOK, Outstanding, Waiting
  <2>2. waiters'[Len(waiters) + 1] = p /\ p \notin aborted
    BY AppendProperties DEF AsyncPoll, TypeOK, Outstanding
  <2>3. DOMAIN waiters' = 1..(Len(waiters) + 1) /\ DOMAIN waiters = 1..Len(waiters)
        /\ Len(waiters) \in Nat
    BY AppendProperties, LenProperties DEF AsyncPoll, TypeOK
  <2>4. \A i, j \in DOMAIN waiters' : waiters'[i] = waiters'[j] => i = j
    BY <2>1, <2>2, <2>3 DEF OneWaitEach
  <2>5. Waiting' = Waiting \cup {p}
    BY <2>1, <2>2, <2>3 DEF Waiting
  <2>6. aborted' = aborted
    BY DEF AsyncPoll
  <2> QED BY <2>2, <2>4, <2>5, <2>6 DEF OneWaitEach
<1>3. BacklogIsUnnoticed' /\ InOrderOnce'
  BY DEF AsyncPoll, BacklogIsUnnoticed, InOrderOnce
<1> QED BY <1>1, <1>2, <1>3

\* The head of the waiting list moves to the woken ones; nobody else moves.
LEMMA CancelOneMoves ==
  ASSUME TypeOK, OneWaitEach, CancelOne
  PROVE  /\ waiters' \in Seq(Poller)
         /\ aborted' \in SUBSET Poller
         /\ OneWaitEach'
         /\ Cardinality(aborted') = Cardinality(aborted) + (IF waiters = <<>> THEN 0 ELSE 1)
<1>1. CASE waiters = <<>>
  BY <1>1, AbortedFinite DEF CancelOne, TypeOK, OneWaitEach, Waiting
<1>2. CASE waiters # <<>>
  <2> DEFINE h == Head(waiters)
  <2>1. /\ waiters' = Tail(waiters) /\ aborted' = aborted \cup {h}
    BY <1>2 DEF CancelOne
  <2>2. /\ h \in Poller /\ waiters' \in Seq(Poller) /\ Len(waiters') = Len(waiters) - 1
        /\ \A i \in 1..Len(waiters') : waiters'[i] = waiters[i+1]
        /\ Len(waiters) \in Nat \ {0} /\ h = waiters[1]
    BY <1>2, <2>1, HeadTailProperties, LenProperties, EmptySeq DEF TypeOK
  <2>3. DOMAIN waiters = 1..Len(waiters) /\ DOMAIN waiters' = 1..(Len(waiters) - 1)
    BY <2>2, LenProperties DEF TypeOK
  <2>4. h \in Waiting /\ h \notin aborted
    BY <2>2, <2>3 DEF Waiting, OneWaitEach
  <2>5. Waiting' = Waiting \ {h}
    <3>1. Waiting' \subseteq Waiting \ {h}
      BY <2>2, <2>3, SMTT(30) DEF Waiting, OneWaitEach
    <3>2. ASSUME NEW q \in Waiting \ {h} PROVE q \in Waiting'
      <4>1. PICK i \in 1..Len(waiters) : q = waiters[i]
        BY <2>3 DEF Waiting
      <4>2. i - 1 \in 1..(Len(waiters) - 1) /\ q = waiters'[i - 1]
        BY <4>1, <2>2
      <4> QED BY <4>2, <2>3 DEF Waiting
    <3> QED BY <3>1, <3>2
  <2>6. \A i, j \in DOMAIN waiters' : waiters'[i] = waiters'[j] => i = j
    BY <2>2, <2>3, SMTT(30) DEF OneWaitEach
  <2>7. OneWaitEach'
    BY <2>1, <2>4, <2>5, <2>6 DEF OneWaitEach
  <2>8. Cardinality(aborted') = Cardinality(aborted) + 1
    BY <2>1, <2>4, AbortedFinite, FS_AddElement
  <2> QED BY <1>2, <2>1, <2>2, <2>7, <2>8 DEF TypeOK
<1> QED BY <1>1, <1>2

\* A push adds one value, and one woken poller or one unnoticed push.
LEMMA AsyncPushIInv ==
  ASSUME IInv, NEW v \in Value, AsyncPush(v)
  PROVE  IInv'
<1> USE DEF IInv
<1>1. CancelOne
  BY DEF AsyncPush
<1>2. /\ queue' \in Seq(Value) /\ Len(queue') = Len(queue) + 1
      /\ pushed' \in Seq(Value) /\ Len(queue) \in Nat
  BY AppendProperties, LenProperties DEF AsyncPush, TypeOK
<1>3. TypeOK'
  BY <1>1, <1>2, CancelOneMoves DEF AsyncPush, TypeOK
<1>4. OneWaitEach'
  BY <1>1, CancelOneMoves
<1>5. BacklogIsUnnoticed'
  BY <1>1, <1>2, CancelOneMoves, AbortedFinite, SMTT(30) DEF AsyncPush, BacklogIsUnnoticed, TypeOK
<1>6. InOrderOnce'
  <2>1. /\ pushed' = pushed \o <<v>> /\ queue' = queue \o <<v>>
        /\ delivered' = delivered /\ <<v>> \in Seq(Value)
    BY AppendIsConcat, SMTT(30) DEF AsyncPush, TypeOK
  <2>2. (delivered \o queue) \o <<v>> = delivered \o (queue \o <<v>>)
    BY <2>1, ConcatAssociative, SMTT(30) DEF TypeOK
  <2> QED BY <2>1, <2>2 DEF InOrderOnce
<1> QED BY <1>3, <1>4, <1>5, <1>6

\* A woken poller takes the oldest value. That the queue is not empty then is
\* what the accounting invariant is for.
LEMMA WaitOpIInv ==
  ASSUME IInv, NEW p \in Poller, WaitOp(p)
  PROVE  IInv' /\ queue # <<>>
<1> USE DEF IInv
<1>1. /\ p \in aborted /\ aborted' = aborted \ {p}
      /\ Cardinality(aborted') = Cardinality(aborted) - 1
      /\ Cardinality(aborted) \in Nat \ {0}
  BY AbortedFinite, FS_RemoveElement, FS_EmptySet DEF WaitOp
<1>2. queue # <<>>
  BY <1>1, EmptySeq DEF BacklogIsUnnoticed, TypeOK
<1>3. /\ delivered' = Append(delivered, Head(queue)) /\ queue' = Tail(queue)
      /\ UNCHANGED <<waiters, pushed, unnoticed>>
  BY <1>2 DEF WaitOp
<1>4. /\ Head(queue) \in Value /\ queue' \in Seq(Value) /\ Len(queue') = Len(queue) - 1
      /\ Len(queue) \in Nat
  BY <1>2, <1>3, HeadTailProperties, LenProperties DEF TypeOK
<1>5. TypeOK'
  BY <1>1, <1>3, <1>4, AppendProperties DEF TypeOK
<1>6. OneWaitEach'
  BY <1>1, <1>3 DEF OneWaitEach, Waiting
<1>7. BacklogIsUnnoticed'
  BY <1>1, <1>3, <1>4 DEF BacklogIsUnnoticed, TypeOK
<1>8. InOrderOnce'
  BY <1>2, <1>3, HeadMoves DEF InOrderOnce, TypeOK
<1> QED BY <1>2, <1>5, <1>6, <1>7, <1>8

\* Every step keeps the invariant, and a wait_op never finds the queue empty.
LEMMA NextIInv == IInv /\ [Next]_vars => IInv'
<1> SUFFICES ASSUME IInv, [Next]_vars PROVE IInv'
  OBVIOUS
<1>1. ASSUME NEW p \in Poller, AsyncPoll(p) PROVE IInv'
  BY <1>1, AsyncPollIInv
<1>2. ASSUME NEW v \in Value, AsyncPush(v) PROVE IInv'
  BY <1>2, AsyncPushIInv
<1>3. ASSUME NEW v \in Value, AsyncPushThrows(v) PROVE IInv'
  BY <1>3 DEF AsyncPushThrows, vars, IInv, TypeOK, OneWaitEach, Waiting,
              BacklogIsUnnoticed, InOrderOnce
<1>4. ASSUME NEW p \in Poller, WaitOp(p) PROVE IInv'
  BY <1>4, WaitOpIInv
<1>5. CASE UNCHANGED vars
  BY <1>5 DEF vars, IInv, TypeOK, OneWaitEach, Waiting, BacklogIsUnnoticed, InOrderOnce
<1> QED BY <1>1, <1>2, <1>3, <1>4, <1>5 DEF Next

\* The accounting invariant holds throughout.
THEOREM AccountingInvariant == Spec => []IInv
BY InitIInv, NextIInv, PTL DEF Spec

\* Type correctness of the queue's state.
THEOREM TypeCorrect == Spec => []TypeOK
<1>1. IInv => TypeOK
  BY DEF IInv
<1> QED BY <1>1, AccountingInvariant, PTL

\* Pushed values reach the poll handlers in push order, each once.
THEOREM DeliveryInOrderOnce == Spec => []InOrderOnce
<1>1. IInv => InOrderOnce
  BY DEF IInv
<1> QED BY <1>1, AccountingInvariant, PTL

\* The values left over are exactly the pushes that found nobody waiting.
THEOREM Backlog == Spec => []BacklogIsUnnoticed
<1>1. IInv => BacklogIsUnnoticed
  BY DEF IInv
<1> QED BY <1>1, AccountingInvariant, PTL

\* No poller is ever woken in vain.
THEOREM NoVainWakeup == Spec => []WokenFindsValue
<1>1. IInv => WokenFindsValue
  BY AbortedFinite, LenProperties DEF IInv, BacklogIsUnnoticed, WokenFindsValue, TypeOK
<1> QED BY <1>1, AccountingInvariant, PTL

\* async_queue implements the abstract FIFO queue: a push is a Put, a wait_op
\* is a Take, and a poll is invisible.
THEOREM ImplementsFifo == Spec => FifoQueueSpec
<1>1. Init => Fifo!FifoInit
  BY DEF Init, Fifo!FifoInit
<1>2. IInv /\ [Next]_vars => [Fifo!FifoNext]_(Fifo!fifoVars)
  <2> SUFFICES ASSUME IInv, [Next]_vars PROVE [Fifo!FifoNext]_(Fifo!fifoVars)
    OBVIOUS
  <2> USE DEF Fifo!FifoNext, Fifo!fifoVars
  <2>1. ASSUME NEW p \in Poller, AsyncPoll(p) PROVE UNCHANGED Fifo!fifoVars
    BY <2>1 DEF AsyncPoll
  <2>2. ASSUME NEW v \in Value, AsyncPush(v) PROVE Fifo!Put(v)
    BY <2>2 DEF AsyncPush, Fifo!Put
  <2>3. ASSUME NEW v \in Value, AsyncPushThrows(v) PROVE UNCHANGED Fifo!fifoVars
    BY <2>3 DEF AsyncPushThrows, vars
  <2>4. ASSUME NEW p \in Poller, WaitOp(p) PROVE Fifo!Take
    BY <2>4, WaitOpIInv DEF WaitOp, Fifo!Take
  <2>5. CASE UNCHANGED vars
    BY <2>5 DEF vars
  <2> QED BY <2>1, <2>2, <2>3, <2>4, <2>5 DEF Next
<1> QED BY <1>1, <1>2, AccountingInvariant, PTL DEF Spec, FifoQueueSpec, Fifo!FifoSpec
=============================================================================
