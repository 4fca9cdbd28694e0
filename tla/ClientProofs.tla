---------------------------- MODULE ClientProofs ----------------------------
(***************************************************************************)
(* Proofs about Client.                                                     *)
(*                                                                          *)
(* The types and stop hold whatever the user does with the client. What a   *)
(* call may trust of its answer is proved for the use the client allows,    *)
(* one call at a time (MaxSubmitted = 1): with two, _request is shared and  *)
(* neither OwnAnswer nor AtMostOnce holds.                                  *)
(***************************************************************************)
EXTENDS Client, TLAPS, FiniteSetTheorems, SequenceTheorems

(* What the types rest on. *)

\* An operation that runs is one of the user's, in one of its two states; it
\* writes a request somebody submitted, as _request is from then on.
ActiveInv ==
  \/ active = Idle
  \/ /\ active.op \in Op
     /\ active.phase \in {"write", "read"}
     /\ active.writing.op \in Op
     /\ request.op \in Op

SubmittedInv == submitted # {} => request.op \in Op

LinkInv == link # "closed" => server \in Endpoint

TypeInv == TypeOK /\ ActiveInv /\ SubmittedInv /\ LinkInv

\* After a stop that found no lookup begun, what is left of the starts before it
\* has failed: no on_resolve can open the socket again.
StopInv ==
  stopped /\ ~begun =>
    /\ link = "closed"
    /\ \A i \in DOMAIN resolves : resolves[i].state = "failed"

-----------------------------------------------------------------------------
(* One call at a time. *)

\* _request belongs to the one call that is submitted or running.
OneCall ==
  /\ \A o \in submitted :
       /\ submitted = {o}
       /\ active = Idle
       /\ request.op = o
       /\ outcome[o] = Pending
  /\ active # Idle =>
       /\ submitted = {}
       /\ active.writing = request
       /\ request.op = active.op
       /\ outcome[active.op] = Pending

\* The calls whose requests reached a server.
ReceivedOps == {received[i].request.op : i \in DOMAIN received}

\* A request that reached a server is that of a call that is over or reading.
Arrived(o) == outcome[o] # Pending \/ (active.op = o /\ active.phase = "read")

ReceivedInv ==
  /\ \A i, j \in DOMAIN received : received[i].request.op = received[j].request.op => i = j
  /\ \A i \in DOMAIN received : received[i].request.op \in Op
                                /\ Arrived(received[i].request.op)

\* What servers send and the client buffers are answers to requests received.
AnswersInv ==
  /\ \A i \in DOMAIN buffer : buffer[i].of \in ReceivedOps
  /\ \A i \in DOMAIN inbound : inbound[i].of \in ReceivedOps
  /\ \A i \in DOMAIN unanswered : unanswered[i] \in ReceivedOps
  /\ \A o \in Op : outcome[o].of = o => o \in ReceivedOps

OnceInv == TypeInv /\ OneCall /\ ReceivedInv /\ AnswersInv

-----------------------------------------------------------------------------
(* Whose answer is where. *)

Quiet == inbound = <<>> /\ unanswered = <<>>

\* A response to o is on its way through the two pieces it travels in: asked
\* for, sent, or half read.
Asked(o) == unanswered = <<o>> /\ inbound = <<>> /\ buffer = <<>>

Sent(o) ==
  /\ unanswered = <<>> /\ buffer = <<>>
  /\ Len(inbound) = 2
  /\ inbound[1].part = "head" /\ inbound[2].part = "rest" /\ inbound[2].of = o

HalfRead(o) ==
  /\ unanswered = <<>>
  /\ Len(inbound) = 1 /\ inbound[1].part = "rest" /\ inbound[1].of = o
  /\ Len(buffer) = 1 /\ buffer[1].part = "head"

Reading == active.phase = "read" /\ ~active.doomed

\* As long as no operation was cut off within a header: nothing is left in
\* _buffer or on the connection when the next call starts, so that all a
\* reading call can get is its own answer.
CleanInv ==
  /\ \A o \in Op : outcome[o].of \in Op => outcome[o].of = o
  /\ ~Complete(buffer)
  /\ active.phase # "read" => buffer = <<>>
  /\ link = "connecting" => Quiet /\ ~Reading
  /\ link = "connected" /\ ~Reading => Quiet
  /\ link \in {"connected", "broken"} /\ Reading =>
       Asked(active.op) \/ Sent(active.op) \/ HalfRead(active.op)

OwnInv == OnceInv /\ (~cutShort => CleanInv)

-----------------------------------------------------------------------------
(* The types. *)

USE DEF vars, callVars, netVars, startVars, linkVars

\* What a resolve in progress is.
Resolve == [to : Endpoint, state : {"asked", "running", "found", "failed"}]

\* What an operation is, and none.
Operation == [op : Op \cup {NoOp}, phase : {"idle", "write", "read"},
              doomed : BOOLEAN, writing : Request]

\* A function on 1 .. n is a sequence of length n.
LEMMA FunctionIsSeq ==
  ASSUME NEW S, NEW n \in Nat, NEW f \in [1 .. n -> S]
  PROVE  f \in Seq(S) /\ Len(f) = n
<1>1. f \in Seq(S)
  BY SeqDef
<1>2. Len(f) \in Nat /\ DOMAIN f = 1 .. Len(f)
  BY <1>1, LenProperties
<1>3. 1 .. Len(f) = 1 .. n
  BY <1>2
<1> QED BY <1>1, <1>2, <1>3

\* Appending adds one element at the end.
LEMMA AppendElements ==
  ASSUME NEW S, NEW s \in Seq(S), NEW x \in S
  PROVE  /\ Append(s, x) \in Seq(S)
         /\ DOMAIN Append(s, x) = 1 .. Len(s) + 1
         /\ Append(s, x)[Len(s) + 1] = x
         /\ \A i \in DOMAIN Append(s, x) :
              (i \in DOMAIN s /\ Append(s, x)[i] = s[i]) \/ Append(s, x)[i] = x
<1>1. Append(s, x) \in Seq(S) /\ Len(Append(s, x)) = Len(s) + 1
  BY AppendProperties
<1>2. DOMAIN Append(s, x) = 1 .. Len(s) + 1
  BY <1>1, LenProperties
<1>3. Append(s, x)[Len(s) + 1] = x /\ \A i \in 1 .. Len(s) : Append(s, x)[i] = s[i]
  BY AppendProperties
<1>4. Len(s) \in Nat /\ DOMAIN s = 1 .. Len(s)
  BY LenProperties
<1>5. \A i \in 1 .. Len(s) + 1 : i \in 1 .. Len(s) \/ i = Len(s) + 1
  BY <1>4
<1> QED BY <1>1, <1>2, <1>3, <1>4, <1>5

\* The elements of a tail are elements.
LEMMA TailElements ==
  ASSUME NEW S, NEW s \in Seq(S), s # <<>>
  PROVE  /\ 1 \in DOMAIN s /\ Head(s) = s[1] /\ s[1] \in S
         /\ Tail(s) \in Seq(S)
         /\ \A i \in DOMAIN Tail(s) : i + 1 \in DOMAIN s /\ Tail(s)[i] = s[i + 1]
<1>1. Len(s) \in Nat /\ DOMAIN s = 1 .. Len(s) /\ Len(s) # 0
  BY LenProperties, EmptySeq
<1>2. Tail(s) \in Seq(S) /\ Len(Tail(s)) = Len(s) - 1
      /\ \A i \in 1 .. Len(Tail(s)) : Tail(s)[i] = s[i + 1]
  BY HeadTailProperties
<1>3. DOMAIN Tail(s) = 1 .. Len(s) - 1
  BY <1>2, LenProperties
<1>4. 1 \in DOMAIN s /\ \A i \in 1 .. Len(s) - 1 : i + 1 \in 1 .. Len(s)
  BY <1>1
<1>5. Head(s) = s[1] /\ s[1] \in S
  BY <1>1, <1>4, ElementOfSeq
<1> QED BY <1>1, <1>2, <1>3, <1>4, <1>5

\* The elements of a concatenation come from one or the other.
LEMMA ConcatElements ==
  ASSUME NEW S, NEW s \in Seq(S), NEW t \in Seq(S), Len(t) = 2
  PROVE  /\ s \o t \in Seq(S)
         /\ \A i \in DOMAIN (s \o t) :
              \/ i \in DOMAIN s /\ (s \o t)[i] = s[i]
              \/ (s \o t)[i] \in {t[1], t[2]}
<1>0. /\ s \o t \in Seq(S) /\ Len(s \o t) = Len(s) + Len(t)
      /\ \A i \in 1 .. Len(s) + Len(t) :
           (s \o t)[i] = IF i <= Len(s) THEN s[i] ELSE t[i - Len(s)]
  BY ConcatProperties
<1>1. /\ s \o t \in Seq(S) /\ Len(s \o t) = Len(s) + 2
      /\ \A i \in 1 .. Len(s) + 2 :
           (s \o t)[i] = IF i <= Len(s) THEN s[i] ELSE t[i - Len(s)]
  BY <1>0, Zenon
<1>2. DOMAIN (s \o t) = 1 .. Len(s) + 2
  BY <1>1, LenProperties
<1>3. Len(s) \in Nat /\ DOMAIN s = 1 .. Len(s)
  BY LenProperties
<1>4. ASSUME NEW i \in 1 .. Len(s) + 2
      PROVE  \/ i \in DOMAIN s /\ (s \o t)[i] = s[i]
             \/ (s \o t)[i] \in {t[1], t[2]}
  <2>1. CASE i <= Len(s)
    BY <1>1, <1>3, <2>1
  <2>2. CASE i = Len(s) + 1
    <3>1. i - Len(s) = 1 /\ ~(i <= Len(s))
      BY <1>3, <2>2
    <3> QED BY <1>1, <3>1
  <2>3. CASE i = Len(s) + 2
    <3>1. i - Len(s) = 2 /\ ~(i <= Len(s))
      BY <1>3, <2>3
    <3> QED BY <1>1, <3>1
  <2>4. \A n \in Nat : \A j \in 1 .. n + 2 : j <= n \/ j = n + 1 \/ j = n + 2
    OBVIOUS
  <2>5. i <= Len(s) \/ i = Len(s) + 1 \/ i = Len(s) + 2
    BY <1>3, <2>4
  <2> QED BY <2>1, <2>2, <2>3, <2>5
<1> QED BY <1>1, <1>2, <1>4

\* Completions are outcomes, and whatever the parser makes of a buffer that
\* holds a complete response is one and leaves pieces behind.
LEMMA OutcomeTypes ==
  /\ Pending \in Outcome /\ Failed("system") \in Outcome /\ Failed("beast.http") \in Outcome
  /\ \A s \in Status, o \in Op : Completion(s, o) \in Outcome
  /\ \A b \in Seq(Piece) : Complete(b) =>
       \A p \in Parse(b) : p.out \in Outcome /\ p.left \in Seq(Piece)
<1>1. Pending \in Outcome /\ Failed("system") \in Outcome /\ Failed("beast.http") \in Outcome
  BY DEF Pending, Failed, Outcome
<1>2. \A s \in Status, o \in Op : Completion(s, o) \in Outcome
  BY DEF Completion, Outcome, Status
<1>3. ASSUME NEW b \in Seq(Piece), Complete(b), NEW p \in Parse(b)
      PROVE  p.out \in Outcome /\ p.left \in Seq(Piece)
  <2>1. Len(b) \in Nat /\ b # <<>> /\ Len(b) > 0
    BY <1>3 DEF Complete
  <2>2. b[1] \in Piece /\ b[Len(b)] \in Piece
    BY <2>1
  <2>3. Completion(b[1].status, b[Len(b)].of) \in Outcome
    BY <1>2, <2>2 DEF Piece
  <2>4. Tail(b) \in Seq(Piece) /\ <<>> \in Seq(Piece)
    BY <2>1, HeadTailProperties
  <2>5. \/ p = [out |-> Completion(b[1].status, b[Len(b)].of), left |-> <<>>]
        \/ \E l \in {b, Tail(b)} : p = [out |-> Failed("beast.http"), left |-> l]
    BY <1>3 DEF Parse
  <2>6. CASE p = [out |-> Completion(b[1].status, b[Len(b)].of), left |-> <<>>]
    BY <2>3, <2>4, <2>6
  <2>7. ASSUME NEW l \in {b, Tail(b)}, p = [out |-> Failed("beast.http"), left |-> l]
        PROVE  p.out \in Outcome /\ p.left \in Seq(Piece)
    <3>1. l \in Seq(Piece) /\ p.out = Failed("beast.http") /\ p.left = l
      BY <2>4, <2>7
    <3> QED BY <1>1, <3>1
  <2> QED BY <2>5, <2>6, <2>7
<1> QED BY <1>1, <1>2, <1>3

\* Dooming the operation that runs changes nothing else of it.
LEMMA DoomTypes ==
  ASSUME TypeInv, Doom
  PROVE  /\ active' \in Operation
         /\ active'.op = active.op /\ active'.phase = active.phase
         /\ active'.writing = active.writing
         /\ active' = Idle <=> active = Idle
         /\ active # Idle => active'.doomed
<1>1. active \in Operation
  BY DEF TypeInv, TypeOK, Operation
<1>2. PICK d \in BOOLEAN : d = (active # Idle)
  OBVIOUS
<1>3. active' = [active EXCEPT !.doomed = d]
  BY <1>2 DEF Doom
<1>4. /\ active' \in Operation
      /\ active'.op = active.op /\ active'.phase = active.phase
      /\ active'.writing = active.writing /\ active'.doomed = d
  BY <1>1, <1>3 DEF Operation
<1>5. CASE active = Idle
  <2>1. d = FALSE /\ active.doomed = FALSE
    BY <1>2, <1>5 DEF Idle
  <2>2. active' = active
    BY <1>1, <1>3, <2>1 DEF Operation
  <2> QED BY <1>4, <1>5, <2>2
<1>6. CASE active # Idle
  <2>1. active.phase # "idle"
    BY <1>6 DEF TypeInv, ActiveInv
  <2>2. active' # Idle
    BY <1>4, <2>1 DEF Idle
  <2> QED BY <1>2, <1>4, <1>6, <2>2
<1> QED BY <1>5, <1>6

\* An operation that is not idle is one of the user's.
LEMMA ActiveTypes ==
  ASSUME TypeInv, active # Idle \/ active.phase \in {"write", "read"}
  PROVE  /\ active # Idle
         /\ active.op \in Op /\ active.writing \in Request /\ active.writing.op \in Op
         /\ request.op \in Op
BY DEF TypeInv, TypeOK, ActiveInv, Idle, NoRequest

\* Completing an operation with an outcome keeps the types.
LEMMA FinishTypes ==
  ASSUME TypeInv, active.phase \in {"write", "read"} \/ active # Idle,
         NEW out \in Outcome, Finish(out)
  PROVE  /\ outcome' \in [Op -> Outcome]
         /\ active' \in Operation
         /\ active' = Idle
<1>1. Idle \in Operation
  BY DEF Idle, NoRequest, Operation, Request
<1> QED BY <1>1, ActiveTypes DEF Finish, TypeInv, TypeOK

\* The error branch keeps the types.
LEMMA FailTypes ==
  ASSUME TypeInv, active # Idle, Fail, link' \in {link, "closed"}
  PROVE  TypeInv'
<1>1. Finish(Failed("system"))
  BY DEF Fail
<1>2. outcome' \in [Op -> Outcome] /\ active' \in Operation /\ active' = Idle
  BY <1>1, FinishTypes, OutcomeTypes
<1> QED BY <1>2 DEF Fail, TypeInv, TypeOK, ActiveInv, SubmittedInv, LinkInv, Operation

\* What the resolver works on.
LEMMA ResolveTypes ==
  ASSUME TypeInv
  PROVE  /\ resolves \in Seq(Resolve)
         /\ Len(resolves) \in Nat /\ DOMAIN resolves = 1 .. Len(resolves)
         /\ \A i \in DOMAIN resolves :
              resolves[i] \in Resolve /\ resolves[i].state \in {"asked", "running", "found", "failed"}
<1>1. resolves \in Seq(Resolve)
  BY DEF TypeInv, TypeOK, Resolve
<1>2. Len(resolves) \in Nat /\ DOMAIN resolves = 1 .. Len(resolves)
  BY <1>1, LenProperties
<1>3. \A i \in DOMAIN resolves : resolves[i] \in Resolve
  BY <1>1, <1>2, ElementOfSeq
<1> QED BY <1>1, <1>2, <1>3 DEF Resolve

\* stop fails what the resolver was asked and leaves the rest.
LEMMA StopEffect ==
  ASSUME TypeInv, Stop
  PROVE  /\ resolves' \in Seq(Resolve) /\ DOMAIN resolves' = DOMAIN resolves
         /\ \A i \in DOMAIN resolves :
              resolves'[i].state = IF resolves[i].state = "asked" THEN "failed"
                                   ELSE resolves[i].state
<1>2. Len(resolves) \in Nat /\ DOMAIN resolves = 1 .. Len(resolves)
  BY ResolveTypes
<1>3. \A i \in DOMAIN resolves : resolves[i] \in Resolve
  BY ResolveTypes
<1>4. resolves' \in [1 .. Len(resolves) -> Resolve]
  BY <1>2, <1>3 DEF Stop, Resolve
<1>5. resolves' \in Seq(Resolve)
  BY <1>2, <1>4, FunctionIsSeq
<1> QED BY <1>2, <1>3, <1>4, <1>5 DEF Stop, Resolve

\* Starting, stopping and resolving keep the types.
LEMMA StartTypes ==
  ASSUME TypeInv,
         (\E e \in Endpoint : Start(e)) \/ Stop \/ ResolverBegins \/ ResolverAnswers
  PROVE  TypeInv'
<1> USE DEF TypeInv, TypeOK, ActiveInv, SubmittedInv, LinkInv, Operation
<1>1. ASSUME NEW e \in Endpoint, Start(e)
      PROVE  TypeInv'
  <2>1. resolves' \in Seq(Resolve)
    BY <1>1, AppendProperties DEF Start, Resolve
  <2>2. starts' \in 0 .. MaxStarts
    BY <1>1, MaxStartsAssumption DEF Start
  <2> QED BY <1>1, <2>1, <2>2, ZenonT(60) DEF Start, Resolve
<1>2. CASE Stop
  <2>1. resolves' \in Seq(Resolve)
    BY <1>2, StopEffect DEF Stop
  <2>2. begun' \in BOOLEAN
    BY <1>2, ZenonT(30) DEF Stop, LookupBegun
  <2> QED BY <1>2, <2>1, <2>2, DoomTypes DEF Stop, Resolve
<1>3. CASE ResolverBegins \/ ResolverAnswers
  <2>1. resolves \in Seq(Resolve) /\ UNCHANGED <<hostValue, starts, stopped, begun>>
        /\ UNCHANGED <<linkVars, callVars, netVars>>
    BY <1>3, ResolveTypes DEF ResolverBegins, ResolverAnswers
  <2>2. PICK i \in DOMAIN resolves, state \in {"running", "found", "failed"} :
          resolves' = [resolves EXCEPT ![i].state = state]
    BY <1>3 DEF ResolverBegins, ResolverAnswers
  <2>3. i \in 1 .. Len(resolves) /\ [resolves[i] EXCEPT !.state = state] \in Resolve
    BY ResolveTypes DEF Resolve
  <2>4. resolves' \in Seq(Resolve)
    <3> DEFINE r == [resolves[i] EXCEPT !.state = state]
    <3>1. resolves' = [resolves EXCEPT ![i] = r]
      BY <2>2
    <3>2. r \in Resolve
      BY <2>3
    <3> HIDE DEF r
    <3> QED BY <2>1, <2>3, <3>1, <3>2, ExceptSeq
  <2> QED BY <2>1, <2>4 DEF Resolve
<1> QED BY <1>1, <1>2, <1>3

\* The handlers of the connection keep the types.
LEMMA ConnectTypes ==
  ASSUME TypeInv, OnResolve \/ OnConnect \/ ServerCloses
  PROVE  TypeInv'
<1> USE DEF TypeInv, TypeOK, ActiveInv, SubmittedInv, LinkInv, Operation
<1>1. CASE OnResolve
  <2>1. Head(resolves) \in Resolve /\ resolves' \in Seq(Resolve)
    BY <1>1, HeadTailProperties DEF OnResolve, Resolve
  <2>2. CASE Head(resolves).state = "failed"
    BY <1>1, <2>1, <2>2 DEF OnResolve, Resolve
  <2>3. CASE Head(resolves).state # "failed"
    BY <1>1, <2>1, <2>3, DoomTypes DEF OnResolve, Resolve
  <2> QED BY <2>2, <2>3
<1>2. CASE OnConnect
  <2>1. CASE link' = "closed"
    BY <1>2, <2>1, DoomTypes DEF OnConnect
  <2>2. CASE link' # "closed"
    BY <1>2, <2>2 DEF OnConnect
  <2> QED BY <2>1, <2>2
<1>3. CASE ServerCloses
  BY <1>3 DEF ServerCloses
<1> QED BY <1>1, <1>2, <1>3

\* The user's calls keep the types.
LEMMA CallTypes ==
  ASSUME TypeInv, NEW o \in Op, Submit(o) \/ Send(o)
  PROVE  TypeInv'
<1> USE DEF TypeInv, TypeOK, ActiveInv, SubmittedInv, LinkInv, Request
<1>1. CASE Submit(o)
  BY <1>1 DEF Submit
<1>2. CASE Send(o)
  BY <1>2 DEF Send
<1> QED BY <1>1, <1>2

\* The composed operation's own steps keep the types.
LEMMA CallStepTypes ==
  ASSUME TypeInv, CallStep
  PROVE  TypeInv'
<1> USE DEF TypeInv, TypeOK, ActiveInv, SubmittedInv, LinkInv
<1>1. CASE Receive
  <2>1. active.op \in Op /\ active.writing \in Request /\ active.writing.op \in Op
        /\ request.op \in Op /\ request \in Request
    BY <1>1, ActiveTypes DEF Receive
  <2>2. server \in Endpoint
    BY <1>1 DEF Receive
  <2>3. PICK r \in {active.writing, request} :
          /\ received' = Append(received, [request |-> r, at |-> server])
          /\ unanswered' = Append(unanswered, r.op)
    BY <1>1 DEF Receive
  <2>4. received' \in Seq([request : Request, at : Endpoint]) /\ unanswered' \in Seq(Op)
    BY <2>1, <2>2, <2>3
  <2> QED BY <1>1, <2>1, <2>4 DEF Receive
<1>2. CASE ReadPiece
  <2> DEFINE b == Append(buffer, Head(inbound))
  <2>1. b \in Seq(Piece) /\ inbound' \in Seq(Piece)
    BY <1>2, HeadTailProperties, AppendProperties DEF ReadPiece
  <2>2. CASE Complete(b)
    <3>1. PICK p \in Parse(b) : Finish(p.out) /\ buffer' = p.left
      BY <1>2, <2>2 DEF ReadPiece
    <3>2. p.out \in Outcome /\ p.left \in Seq(Piece)
      BY <2>1, <2>2, OutcomeTypes
    <3>3. outcome' \in [Op -> Outcome] /\ active' \in Operation /\ active' = Idle
      BY <1>2, <3>1, <3>2, FinishTypes DEF ReadPiece
    <3> QED BY <1>2, <2>1, <3>1, <3>2, <3>3 DEF ReadPiece, Operation
  <2>3. CASE ~Complete(b)
    BY <1>2, <2>1, <2>3 DEF ReadPiece
  <2> QED BY <2>2, <2>3
<1>3. CASE ReadBuffered
  <2>1. PICK p \in Parse(buffer) : Finish(p.out) /\ buffer' = p.left
    BY <1>3 DEF ReadBuffered
  <2>2. p.out \in Outcome /\ p.left \in Seq(Piece)
    BY <1>3, OutcomeTypes DEF ReadBuffered
  <2>3. outcome' \in [Op -> Outcome] /\ active' \in Operation /\ active' = Idle
    BY <1>3, <2>1, <2>2, FinishTypes DEF ReadBuffered
  <2> QED BY <1>3, <2>1, <2>2, <2>3 DEF ReadBuffered, Operation
<1>4. CASE Timeout
  BY <1>4, FailTypes DEF Timeout
<1>5. CASE IoError
  BY <1>5, FailTypes DEF IoError
<1> QED BY <1>1, <1>2, <1>3, <1>4, <1>5 DEF CallStep

\* The two pieces of an answer.
Answer(o, s) == [i \in 1 .. 2 |-> [of |-> o, status |-> s,
                                   part |-> IF i = 1 THEN "head" ELSE "rest"]]

\* They are pieces, and two.
LEMMA AnswerTypes ==
  ASSUME NEW o \in Op, NEW s \in Status
  PROVE  /\ Answer(o, s) \in Seq(Piece)
         /\ Len(Answer(o, s)) = 2
         /\ Answer(o, s)[1] = [of |-> o, status |-> s, part |-> "head"]
         /\ Answer(o, s)[2] = [of |-> o, status |-> s, part |-> "rest"]
<1>1. 2 \in Nat /\ \A i \in 1 .. 2 : [of |-> o, status |-> s,
                    part |-> IF i = 1 THEN "head" ELSE "rest"] \in Piece
  BY DEF Piece
<1>2. Answer(o, s) \in [1 .. 2 -> Piece]
  BY <1>1 DEF Answer
<1>3. Answer(o, s) \in Seq(Piece) /\ Len(Answer(o, s)) = 2
  BY <1>1, <1>2, FunctionIsSeq
<1> QED BY <1>2, <1>3 DEF Answer

\* The server's answer appends these two pieces.
LEMMA ServerAnswersEffect ==
  ASSUME TypeInv, ServerAnswers
  PROVE  /\ Head(unanswered) \in Op /\ unanswered' = Tail(unanswered)
         /\ unanswered' \in Seq(Op)
         /\ \E s \in Status : inbound' = inbound \o Answer(Head(unanswered), s)
         /\ inbound' \in Seq(Piece)
<1>1. /\ Head(unanswered) \in Op /\ unanswered' = Tail(unanswered)
      /\ unanswered' \in Seq(Op)
  BY HeadTailProperties DEF ServerAnswers, TypeInv, TypeOK
<1>2. PICK s \in Status : inbound' = inbound \o Answer(Head(unanswered), s)
  BY DEF ServerAnswers, Answer
<1>3. inbound' \in Seq(Piece)
  BY <1>1, <1>2, AnswerTypes, ConcatProperties DEF TypeInv, TypeOK
<1> QED BY <1>1, <1>2, <1>3

\* The types are inductive together with what they rest on.
LEMMA TypeStep == TypeInv /\ [Next]_vars => TypeInv'
<1> SUFFICES ASSUME TypeInv, [Next]_vars
             PROVE  TypeInv'
  OBVIOUS
<1>1. CASE UNCHANGED vars
  BY <1>1 DEF TypeInv, TypeOK, ActiveInv, SubmittedInv, LinkInv
<1>2. CASE ServerAnswers
  BY <1>2, ServerAnswersEffect, ZenonT(60)
  DEF ServerAnswers, TypeInv, TypeOK, ActiveInv, SubmittedInv, LinkInv
<1> QED BY <1>1, <1>2, StartTypes, ConnectTypes, CallTypes, CallStepTypes DEF Next

\* The client starts well typed.
LEMMA TypeInit == Init => TypeInv
<1> SUFFICES ASSUME Init
             PROVE  TypeInv
  OBVIOUS
<1>1. /\ NoRequest \in Request
      /\ Idle \in Operation
  BY DEF NoRequest, Idle, Request, Operation
<1>2. outcome \in [Op -> Outcome]
  BY OutcomeTypes DEF Init
<1>3. \A S : <<>> \in Seq(S)
  BY EmptySeq
<1>4. starts \in 0 .. MaxStarts
  BY MaxStartsAssumption DEF Init
<1> QED BY <1>1, <1>2, <1>3, <1>4
        DEF Init, TypeInv, TypeOK, ActiveInv, SubmittedInv, LinkInv, Operation

\* Everything keeps its type; for one, a request is never sent without the
\* client being connected to somebody, and never empty.
THEOREM ClientTypeOK == Spec => []TypeOK
<1>1. Spec => []TypeInv
  BY TypeInit, TypeStep, PTL DEF Spec
<1>2. TypeInv => TypeOK
  BY DEF TypeInv
<1> QED BY <1>1, <1>2, PTL

-----------------------------------------------------------------------------
(* stop. *)

\* A stop that found no lookup begun keeps the socket closed.
LEMMA StopStep == TypeInv /\ StopInv /\ [Next]_vars => StopInv'
<1> SUFFICES ASSUME TypeInv, StopInv, [Next]_vars
             PROVE  StopInv'
  OBVIOUS
<1>0. resolves \in Seq(Resolve) /\ stopped \in BOOLEAN /\ begun \in BOOLEAN
  BY DEF TypeInv, TypeOK, Resolve
<1>1. CASE \E e \in Endpoint : Start(e)
  BY <1>1 DEF Start, StopInv
<1>2. CASE Stop
  <2> SUFFICES ASSUME ~begun'
               PROVE  \A i \in DOMAIN resolves' : resolves'[i].state = "failed"
    BY <1>2 DEF Stop, StopInv
  <2>1. \A i \in DOMAIN resolves : resolves[i].state \notin {"running", "found"}
    BY <1>2 DEF Stop, LookupBegun
  <2>2. \A i \in DOMAIN resolves : resolves[i].state \in {"asked", "running", "found", "failed"}
    BY ResolveTypes
  <2> QED BY <1>2, <2>1, <2>2, StopEffect
<1>3. CASE ResolverBegins \/ ResolverAnswers
  <2>1. UNCHANGED <<stopped, begun, link>>
        /\ \E i \in DOMAIN resolves : resolves[i].state \in {"asked", "running"}
    BY <1>3 DEF ResolverBegins, ResolverAnswers
  <2> QED BY <2>1 DEF StopInv
<1>4. CASE OnResolve
  <2> SUFFICES ASSUME stopped, ~begun
               PROVE  link' = "closed" /\ \A i \in DOMAIN resolves' : resolves'[i].state = "failed"
    BY <1>4 DEF OnResolve, StopInv
  <2>1. Head(resolves).state = "failed" /\ link' = link
    BY <1>0, <1>4 DEF OnResolve, StopInv
  <2>2. \A i \in DOMAIN Tail(resolves) : i + 1 \in DOMAIN resolves
                                         /\ Tail(resolves)[i] = resolves[i + 1]
    BY <1>0, <1>4 DEF OnResolve
  <2> QED BY <1>4, <2>1, <2>2 DEF OnResolve, StopInv
<1>5. CASE OnConnect
  BY <1>5 DEF OnConnect, StopInv
<1>6. CASE \E o \in Op : Submit(o) \/ Send(o)
  <2>1. UNCHANGED <<startVars, linkVars>>
    BY <1>6 DEF Submit, Send
  <2> QED BY <2>1 DEF StopInv
<1>7. CASE CallStep
  BY <1>7 DEF CallStep, Receive, ReadPiece, ReadBuffered, Timeout, IoError, Fail, StopInv
<1>8. CASE ServerAnswers \/ ServerCloses
  BY <1>8 DEF ServerAnswers, ServerCloses, StopInv
<1>9. CASE UNCHANGED vars
  BY <1>9 DEF StopInv
<1> QED BY <1>1, <1>2, <1>3, <1>4, <1>5, <1>6, <1>7, <1>8, <1>9 DEF Next

\* For any use of the client: stop keeps the socket closed until the next
\* start, unless a lookup ran when stop was called or had already succeeded.
THEOREM StopCancels == Spec => []StopCancelsStart
<1>1. Init => StopInv
  BY DEF Init, StopInv
<1>2. Spec => [](TypeInv /\ StopInv)
  BY <1>1, TypeInit, TypeStep, StopStep, PTL DEF Spec
<1>3. StopInv => StopCancelsStart
  BY DEF StopInv, StopCancelsStart
<1> QED BY <1>2, <1>3, PTL

-----------------------------------------------------------------------------
(* One call at a time. *)

\* What leaves the calls alone: the connection, the resolver and the server.
Elsewhere ==
  \/ \E e \in Endpoint : Start(e)
  \/ Stop
  \/ ResolverBegins
  \/ ResolverAnswers
  \/ OnResolve
  \/ OnConnect
  \/ ServerAnswers
  \/ ServerCloses
  \/ UNCHANGED vars

\* It may doom the operation that runs, and changes nothing else of the calls.
LEMMA ElsewhereFrame ==
  ASSUME TypeInv, Elsewhere
  PROVE  /\ UNCHANGED <<request, submitted, buffer, outcome, cutShort, received>>
         /\ active'.op = active.op /\ active'.phase = active.phase
         /\ active'.writing = active.writing
         /\ active' = Idle <=> active = Idle
<1>1. UNCHANGED <<request, submitted, buffer, outcome, cutShort, received>>
  BY DEF Elsewhere, Start, Stop, ResolverBegins, ResolverAnswers, OnResolve, OnConnect,
       ServerAnswers, ServerCloses
<1>2. Doom \/ active' = active
  BY DEF Elsewhere, Start, Stop, ResolverBegins, ResolverAnswers, OnResolve, OnConnect,
       ServerAnswers, ServerCloses
<1> QED BY <1>1, <1>2, DoomTypes

\* The steps of a call, and everything else.
LEMMA NextSplit ==
  ASSUME [Next]_vars
  PROVE  Elsewhere \/ (\E o \in Op : Submit(o) \/ Send(o)) \/ CallStep
BY DEF Next, Elsewhere

\* A call completes with something, and the parser makes up neither answers nor
\* pieces.
LEMMA ParseResult ==
  ASSUME NEW b \in Seq(Piece), Complete(b), NEW p \in Parse(b)
  PROVE  /\ p.out # Pending
         /\ p.out.of \in {NoOp, b[Len(b)].of}
         /\ \A i \in DOMAIN p.left : \E j \in DOMAIN b : p.left[i] = b[j]
         /\ Len(b) = 2 => p.out.of = b[2].of /\ p.left = <<>>
<1>1. Len(b) \in Nat /\ Len(b) > 0 /\ DOMAIN b = 1 .. Len(b)
  BY LenProperties DEF Complete
<1>2. CASE p = [out |-> Completion(b[1].status, b[Len(b)].of), left |-> <<>>]
  <2> DEFINE out == Completion(b[1].status, b[Len(b)].of)
  <2>1. out.of = b[Len(b)].of /\ out.result # "pending"
    <3>1. CASE b[1].status \in 200 .. 299
      BY <3>1 DEF Completion
    <3>2. CASE b[1].status \notin 200 .. 299
      BY <3>2 DEF Completion
    <3> QED BY <3>1, <3>2
  <2>3. p.out = out /\ p.left = <<>>
    BY <1>2
  <2> HIDE DEF out
  <2>2. out # Pending
    <3>1. Pending.result = "pending"
      BY DEF Pending
    <3> QED BY <2>1, <3>1
  <2> QED BY <2>1, <2>2, <2>3
<1>3. ASSUME NEW l \in {b, Tail(b)}, p = [out |-> Failed("beast.http"), left |-> l], Len(b) # 2
      PROVE  /\ p.out # Pending
             /\ p.out.of \in {NoOp, b[Len(b)].of}
             /\ \A i \in DOMAIN p.left : \E j \in DOMAIN b : p.left[i] = b[j]
  <2>1. p.out # Pending /\ p.out.of = NoOp
    BY <1>3 DEF Failed, Pending
  <2>2. b # <<>>
    BY DEF Complete
  <2>3. \A i \in DOMAIN Tail(b) : i + 1 \in DOMAIN b /\ Tail(b)[i] = b[i + 1]
    BY <1>1, <2>2
  <2> QED BY <1>3, <2>1, <2>3
<1> QED BY <1>2, <1>3 DEF Parse

\* An operation ends with a call that is completed, whatever it ends with.
LEMMA Ends ==
  ASSUME TypeInv, ReadPiece \/ ReadBuffered \/ Timeout \/ IoError
  PROVE  /\ UNCHANGED <<request, submitted, received, unanswered>>
         /\ active # Idle
         /\ \/ active' = active /\ outcome' = outcome
            \/ \E out \in Outcome : out # Pending /\ Finish(out)
<1>1. CASE ReadPiece
  <2> DEFINE b == Append(buffer, Head(inbound))
  <2>1. b \in Seq(Piece)
    BY <1>1, HeadTailProperties, AppendProperties DEF ReadPiece, TypeInv, TypeOK
  <2>2. CASE Complete(b)
    <3>1. PICK p \in Parse(b) : Finish(p.out)
      BY <1>1, <2>2 DEF ReadPiece
    <3>2. p.out \in Outcome /\ p.out # Pending
      BY <2>1, <2>2, ParseResult, OutcomeTypes
    <3> QED BY <1>1, <3>1, <3>2, ActiveTypes DEF ReadPiece
  <2>3. CASE ~Complete(b)
    BY <1>1, <2>3, ActiveTypes DEF ReadPiece
  <2> QED BY <2>2, <2>3
<1>2. CASE ReadBuffered
  <2>1. PICK p \in Parse(buffer) : Finish(p.out)
    BY <1>2 DEF ReadBuffered
  <2>2. p.out \in Outcome /\ p.out # Pending
    BY <1>2, ParseResult, OutcomeTypes DEF ReadBuffered, TypeInv, TypeOK
  <2> QED BY <1>2, <2>1, <2>2, ActiveTypes DEF ReadBuffered
<1>3. CASE Timeout \/ IoError
  <2>1. Failed("system") \in Outcome /\ Failed("system") # Pending
    BY OutcomeTypes DEF Failed, Pending
  <2> QED BY <1>3, <2>1 DEF Timeout, IoError, Fail
<1> QED BY <1>1, <1>2, <1>3

\* With one call at a time, a call is submitted when no other is under way.
LEMMA SubmitAlone ==
  ASSUME MaxSubmitted = 1, TypeInv, OneCall, NEW o \in Op, Submit(o)
  PROVE  submitted = {} /\ active = Idle
<1> DEFINE underWay == submitted \cup ({active.op} \cap Op)
<1>1. Cardinality(underWay) < 1
  BY DEF Submit
<1>2. ASSUME NEW p \in Op, underWay = {p}
      PROVE  FALSE
  <2>1. Cardinality({p}) = 1
    BY FS_Singleton
  <2>2. Cardinality(underWay) = Cardinality({p})
    BY <1>2
  <2> QED BY <1>1, <2>1, <2>2
<1>3. ASSUME NEW p \in submitted
      PROVE  FALSE
  <2>1. submitted = {p} /\ active = Idle /\ p \in Op
    BY <1>3 DEF OneCall, TypeInv, TypeOK
  <2>2. underWay = {p}
    BY <2>1, NoOpAssumption DEF Idle
  <2> QED BY <1>2, <2>1, <2>2
<1>4. CASE active # Idle
  <2>1. submitted = {} /\ active.op \in Op
    BY <1>4, ActiveTypes DEF OneCall
  <2>2. underWay = {active.op}
    BY <2>1
  <2> QED BY <1>2, <2>1, <2>2
<1> QED BY <1>3, <1>4

\* One call at a time stays so, and _request stays with it.
LEMMA OneCallStep ==
  ASSUME MaxSubmitted = 1, TypeInv, OneCall, [Next]_vars
  PROVE  OneCall'
<1>1. CASE Elsewhere
  BY <1>1, ElsewhereFrame DEF OneCall
<1>2. ASSUME NEW o \in Op, Submit(o)
      PROVE  OneCall'
  BY <1>2, SubmitAlone DEF Submit, OneCall
<1>3. ASSUME NEW o \in Op, Send(o)
      PROVE  OneCall'
  BY <1>3 DEF Send, OneCall
<1>4. CASE Receive
  <2>1. active # Idle /\ active' # Idle /\ active'.op = active.op /\ active'.writing = active.writing
    BY <1>4, ActiveTypes DEF Receive, Idle, TypeInv, TypeOK
  <2> QED BY <1>4, <2>1 DEF Receive, OneCall
<1>5. CASE ReadPiece \/ ReadBuffered \/ Timeout \/ IoError
  <2>1. submitted' = {} /\ request' = request
    BY <1>5, Ends DEF OneCall
  <2>2. CASE active' = active /\ outcome' = outcome
    BY <2>1, <2>2, <1>5, Ends DEF OneCall
  <2>3. ASSUME NEW out, Finish(out)
        PROVE  OneCall'
    BY <2>1, <2>3 DEF Finish, OneCall
  <2> QED BY <1>5, <2>2, <2>3, Ends
<1> QED BY <1>1, <1>2, <1>3, <1>4, <1>5, NextSplit DEF CallStep

-----------------------------------------------------------------------------
(* A request arrives at most once. *)

\* A call that is over, or that a server has the request of, stays so.
LEMMA ArrivedStays ==
  ASSUME TypeInv, OneCall, [Next]_vars, NEW o \in Op, Arrived(o)
  PROVE  Arrived(o)'
<1>1. CASE Elsewhere
  BY <1>1, ElsewhereFrame DEF Arrived
<1>2. CASE \E p \in Op : Submit(p) \/ Send(p)
  BY <1>2 DEF Submit, Send, Arrived, Idle
<1>3. CASE Receive
  BY <1>3 DEF Receive, Arrived, TypeInv, TypeOK
<1>4. CASE ReadPiece \/ ReadBuffered \/ Timeout \/ IoError
  <2>1. CASE active' = active /\ outcome' = outcome
    BY <2>1 DEF Arrived
  <2>2. ASSUME NEW out \in Outcome, out # Pending, Finish(out)
        PROVE  Arrived(o)'
    BY <2>2 DEF Finish, Arrived, TypeInv, TypeOK
  <2> QED BY <1>4, <2>1, <2>2, Ends
<1> QED BY <1>1, <1>2, <1>3, <1>4, NextSplit DEF CallStep

\* What a Receive adds to what servers have received: the one request there is.
LEMMA ReceiveEffect ==
  ASSUME TypeInv, OneCall, Receive
  PROVE  /\ active.op \in Op
         /\ request.op = active.op
         /\ received' = Append(received, [request |-> request, at |-> server])
         /\ unanswered' = Append(unanswered, active.op)
         /\ active'.op = active.op /\ active'.phase = "read"
         /\ outcome[active.op] = Pending
<1>1. active # Idle /\ active.op \in Op
  BY ActiveTypes DEF Receive
<1>2. active.writing = request /\ request.op = active.op /\ outcome[active.op] = Pending
  BY <1>1 DEF OneCall
<1> QED BY <1>1, <1>2 DEF Receive, TypeInv, TypeOK

\* What servers have received is typed.
LEMMA ReceivedTypes ==
  ASSUME TypeInv
  PROVE  /\ Len(received) \in Nat /\ DOMAIN received = 1 .. Len(received)
         /\ \A i \in DOMAIN received : received[i].request \in Request
<1> DEFINE R == [request : Request, at : Endpoint]
<1>1. received \in Seq(R)
  BY DEF TypeInv, TypeOK
<1>2. Len(received) \in Nat /\ DOMAIN received = 1 .. Len(received)
  BY <1>1, LenProperties
<1>3. \A i \in DOMAIN received : received[i] \in R
  BY <1>1, <1>2, ElementOfSeq
<1> QED BY <1>2, <1>3

\* Servers receive a request only while they have none of its call.
LEMMA ReceivedStep ==
  ASSUME MaxSubmitted = 1, TypeInv, OneCall, ReceivedInv, [Next]_vars
  PROVE  ReceivedInv' /\ ReceivedOps \subseteq ReceivedOps'
<1>0. \A o \in ReceivedOps : o \in Op /\ Arrived(o)'
  BY ArrivedStays DEF ReceivedInv, ReceivedOps
<1>1. CASE received' = received
  BY <1>0, <1>1 DEF ReceivedInv, ReceivedOps
<1>2. CASE Receive
  <2> DEFINE n == Len(received) + 1
  <2>1. /\ Len(received) \in Nat
        /\ DOMAIN received' = 1 .. n /\ DOMAIN received = 1 .. Len(received)
        /\ received'[n].request = request
        /\ \A i \in 1 .. Len(received) : received'[i] = received[i]
    <3> DEFINE r == [request |-> request, at |-> server]
    <3>1. received \in Seq([request : Request, at : Endpoint]) /\ r \in [request : Request, at : Endpoint]
      BY <1>2 DEF Receive, TypeInv, TypeOK, LinkInv
    <3>2. received' = Append(received, r) /\ r.request = request
      BY <1>2, ReceiveEffect
    <3> HIDE DEF r
    <3>3. /\ received' \in Seq([request : Request, at : Endpoint])
          /\ Len(received') = n /\ received'[n] = r
          /\ \A i \in 1 .. Len(received) : received'[i] = received[i]
      BY <3>1, <3>2, AppendProperties
    <3>4. DOMAIN received' = 1 .. n
      BY <3>3, LenProperties
    <3> QED BY <3>2, <3>3, <3>4, ReceivedTypes
  <2>2. \A i \in DOMAIN received : received[i].request.op # active.op
    BY <1>2, ReceiveEffect DEF ReceivedInv, Arrived, Receive
  <2>3. Arrived(active.op)' /\ request.op = active.op /\ active.op \in Op
    BY <1>2, ReceiveEffect DEF Arrived
  <2>4. \A i \in DOMAIN received : received[i].request.op \in ReceivedOps
    BY DEF ReceivedOps
  <2>5. (\A i, j \in DOMAIN received :
           received[i].request.op = received[j].request.op => i = j)'
    BY <2>1, <2>2, <2>3 DEF ReceivedInv
  <2>6. \A o \in ReceivedOps' : o \in ReceivedOps \/ o = request.op
    BY <2>1, <2>4 DEF ReceivedOps
  <2>7. \A o \in ReceivedOps' : o \in Op /\ Arrived(o)'
    <3> SUFFICES ASSUME NEW o \in ReceivedOps'
                 PROVE  o \in Op /\ Arrived(o)'
      OBVIOUS
    <3>1. CASE o \in ReceivedOps
      BY <1>0, <3>1
    <3>2. CASE o = request.op
      BY <1>2, <3>2, ReceiveEffect DEF Arrived
    <3> QED BY <2>6, <3>1, <3>2
  <2>8. ReceivedOps \subseteq ReceivedOps'
    BY <2>1 DEF ReceivedOps
  <2> QED BY <2>5, <2>7, <2>8 DEF ReceivedInv, ReceivedOps
<1>3. CASE ~Receive
  <2>1. received' = received
    BY <1>3, NextSplit, ElsewhereFrame, Ends DEF CallStep, Submit, Send
  <2> QED BY <1>1, <2>1
<1> QED BY <1>2, <1>3

\* What is received stays received: an element of one of the sequences below is
\* either there before the step or an answer to something received.
LEMMA AnswersStep ==
  ASSUME MaxSubmitted = 1, TypeInv, OneCall, ReceivedInv, AnswersInv, [Next]_vars
  PROVE  AnswersInv'
<1>0. ReceivedOps \subseteq ReceivedOps'
  BY ReceivedStep
<1>t. /\ buffer \in Seq(Piece) /\ inbound \in Seq(Piece) /\ unanswered \in Seq(Op)
      /\ outcome \in [Op -> Outcome]
  BY DEF TypeInv, TypeOK
<1>1. CASE UNCHANGED <<buffer, inbound, unanswered, outcome>>
  BY <1>0, <1>1 DEF AnswersInv
<1>2. CASE OnResolve
  BY <1>0, <1>2 DEF OnResolve, AnswersInv
<1>3. CASE Receive
  <2>1. active.op \in ReceivedOps'
    <3> DEFINE r == [request |-> request, at |-> server]
    <3>1. received' = Append(received, r) /\ r.request.op = active.op
      BY <1>3, ReceiveEffect
    <3>2. received \in Seq([request : Request, at : Endpoint]) /\ r \in [request : Request, at : Endpoint]
      BY <1>3 DEF Receive, TypeInv, TypeOK, LinkInv
    <3> HIDE DEF r
    <3>3. Len(received) + 1 \in DOMAIN received' /\ received'[Len(received) + 1] = r
      BY <3>1, <3>2, AppendProperties, LenProperties
    <3> QED BY <3>1, <3>3 DEF ReceivedOps
  <2>2. \A i \in DOMAIN unanswered' : (i \in DOMAIN unanswered /\ unanswered'[i] = unanswered[i])
                                      \/ unanswered'[i] = active.op
    <3>1. unanswered' = Append(unanswered, active.op) /\ active.op \in Op
      BY <1>3, ReceiveEffect
    <3> QED BY <1>t, <3>1, AppendElements
  <2>3. (\A i \in DOMAIN unanswered : unanswered[i] \in ReceivedOps)'
    BY <1>0, <2>1, <2>2 DEF AnswersInv
  <2> QED BY <1>0, <1>3, <2>3 DEF Receive, AnswersInv
<1>4. CASE ServerAnswers
  <2>1. PICK s \in Status : inbound' = inbound \o Answer(Head(unanswered), s)
    BY <1>4, ServerAnswersEffect
  <2>2. Head(unanswered) \in Op /\ Head(unanswered) \in ReceivedOps'
    BY <1>0, <1>4, <1>t, ServerAnswersEffect DEF ServerAnswers, AnswersInv
  <2>3. \A i \in DOMAIN inbound' : (i \in DOMAIN inbound /\ inbound'[i] = inbound[i])
                                   \/ inbound'[i].of = Head(unanswered)
    <3> DEFINE a == Answer(Head(unanswered), s)
    <3>1. /\ a \in Seq(Piece) /\ Len(a) = 2
          /\ a[1].of = Head(unanswered) /\ a[2].of = Head(unanswered)
      <4>1. /\ a \in Seq(Piece) /\ Len(a) = 2
            /\ a[1] = [of |-> Head(unanswered), status |-> s, part |-> "head"]
            /\ a[2] = [of |-> Head(unanswered), status |-> s, part |-> "rest"]
        BY <2>2, AnswerTypes
      <4> HIDE DEF a
      <4> QED BY <4>1
    <3>2. inbound' = inbound \o a
      BY <2>1
    <3> HIDE DEF a
    <3>3. \A i \in DOMAIN (inbound \o a) :
            \/ i \in DOMAIN inbound /\ (inbound \o a)[i] = inbound[i]
            \/ (inbound \o a)[i] \in {a[1], a[2]}
      BY <1>t, <3>1, ConcatElements
    <3> QED BY <3>1, <3>2, <3>3
  <2>4. \A i \in DOMAIN unanswered' : i + 1 \in DOMAIN unanswered /\ unanswered'[i] = unanswered[i + 1]
    BY <1>4, <1>t DEF ServerAnswers
  <2>5. (\A i \in DOMAIN inbound : inbound[i].of \in ReceivedOps)'
    BY <1>0, <2>2, <2>3 DEF AnswersInv
  <2>6. (\A i \in DOMAIN unanswered : unanswered[i] \in ReceivedOps)'
    BY <1>0, <2>4 DEF AnswersInv
  <2> QED BY <1>0, <1>4, <2>5, <2>6 DEF ServerAnswers, AnswersInv
<1>5. ASSUME NEW b \in Seq(Piece), Complete(b), \A i \in DOMAIN b : b[i].of \in ReceivedOps,
             NEW p \in Parse(b), Finish(p.out), buffer' = p.left, active.op \in Op,
             inbound' = inbound \/ (inbound # <<>> /\ inbound' = Tail(inbound)),
             unanswered' = unanswered
      PROVE  AnswersInv'
  <2>1. (\A i \in DOMAIN buffer : buffer[i].of \in ReceivedOps)'
    BY <1>0, <1>5, ParseResult
  <2>2. (\A i \in DOMAIN inbound : inbound[i].of \in ReceivedOps)'
    <3>1. CASE inbound' = inbound
      BY <1>0, <3>1 DEF AnswersInv
    <3>2. CASE inbound # <<>> /\ inbound' = Tail(inbound)
      <4>1. \A i \in DOMAIN Tail(inbound) :
              i + 1 \in DOMAIN inbound /\ Tail(inbound)[i] = inbound[i + 1]
        BY <1>t, <3>2, TailElements
      <4> QED BY <1>0, <3>2, <4>1 DEF AnswersInv
    <3> QED BY <1>5, <3>1, <3>2
  <2>3. Len(b) \in DOMAIN b
    BY <1>5 DEF Complete
  <2>4. ASSUME NEW o \in Op, outcome'[o].of = o
        PROVE  o \in ReceivedOps'
    <3>1. CASE o = active.op
      <4>1. outcome'[o] = p.out
        BY <1>5, <1>t, <3>1 DEF Finish
      <4>2. p.out.of = b[Len(b)].of
        BY <2>4, <4>1, <1>5, ParseResult, NoOpAssumption
      <4> QED BY <1>0, <1>5, <2>3, <2>4, <4>1, <4>2
    <3>2. CASE o # active.op
      BY <1>0, <1>5, <1>t, <2>4, <3>2 DEF Finish, AnswersInv
    <3> QED BY <3>1, <3>2
  <2> QED BY <1>0, <1>5, <2>1, <2>2, <2>4 DEF AnswersInv
<1>6. CASE ReadPiece
  <2> DEFINE b == Append(buffer, Head(inbound))
  <2>1. Head(inbound) \in Piece /\ Head(inbound).of \in ReceivedOps
    BY <1>6, <1>t DEF ReadPiece, AnswersInv
  <2>2. b \in Seq(Piece) /\ \A i \in DOMAIN b : b[i].of \in ReceivedOps
    BY <1>t, <2>1 DEF AnswersInv
  <2>3. active.op \in Op
    BY <1>6, ActiveTypes DEF ReadPiece
  <2>4. CASE Complete(b)
    <3>1. PICK p \in Parse(b) : Finish(p.out) /\ buffer' = p.left
      BY <1>6, <2>4 DEF ReadPiece
    <3> HIDE DEF b
    <3> QED BY <1>5, <1>6, <2>2, <2>3, <2>4, <3>1 DEF ReadPiece
  <2>5. CASE ~Complete(b)
    <3>1. buffer' = b /\ outcome' = outcome /\ inbound' = Tail(inbound) /\ unanswered' = unanswered
      BY <1>6, <2>5 DEF ReadPiece
    <3>2. \A i \in DOMAIN Tail(inbound) : i + 1 \in DOMAIN inbound /\ Tail(inbound)[i] = inbound[i + 1]
      BY <1>6, <1>t DEF ReadPiece
    <3> HIDE DEF b
    <3> QED BY <1>0, <2>2, <3>1, <3>2 DEF AnswersInv
  <2> QED BY <2>4, <2>5
<1>7. CASE ReadBuffered
  <2>1. PICK p \in Parse(buffer) : Finish(p.out) /\ buffer' = p.left
    BY <1>7 DEF ReadBuffered
  <2>2. active.op \in Op
    BY <1>7, ActiveTypes DEF ReadBuffered
  <2> QED BY <1>5, <1>7, <1>t, <2>1, <2>2 DEF ReadBuffered, AnswersInv
<1>8. CASE Timeout \/ IoError
  <2>1. Failed("system").of \notin Op
    BY NoOpAssumption DEF Failed
  <2>2. active.op \in Op
    BY <1>8, ActiveTypes DEF Timeout, IoError
  <2>3. UNCHANGED <<buffer, inbound, unanswered>> /\ Finish(Failed("system"))
    BY <1>8 DEF Timeout, IoError, Fail
  <2>4. \A o \in Op : outcome'[o].of = o => outcome[o].of = o
    BY <1>t, <2>1, <2>2, <2>3 DEF Finish
  <2> QED BY <1>0, <2>3, <2>4 DEF AnswersInv
<1>9. CASE \E o \in Op : Submit(o) \/ Send(o)
  <2>1. UNCHANGED <<buffer, inbound, unanswered, outcome>>
    BY <1>9 DEF Submit, Send
  <2> QED BY <1>1, <2>1
<1>10. CASE Elsewhere /\ ~OnResolve /\ ~ServerAnswers
  <2>1. UNCHANGED <<buffer, inbound, unanswered, outcome>>
    BY <1>10 DEF Elsewhere, Start, Stop, ResolverBegins, ResolverAnswers, OnConnect, ServerCloses
  <2> QED BY <1>1, <2>1
<1> QED BY <1>2, <1>3, <1>4, <1>6, <1>7, <1>8, <1>9, <1>10, NextSplit DEF CallStep

\* The client starts without a call.
LEMMA OnceInit == Init => OnceInv
<1> SUFFICES ASSUME Init
             PROVE  OnceInv
  OBVIOUS
<1>1. \A o \in Op : outcome[o].of = NoOp
  BY DEF Init, Pending
<1>2. AnswersInv
  BY <1>1, NoOpAssumption DEF Init, AnswersInv
<1> QED BY <1>2, TypeInit DEF Init, OnceInv, OneCall, ReceivedInv

\* The invariant is kept, one call at a time.
LEMMA OnceStep ==
  ASSUME MaxSubmitted = 1
  PROVE  OnceInv /\ [Next]_vars => OnceInv'
BY TypeStep, OneCallStep, ReceivedStep, AnswersStep DEF OnceInv

\* With one call at a time, a request reaches a server at most once, however
\* its call ends, and a call that completes with an answer reached one.
THEOREM RequestsArriveOnce ==
  ASSUME MaxSubmitted = 1
  PROVE  Spec => []AtMostOnce
<1>1. Spec => []OnceInv
  BY OnceInit, OnceStep, PTL DEF Spec
<1>2. OnceInv => AtMostOnce
  BY DEF OnceInv, ReceivedInv, AnswersInv, ReceivedOps, AtMostOnce
<1> QED BY <1>1, <1>2, PTL

-----------------------------------------------------------------------------
(* Whose answer it is. *)

\* A response travels as a head and a rest, so that a buffer with less than a
\* head and a rest is not complete.
LEMMA CompleteShort ==
  /\ ~Complete(<<>>)
  /\ \A b \in Seq(Piece) : Len(b) = 1 /\ b[1].part = "head" => ~Complete(b)
BY DEF Complete

\* What dooms the running operation ends the reading.
LEMMA DoomEndsReading ==
  ASSUME TypeInv, Doom
  PROVE  ~Reading'
<1>1. CASE active = Idle
  BY <1>1, DoomTypes DEF Reading, Idle
<1>2. CASE active # Idle
  BY <1>2, DoomTypes DEF Reading
<1> QED BY <1>1, <1>2

\* Nothing but a read that ends, an error and a submission touches what the
\* calls have been answered.
LEMMA CleanElsewhere ==
  ASSUME TypeInv, CleanInv, Elsewhere
  PROVE  CleanInv'
<1>0. /\ UNCHANGED <<buffer, outcome>>
      /\ active'.phase = active.phase /\ active'.op = active.op
  BY ElsewhereFrame
<1>a. /\ \A o \in Op : outcome'[o].of \in Op => outcome'[o].of = o
      /\ ~Complete(buffer')
      /\ active'.phase # "read" => buffer' = <<>>
  BY <1>0 DEF CleanInv
<1>1. CASE active' = active /\ UNCHANGED <<link, inbound, unanswered>>
  BY <1>0, <1>1 DEF CleanInv, Quiet, Reading, Asked, Sent, HalfRead
<1>2. CASE Stop
  BY <1>2, <1>a DEF Stop, CleanInv
<1>3. CASE OnResolve
  <2>1. CASE Head(resolves).state = "failed"
    BY <1>1, <1>3, <2>1 DEF OnResolve
  <2>2. CASE Head(resolves).state # "failed"
    <3>1. ~Reading' /\ Quiet' /\ link' = "connecting"
      BY <1>3, <2>2, DoomEndsReading DEF OnResolve, Quiet
    <3> QED BY <1>a, <3>1 DEF CleanInv
  <2> QED BY <2>1, <2>2
<1>4. CASE OnConnect
  <2>1. CASE link' = "closed"
    BY <1>a, <2>1 DEF CleanInv
  <2>2. CASE link' = "connected"
    <3>1. Quiet' /\ ~Reading'
      BY <1>4, <2>2 DEF OnConnect, CleanInv, Quiet, Reading
    <3> QED BY <1>a, <2>2, <3>1 DEF CleanInv
  <2> QED BY <1>4, <2>1, <2>2 DEF OnConnect
<1>5. CASE ServerAnswers
  <2>1. link = "connected" /\ link' = link /\ unanswered # <<>> /\ active' = active
    BY <1>5 DEF ServerAnswers
  <2>2. Reading /\ Reading' /\ Asked(active.op)
    <3>1. Reading
      BY <2>1 DEF CleanInv, Quiet
    <3>2. ~Sent(active.op) /\ ~HalfRead(active.op)
      BY <2>1 DEF Sent, HalfRead
    <3> QED BY <2>1, <3>1, <3>2 DEF CleanInv, Reading
  <2>3. active.op \in Op
    BY <2>2, ActiveTypes DEF Reading
  <2>4. Head(unanswered) = active.op /\ Tail(unanswered) = <<>> /\ inbound = <<>> /\ buffer = <<>>
    BY <2>2, <2>3 DEF Asked
  <2>5. PICK s \in Status : inbound' = inbound \o Answer(active.op, s)
    BY <1>5, <2>4, ServerAnswersEffect
  <2>6. inbound' = Answer(active.op, s)
    BY <2>3, <2>4, <2>5, AnswerTypes, ConcatEmptySeq
  <2>7. /\ Len(inbound') = 2 /\ inbound'[1].part = "head" /\ inbound'[2].part = "rest"
        /\ inbound'[2].of = active.op
    <3>1. /\ Len(inbound') = 2
          /\ inbound'[1] = [of |-> active.op, status |-> s, part |-> "head"]
          /\ inbound'[2] = [of |-> active.op, status |-> s, part |-> "rest"]
      BY <2>3, <2>6, AnswerTypes
    <3> QED BY <3>1
  <2>8. unanswered' = <<>> /\ buffer' = <<>>
    BY <1>0, <1>5, <2>4 DEF ServerAnswers
  <2>9. Sent(active.op)'
    BY <2>1, <2>7, <2>8 DEF Sent
  <2> QED BY <1>a, <2>1, <2>2, <2>9 DEF CleanInv
<1>6. CASE ServerCloses
  <2>1. link = "connected" /\ link' = "broken" /\ UNCHANGED <<active, inbound, unanswered, buffer>>
    BY <1>6 DEF ServerCloses
  <2> QED BY <1>a, <2>1 DEF CleanInv, Reading, Asked, Sent, HalfRead
<1>7. CASE \/ \E e \in Endpoint : Start(e)
           \/ ResolverBegins \/ ResolverAnswers \/ UNCHANGED vars
  <2>1. active' = active /\ UNCHANGED <<link, inbound, unanswered>>
    BY <1>7 DEF Start, ResolverBegins, ResolverAnswers
  <2> QED BY <1>1, <2>1
<1> QED BY <1>2, <1>3, <1>4, <1>5, <1>6, <1>7 DEF Elsewhere

\* A read gets the running call's own answer, and leaves nothing of it.
LEMMA CleanReadPiece ==
  ASSUME TypeInv, CleanInv, ReadPiece
  PROVE  CleanInv'
<1> DEFINE b == Append(buffer, Head(inbound))
<1>1. /\ Reading /\ link \in {"connected", "broken"} /\ inbound # <<>> /\ active.op \in Op
      /\ UNCHANGED <<link, unanswered>> /\ inbound' = Tail(inbound)
  BY ActiveTypes DEF ReadPiece, Reading
<1>2. inbound \in Seq(Piece) /\ buffer \in Seq(Piece) /\ outcome \in [Op -> Outcome]
  BY DEF TypeInv, TypeOK
<1>3. CASE Sent(active.op)
  <2>1. /\ buffer = <<>> /\ unanswered = <<>> /\ Len(inbound) = 2
        /\ inbound[1].part = "head" /\ inbound[2].part = "rest" /\ inbound[2].of = active.op
    BY <1>3 DEF Sent
  <2>2. b \in Seq(Piece) /\ Len(b) = 1 /\ b[1] = inbound[1]
    BY <1>1, <1>2, <2>1
  <2>3. ~Complete(b)
    BY <2>1, <2>2, CompleteShort
  <2>4. buffer' = b /\ UNCHANGED <<active, outcome>>
    BY <2>3 DEF ReadPiece
  <2>5. Len(inbound') = 1 /\ inbound'[1] = inbound[2]
    <3>1. Tail(inbound) \in Seq(Piece) /\ Len(Tail(inbound)) = Len(inbound) - 1
      BY <1>1, <1>2, HeadTailProperties
    <3>2. Len(Tail(inbound)) = 1
      BY <2>1, <3>1
    <3>3. 1 \in DOMAIN Tail(inbound)
      BY <3>1, <3>2, LenProperties
    <3>4. Tail(inbound)[1] = inbound[1 + 1]
      BY <1>1, <1>2, <3>3, TailElements
    <3> QED BY <1>1, <3>2, <3>4, SMTT(30)
  <2>6. HalfRead(active.op)' /\ Reading'
    BY <1>1, <2>1, <2>2, <2>4, <2>5 DEF HalfRead, Reading
  <2>7. ~Complete(buffer)'
    BY <2>3, <2>4 DEF Complete
  <2> QED BY <1>1, <2>4, <2>6, <2>7 DEF CleanInv, Reading
<1>4. CASE HalfRead(active.op)
  <2>1. /\ unanswered = <<>> /\ Len(inbound) = 1 /\ inbound[1].part = "rest"
        /\ inbound[1].of = active.op /\ Len(buffer) = 1 /\ buffer[1].part = "head"
    BY <1>4 DEF HalfRead
  <2>2. b \in Seq(Piece) /\ Len(b) = 2 /\ b[2] = inbound[1]
    BY <1>1, <1>2, <2>1
  <2>3. Complete(b)
    BY <2>1, <2>2 DEF Complete
  <2>4. PICK p \in Parse(b) : Finish(p.out) /\ buffer' = p.left
    BY <2>3 DEF ReadPiece
  <2>5. p.out.of = active.op /\ p.left = <<>>
    BY <2>1, <2>2, <2>3, ParseResult
  <2>6. inbound' = <<>>
    BY <1>1, <1>2, <2>1
  <2>7. active' = Idle /\ ~Reading' /\ Quiet' /\ buffer' = <<>>
    BY <1>1, <2>1, <2>4, <2>5, <2>6 DEF Finish, Reading, Quiet, Idle
  <2>8. \A o \in Op : outcome'[o].of \in Op => outcome'[o].of = o
    BY <1>1, <1>2, <2>4, <2>5 DEF Finish, CleanInv
  <2>9. ~Complete(buffer)'
    BY <2>7, CompleteShort DEF Complete
  <2> QED BY <1>1, <2>7, <2>8, <2>9 DEF CleanInv
<1> QED BY <1>1, <1>3, <1>4 DEF CleanInv, Asked

\* An error that cuts no header short leaves nothing behind.
LEMMA CleanFail ==
  ASSUME TypeInv, CleanInv, Timeout \/ IoError, ~cutShort'
  PROVE  CleanInv'
<1>1. /\ Finish(Failed("system")) /\ buffer = <<>> /\ buffer' = <<>> /\ active.op \in Op
      /\ UNCHANGED <<inbound, unanswered>> /\ active # Idle
  BY ActiveTypes DEF Timeout, IoError, Fail
<1>2. active' = Idle /\ ~Reading' /\ active'.phase = "idle"
  BY <1>1 DEF Finish, Reading, Idle
<1>3. \A o \in Op : outcome'[o].of \in Op => outcome'[o].of = o
  <2>1. Failed("system").of \notin Op
    BY NoOpAssumption DEF Failed
  <2>2. outcome \in [Op -> Outcome]
    BY DEF TypeInv, TypeOK
  <2> QED BY <1>1, <2>1, <2>2 DEF Finish, CleanInv
<1>4. ~Complete(buffer)'
  BY <1>1, CompleteShort DEF Complete
<1>5. CASE link' = "closed"
  BY <1>1, <1>2, <1>3, <1>4, <1>5 DEF CleanInv
<1>6. CASE IoError /\ link' = link /\ link # "closed"
  <2>1. link' = "connected" \/ link' = "connecting" => Quiet'
    <3>1. link # "broken" => ~Reading
      BY <1>6 DEF IoError, Reading
    <3>2. link \in {"connected", "connecting"} => Quiet
      BY <3>1 DEF CleanInv
    <3> QED BY <1>1, <1>6, <3>2 DEF Quiet
  <2> QED BY <1>1, <1>2, <1>3, <1>4, <1>6, <2>1 DEF CleanInv, Reading
<1> QED BY <1>5, <1>6 DEF Timeout, IoError

\* With one call at a time, nothing is left for the next call to take.
LEMMA CleanStep ==
  ASSUME TypeInv, OneCall, ~cutShort => CleanInv, [Next]_vars
  PROVE  ~cutShort' => CleanInv'
<1> SUFFICES ASSUME ~cutShort'
             PROVE  CleanInv'
  OBVIOUS
<1>1. ~cutShort
  BY NextSplit, ElsewhereFrame
  DEF CallStep, Submit, Send, Receive, ReadPiece, ReadBuffered, Timeout, IoError, Fail
<1>2. CleanInv
  BY <1>1
<1>3. CASE Elsewhere
  BY <1>2, <1>3, CleanElsewhere
<1>4. CASE \E o \in Op : Submit(o) \/ Send(o)
  <2>1. UNCHANGED <<link, buffer, inbound, unanswered, outcome>>
        /\ (active' = active \/ (active = Idle /\ active'.phase = "write"))
    BY <1>4 DEF Submit, Send
  <2>2. CASE active' = active
    BY <1>2, <2>1, <2>2 DEF CleanInv, Quiet, Reading, Asked, Sent, HalfRead
  <2>3. CASE active = Idle /\ active'.phase = "write"
    <3>1. ~Reading /\ ~Reading' /\ active.phase # "read"
      BY <2>3 DEF Reading, Idle
    <3> QED BY <1>2, <2>1, <2>3, <3>1 DEF CleanInv, Quiet
  <2> QED BY <2>1, <2>2, <2>3
<1>5. CASE Receive
  <2>1. link = "connected" /\ ~Reading /\ active.phase = "write" /\ ~active.doomed
    BY <1>5 DEF Receive, Reading
  <2>2. Quiet /\ buffer = <<>>
    BY <1>2, <2>1 DEF CleanInv
  <2>3. /\ unanswered' = <<active.op>> /\ active'.op = active.op
        /\ UNCHANGED <<inbound, buffer, link, outcome>>
    <3>1. unanswered' = Append(<<>>, active.op) /\ active'.op = active.op
      BY <1>5, <2>2, ReceiveEffect DEF Quiet
    <3>2. Append(<<>>, active.op) = <<active.op>>
      OBVIOUS
    <3> QED BY <1>5, <3>1, <3>2 DEF Receive
  <2>4. Reading'
    BY <1>5, <2>1 DEF Receive, Reading, TypeInv, TypeOK
  <2>5. Asked(active.op)'
    BY <2>2, <2>3 DEF Asked, Quiet
  <2> QED BY <1>2, <2>1, <2>3, <2>4, <2>5 DEF CleanInv
<1>6. CASE ReadPiece
  BY <1>2, <1>6, CleanReadPiece
<1>7. CASE ReadBuffered
  BY <1>2, <1>7 DEF ReadBuffered, CleanInv
<1>8. CASE Timeout \/ IoError
  BY <1>2, <1>8, CleanFail
<1> QED BY <1>3, <1>4, <1>5, <1>6, <1>7, <1>8, NextSplit DEF CallStep

\* With one call at a time, and until an operation is cut off within a header,
\* whatever a call completes with other than an error of the connection is the
\* server's answer to its own request, over any number of reconnections.
THEOREM AnswersAreOwn ==
  ASSUME MaxSubmitted = 1
  PROVE  Spec => []OwnAnswer
<1>1. Init => OwnInv
  <2> SUFFICES ASSUME Init
               PROVE  CleanInv
    BY OnceInit DEF OwnInv
  <2>1. \A o \in Op : outcome[o].of = NoOp
    BY DEF Init, Pending
  <2>2. ~Reading
    BY DEF Init, Reading, Idle
  <2>3. ~Complete(buffer)
    BY CompleteShort DEF Init
  <2> QED BY <2>1, <2>2, <2>3, NoOpAssumption DEF Init, CleanInv, Quiet
<1>2. OwnInv /\ [Next]_vars => OwnInv'
  BY OnceStep, CleanStep DEF OwnInv, OnceInv
<1>3. Spec => []OwnInv
  BY <1>1, <1>2, PTL DEF Spec
<1>4. OwnInv => OwnAnswer
  BY DEF OwnInv, CleanInv, OwnAnswer
<1> QED BY <1>3, <1>4, PTL

-----------------------------------------------------------------------------
(* A call completes once, however many are under way. *)

\* What is under way is not over, and a call is not under way twice.
UnderWayInv ==
  /\ \A o \in submitted : outcome[o] = Pending /\ o # active.op
  /\ active # Idle => outcome[active.op] = Pending

\* A completed call keeps its outcome: its handler is called once.
CompletesOnce == \A o \in Op : outcome[o] # Pending => outcome'[o] = outcome[o]

\* No step completes a call that is over.
LEMMA UnderWayStep ==
  ASSUME TypeInv, UnderWayInv, [Next]_vars
  PROVE  UnderWayInv' /\ CompletesOnce
<1>0. submitted \subseteq Op /\ outcome \in [Op -> Outcome]
  BY DEF TypeInv, TypeOK
<1>1. CASE Elsewhere
  BY <1>1, ElsewhereFrame DEF UnderWayInv, CompletesOnce
<1>2. ASSUME NEW o \in Op, Submit(o)
      PROVE  UnderWayInv' /\ CompletesOnce
  BY <1>2 DEF Submit, UnderWayInv, CompletesOnce
<1>3. ASSUME NEW o \in Op, Send(o)
      PROVE  UnderWayInv' /\ CompletesOnce
  BY <1>3 DEF Send, UnderWayInv, CompletesOnce
<1>4. CASE Receive
  <2>1. active # Idle /\ active'.op = active.op /\ UNCHANGED <<submitted, outcome>>
    BY <1>4, ActiveTypes DEF Receive, TypeInv, TypeOK
  <2> QED BY <2>1 DEF UnderWayInv, CompletesOnce
<1>5. CASE ReadPiece \/ ReadBuffered \/ Timeout \/ IoError
  <2>1. active # Idle /\ active.op \in Op /\ submitted' = submitted
    BY <1>5, Ends, ActiveTypes
  <2>2. CASE active' = active /\ outcome' = outcome
    BY <2>1, <2>2 DEF UnderWayInv, CompletesOnce
  <2>3. ASSUME NEW out, Finish(out)
        PROVE  UnderWayInv' /\ CompletesOnce
    <3>1. active' = Idle /\ \A o \in Op : o # active.op => outcome'[o] = outcome[o]
      BY <1>0, <2>3 DEF Finish
    <3>2. \A o \in submitted : o \in Op /\ o # Idle.op
      BY <1>0, NoOpAssumption DEF Idle
    <3> QED BY <2>1, <3>1, <3>2 DEF UnderWayInv, CompletesOnce
  <2> QED BY <1>5, <2>2, <2>3, Ends
<1> QED BY <1>1, <1>2, <1>3, <1>4, <1>5, NextSplit DEF CallStep

\* Whatever the overlap of calls, timeouts, stops and answers, no call
\* completes twice.
THEOREM CallsCompleteOnce == Spec => [][CompletesOnce]_vars
<1>1. Init => UnderWayInv
  BY DEF Init, UnderWayInv
<1>2. Spec => [](TypeInv /\ UnderWayInv)
  BY <1>1, TypeInit, TypeStep, UnderWayStep, PTL DEF Spec
<1>3. TypeInv /\ UnderWayInv /\ [Next]_vars => [CompletesOnce]_vars
  BY UnderWayStep
<1> QED BY <1>2, <1>3, PTL DEF Spec
=============================================================================
