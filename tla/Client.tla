------------------------------- MODULE Client -------------------------------
(***************************************************************************)
(* siesta::beast::ClientBase (include/siesta/beast/client.hpp,              *)
(* src/beast/client.cpp, src/beast/error.cpp): one stream, one _request and *)
(* one _buffer for all the calls of a client.                               *)
(*                                                                          *)
(* Resolver and stream share a strand, so handlers are atomic; the user's   *)
(* calls, the resolver, the network and the server come in between. A call  *)
(* is made in two steps: async_submit_request stores the request when it is *)
(* called, and the composed operation starts when the completion token says *)
(* so: at once for a callback or a future, at co_await for an awaitable.    *)
(* Operations are started one after the other, as the stream requires.      *)
(*                                                                          *)
(* A response travels in two pieces: part of its header, and the rest.      *)
(***************************************************************************)
EXTENDS Integers, Sequences, FiniteSets

CONSTANTS Op,           \* the calls of the client's user
          Endpoint,     \* the servers start may be given
          MaxStarts,    \* bound on the calls of start
          MaxSubmitted, \* bound on the calls submitted and not completed
          NoOp          \* not a call, not an endpoint

ASSUME MaxStartsAssumption == MaxStarts \in Nat
ASSUME NoOpAssumption == NoOp \notin Op /\ NoOp \notin Endpoint

Status == {200, 404, 503}

VARIABLES
  hostValue,   \* _host_value
  starts,      \* calls of start so far
  resolves,    \* async_resolves in progress or posted, in order; "asked" is
               \* one the resolver's thread has not begun
  link,        \* _stream's socket: "closed", "connecting", "connected" or
               \* "broken" (open, but the peer is gone)
  server,      \* the endpoint the socket was last connected to
  request,     \* _request: whose it is, and its Host
  submitted,   \* calls submitted and not started
  active,      \* the composed operation that runs, if any
  buffer,      \* _buffer: pieces received and not consumed
  inbound,     \* pieces sent by the server and not received
  unanswered,  \* requests the server has and has not answered
  outcome,     \* what each call completed with
  received,    \* history: the requests servers received, in order
  cutShort,    \* history: an operation failed with half a header in _buffer
  stopped,     \* history: stop was called after the last start
  begun        \* history: at that stop a lookup ran or had succeeded

vars == <<hostValue, starts, resolves, link, server, request, submitted, active,
          buffer, inbound, unanswered, outcome, received, cutShort, stopped, begun>>

callVars == <<request, submitted, active, buffer, outcome, cutShort>>
netVars == <<inbound, unanswered, received>>
startVars == <<hostValue, starts, resolves, stopped, begun>>
linkVars == <<link, server>>

-----------------------------------------------------------------------------
Outcome == [result : {"pending", "response", "error"},
            category : {"", "system", "beast.http", "HTTP status codes"},
            value : Status \cup {0}, of : Op \cup {NoOp}]

Pending == [result |-> "pending", category |-> "", value |-> 0, of |-> NoOp]
Failed(category) == [result |-> "error", category |-> category, value |-> 0, of |-> NoOp]

\* The end of the composed operation: 2xx completes with the response, any
\* other status with make_error_code(status). of: whose response it is.
Completion(status, of) ==
  IF status \in 200 .. 299
  THEN [result |-> "response", category |-> "", value |-> status, of |-> of]
  ELSE [result |-> "error", category |-> "HTTP status codes", value |-> status, of |-> of]

-----------------------------------------------------------------------------
Request == [op : Op \cup {NoOp}, host : Endpoint \cup {NoOp}]
Piece == [of : Op, status : Status, part : {"head", "rest"}]

\* Whether a sequence of pieces ends with a complete response.
Complete(b) == b # <<>> /\ b[Len(b)].part = "rest"

\* What the parser may make of it, and what it leaves in the buffer. A header
\* that begins with half of another is read as one message with the first
\* one's status, or refused at the point where it stops making sense.
Parse(b) ==
  LET last == b[Len(b)]
  IN  {[out |-> Completion(b[1].status, last.of), left |-> <<>>]}
        \cup IF Len(b) = 2 THEN {}
             ELSE {[out |-> Failed("beast.http"), left |-> l] : l \in {b, Tail(b)}}

NoRequest == [op |-> NoOp, host |-> NoOp]
Idle == [op |-> NoOp, phase |-> "idle", doomed |-> FALSE, writing |-> NoRequest]

\* A socket that is closed or opened anew dooms the operation running on it.
Doom == active' = [active EXCEPT !.doomed = active # Idle]

\* self.complete: the operation is over.
Finish(out) ==
  /\ outcome' = [outcome EXCEPT ![active.op] = out]
  /\ active' = Idle

Init ==
  /\ hostValue = NoOp
  /\ starts = 0
  /\ resolves = <<>>
  /\ link = "closed"
  /\ server = NoOp
  /\ request = NoRequest
  /\ submitted = {}
  /\ active = Idle
  /\ buffer = <<>>
  /\ inbound = <<>>
  /\ unanswered = <<>>
  /\ outcome = [o \in Op |-> Pending]
  /\ received = <<>>
  /\ cutShort = FALSE
  /\ stopped = FALSE
  /\ begun = FALSE

-----------------------------------------------------------------------------
(* Connecting and disconnecting. *)

\* start: _host_value changes at once, the rest follows.
Start(e) ==
  /\ starts < MaxStarts
  /\ starts' = starts + 1
  /\ hostValue' = e
  /\ resolves' = Append(resolves, [to |-> e, state |-> "asked"])
  /\ stopped' = FALSE
  /\ begun' = FALSE
  /\ UNCHANGED <<linkVars, callVars, netVars>>

\* stop: cancel the lookups and close the socket. The resolver looks at a
\* cancellation before it begins a lookup: one that runs cannot be stopped.
LookupBegun == \E i \in DOMAIN resolves : resolves[i].state \in {"running", "found"}

StopKeepsResolving ==
  /\ stopped' = TRUE
  /\ begun' = LookupBegun
  /\ link' = "closed"
  /\ Doom
  /\ UNCHANGED <<hostValue, starts, resolves, server, request, submitted, buffer,
                 outcome, cutShort, netVars>>

Stop ==
  /\ stopped' = TRUE
  /\ begun' = LookupBegun
  /\ resolves' = [i \in DOMAIN resolves |->
                    IF resolves[i].state = "asked"
                    THEN [resolves[i] EXCEPT !.state = "failed"]
                    ELSE resolves[i]]
  /\ link' = "closed"
  /\ Doom
  /\ UNCHANGED <<hostValue, starts, server, request, submitted, buffer, outcome,
                 cutShort, netVars>>

\* asio: the resolver's one thread begins the oldest lookup that waits.
ResolverBegins ==
  \E i \in DOMAIN resolves :
    /\ resolves[i].state = "asked"
    /\ \A j \in DOMAIN resolves : resolves[j].state # "running"
    /\ \A j \in 1 .. i - 1 : resolves[j].state # "asked"
    /\ resolves' = [resolves EXCEPT ![i].state = "running"]
    /\ UNCHANGED <<hostValue, starts, stopped, begun, linkVars, callVars, netVars>>

\* asio: the lookup ends, and its handler is posted.
ResolverAnswers ==
  \E i \in DOMAIN resolves :
    /\ resolves[i].state = "running"
    /\ \E answer \in {"found", "failed"} :
         resolves' = [resolves EXCEPT ![i].state = answer]
    /\ UNCHANGED <<hostValue, starts, stopped, begun, linkVars, callVars, netVars>>

\* on_resolve: an error is logged, else connect; async_connect closes and
\* reopens the socket, whatever it was doing.
OnResolve ==
  /\ resolves # <<>>
  /\ Head(resolves).state \in {"found", "failed"}
  /\ resolves' = Tail(resolves)
  /\ IF Head(resolves).state = "failed"
     THEN UNCHANGED <<linkVars, active, inbound, unanswered>>
     ELSE /\ link' = "connecting"
          /\ server' = Head(resolves).to
          /\ inbound' = <<>>
          /\ unanswered' = <<>>
          /\ Doom
  /\ UNCHANGED <<hostValue, starts, stopped, begun, request, submitted, buffer,
                 outcome, cutShort, received>>

\* on_connect: nothing but a log entry follows; on the connect timeout the
\* stream closes the socket.
OnConnect ==
  /\ link = "connecting"
  /\ link' \in {"connected", "closed"}
  /\ IF link' = "closed" THEN Doom ELSE UNCHANGED active
  /\ UNCHANGED <<startVars, server, request, submitted, buffer, outcome, cutShort, netVars>>

-----------------------------------------------------------------------------
(* Calls. *)

\* async_submit_request, up to the composed operation.
Submit(o) ==
  /\ outcome[o] = Pending
  /\ o # active.op
  /\ o \notin submitted
  /\ Cardinality(submitted \cup ({active.op} \cap Op)) < MaxSubmitted
  /\ submitted' = submitted \cup {o}
  /\ request' = [op |-> o, host |-> hostValue]
  /\ UNCHANGED <<startVars, linkVars, active, buffer, outcome, cutShort, netVars>>

\* State 0: write _request. On a closed socket the write fails.
SendMovedFrom(o) ==
  /\ o \in submitted
  /\ active = Idle
  /\ submitted' = submitted \ {o}
  /\ active' = [op |-> o, phase |-> "write", doomed |-> link = "closed",
                writing |-> NoRequest]
  /\ request' = NoRequest
  /\ UNCHANGED <<startVars, linkVars, buffer, outcome, cutShort, netVars>>

Send(o) ==
  /\ o \in submitted
  /\ active = Idle
  /\ submitted' = submitted \ {o}
  /\ active' = [op |-> o, phase |-> "write", doomed |-> link = "closed",
                writing |-> request]
  /\ UNCHANGED <<startVars, linkVars, request, buffer, outcome, cutShort, netVars>>

\* State 1: the request is out (at the server), read into _buffer. A write from
\* a _request that was replaced under it sends the old one or the new one.
ReceiveResends ==
  /\ active.phase = "write"
  /\ link = "connected"
  /\ ~active.doomed
  /\ received' = Append(received, [request |-> request, at |-> server])
  /\ unanswered' = Append(unanswered, request.op)
  /\ active' \in {[active EXCEPT !.phase = "read"], active}
  /\ UNCHANGED <<startVars, linkVars, request, submitted, buffer, outcome, cutShort, inbound>>

Receive ==
  /\ active.phase = "write"
  /\ link = "connected"
  /\ ~active.doomed
  /\ \E r \in {active.writing, request} :
       /\ received' = Append(received, [request |-> r, at |-> server])
       /\ unanswered' = Append(unanswered, r.op)
  /\ active' = [active EXCEPT !.phase = "read"]
  /\ UNCHANGED <<startVars, linkVars, request, submitted, buffer, outcome, cutShort, inbound>>

\* The read gets a piece. If the header is not complete it goes on, otherwise
\* it ends, and the operation with it.
ReadPiece ==
  /\ active.phase = "read"
  /\ link \in {"connected", "broken"}
  /\ ~active.doomed
  /\ ~Complete(buffer)
  /\ inbound # <<>>
  /\ inbound' = Tail(inbound)
  /\ LET b == Append(buffer, Head(inbound))
     IN  IF Complete(b)
         THEN \E p \in Parse(b) : Finish(p.out) /\ buffer' = p.left
         ELSE buffer' = b /\ UNCHANGED <<active, outcome>>
  /\ UNCHANGED <<startVars, linkVars, request, submitted, cutShort, unanswered, received>>

\* A response that an earlier call left in _buffer ends the read at once.
ReadBuffered ==
  /\ active.phase = "read"
  /\ Complete(buffer)
  /\ \E p \in Parse(buffer) : Finish(p.out) /\ buffer' = p.left
  /\ UNCHANGED <<startVars, linkVars, request, submitted, cutShort, netVars>>

\* The error branch: the call completes with the error, _buffer is left alone.
FailSilently == UNCHANGED <<startVars, server, callVars, netVars>>

Fail ==
  /\ Finish(Failed("system"))
  /\ cutShort' = (cutShort \/ buffer # <<>>)
  /\ UNCHANGED <<startVars, server, request, submitted, buffer, netVars>>

\* The write or read timeout: tcp_stream closes the socket.
TimeoutKeepsSocket ==
  /\ active # Idle
  /\ ~active.doomed
  /\ Fail
  /\ UNCHANGED link

Timeout ==
  /\ active # Idle
  /\ ~active.doomed
  /\ Fail
  /\ link' = "closed"

\* The socket was closed under the operation, or the peer is gone.
IoError ==
  /\ active # Idle
  /\ active.doomed \/ link = "broken"
  /\ Fail
  /\ UNCHANGED link

-----------------------------------------------------------------------------
(* The server. *)

ServerAnswers ==
  /\ unanswered # <<>>
  /\ link = "connected"
  /\ unanswered' = Tail(unanswered)
  /\ \E s \in Status :
       inbound' = inbound \o [i \in 1 .. 2 |-> [of |-> Head(unanswered), status |-> s,
                                                part |-> IF i = 1 THEN "head" ELSE "rest"]]
  /\ UNCHANGED <<startVars, linkVars, callVars, received>>

ServerCloses ==
  /\ link = "connected"
  /\ link' = "broken"
  /\ UNCHANGED <<startVars, server, callVars, netVars>>

-----------------------------------------------------------------------------
CallStep == Receive \/ ReadPiece \/ ReadBuffered \/ Timeout \/ IoError

Next ==
  \/ \E e \in Endpoint : Start(e)
  \/ Stop
  \/ ResolverBegins
  \/ ResolverAnswers
  \/ OnResolve
  \/ OnConnect
  \/ \E o \in Op : Submit(o) \/ Send(o)
  \/ CallStep
  \/ ServerAnswers
  \/ ServerCloses

\* The event loop runs what is ready and timers expire. Nobody owes the client
\* an answer, and its user owes nothing.
Fairness == WF_vars(CallStep)

Spec == Init /\ [][Next]_vars /\ Fairness

-----------------------------------------------------------------------------
(* Properties. *)

TypeOK ==
  /\ hostValue \in Endpoint \cup {NoOp}
  /\ starts \in 0 .. MaxStarts
  /\ resolves \in Seq([to : Endpoint, state : {"asked", "running", "found", "failed"}])
  /\ link \in {"closed", "connecting", "connected", "broken"}
  /\ server \in Endpoint \cup {NoOp}
  /\ request \in Request
  /\ submitted \in SUBSET Op
  /\ active \in [op : Op \cup {NoOp}, phase : {"idle", "write", "read"},
                doomed : BOOLEAN, writing : Request]
  /\ buffer \in Seq(Piece)
  /\ inbound \in Seq(Piece)
  /\ unanswered \in Seq(Op)
  /\ outcome \in [Op -> Outcome]
  /\ received \in Seq([request : Request, at : Endpoint])
  /\ cutShort \in BOOLEAN
  /\ stopped \in BOOLEAN
  /\ begun \in BOOLEAN

\* Whatever a call completes with, other than an error of the connection, is
\* what the server answered to its own request: a late answer to a call that
\* timed out is never taken for the next one's, over reconnections too. The
\* exception: once an operation was cut off within a response header, _buffer
\* keeps the half header (nothing clears it) and spoils what follows.
OwnAnswer ==
  \A o \in Op : outcome[o].of \in Op /\ ~cutShort => outcome[o].of = o

\* A request reaches a server at most once, however its call ends, and a call
\* that completes with an answer reached one: errors are never retried inside.
AtMostOnce ==
  /\ \A i, j \in DOMAIN received : received[i].request.op = received[j].request.op => i = j
  /\ \A o \in Op : outcome[o].of = o => \E i \in DOMAIN received : received[i].request.op = o

\* stop stops a start whose lookup has not begun: the socket stays closed until
\* the next start. The exception: a lookup that ran when stop was called, or had
\* succeeded with its handler posted, is out of cancel's reach, and on_resolve
\* connects after stop.
StopCancelsStart == stopped /\ ~begun => link = "closed"

\* Every operation that was started completes: with an answer, or an error
\* when the server or the network falls silent.
EveryCallReturns == \A o \in Op : active.op = o ~> outcome[o].result # "pending"

\* Calls do not touch each other's state: a response handed to a call answers
\* its own request. (generator/ARCHITECTURE.md:268: the state of a call is
\* "local to the compose lambda (no shared mutable state on the class)".)
CallsAreIndependent ==
  \A o \in Op : outcome[o].result = "response" => outcome[o].of = o
=============================================================================
