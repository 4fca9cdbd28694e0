------------------------------- MODULE Server -------------------------------
(***************************************************************************)
(* ServerBase and ServerBase::Session (include/siesta/beast/server.hpp,     *)
(* src/beast/server.cpp) under a generated Server::handle_request           *)
(* (generator/src/Backend/Beast/BeastServerGen.cpp) and the user's handlers *)
(* (BeastServerPythonGen.cpp's trampolines among them).                     *)
(*                                                                          *)
(* A Session lives as long as a shared_ptr to it does: one in every lambda  *)
(* of an operation in progress, one wherever a handler keeps it. Each       *)
(* Session runs on a strand of its own, so its callbacks are atomic;        *)
(* sessions, clients, the acceptor and deferred handlers interleave.        *)
(***************************************************************************)
EXTENDS Integers, Sequences

CONSTANTS Conn,         \* the connections clients may open
          MaxRequests   \* bound on the requests of one client

ASSUME MaxRequestsAssumption == MaxRequests \in Nat

\* What the parser and the routing table make of a request.
Kind == {"routed", "unrouted", "malformed"}

VARIABLES
  acceptor,    \* "closed", "failed" (open, not listening), "armed" (accept in
               \* progress) or "dead" (listening, no accept in progress)
  backlog,     \* connections the kernel has queued for accept
  peer,        \* client side: "absent", "connected" or "gone"
  inbox,       \* requests sent and not yet parsed (socket and _buffer)
  posts,       \* posted run() lambdas of the session
  reads,       \* async_reads in progress on _stream
  writes,      \* async_writes in progress on _stream
  held,        \* session pointers that handlers keep
  open,        \* whether _stream is open
  deadline,    \* which timeout the last expires_after armed
  taken,       \* requests handed to handle_request so far
  response,    \* _response: its status and whose request its body answers
  wire         \* replies completely written, in order

sessionVars == <<posts, reads, writes, held, open, deadline, taken, response, wire>>
vars == <<acceptor, backlog, peer, inbox, sessionVars>>

-----------------------------------------------------------------------------
\* shared_ptrs to the session of connection c; the object is there iff > 0.
Refs(c) == posts[c] + reads[c] + writes[c] + held[c]

Alive(c) == Refs(c) > 0

Add(f, c, n) == [f EXCEPT ![c] = @ + n]

\* A callback's own shared_ptr goes when it returns. If that was the last one,
\* ~Session runs do_close.
LastRefCloses(c) == open' = [open EXCEPT ![c] = @ /\ Refs(c)' > 0]

Init ==
  /\ acceptor = "closed"
  /\ backlog = {}
  /\ peer = [c \in Conn |-> "absent"]
  /\ inbox = [c \in Conn |-> <<>>]
  /\ posts = [c \in Conn |-> 0]
  /\ reads = [c \in Conn |-> 0]
  /\ writes = [c \in Conn |-> 0]
  /\ held = [c \in Conn |-> 0]
  /\ open = [c \in Conn |-> FALSE]
  /\ deadline = [c \in Conn |-> "none"]
  /\ taken = [c \in Conn |-> 0]
  /\ response = [c \in Conn |-> [status |-> 200, body |-> 0]]
  /\ wire = [c \in Conn |-> <<>>]

-----------------------------------------------------------------------------
(* The parts of the callbacks. *)

\* do_read: clear _request, arm the read timeout, start reading.
DoReadWithoutTimeout(c) ==
  /\ reads' = Add(reads, c, 1)
  /\ UNCHANGED deadline

DoRead(c) ==
  /\ deadline' = [deadline EXCEPT ![c] = "read"]
  /\ reads' = Add(reads, c, 1)

\* write: arm the write timeout, start writing _response.
Write(c) ==
  /\ deadline' = [deadline EXCEPT ![c] = "write"]
  /\ writes' = Add(writes, c, 1)

\* A handler that fills in both status and body: its result with 200, or the
\* text of an exception with 500 (not told apart here). n: the request's number.
FilledInKeepsBody(c, n) == [status |-> 200, body |-> response[c].body]

FilledIn(c, n) == [status |-> 200, body |-> n]

\* The 404 of handle_request and the trampoline's 501 set the status alone:
\* _response is never cleared, so the body of the last reply stays in it.
StatusOnly(c, status) == [status |-> status, body |-> response[c].body]

-----------------------------------------------------------------------------
(* ServerBase. *)

\* start: open, bind, listen, first async_accept. If open fails the acceptor
\* stays closed; if bind or listen does, it stays open and later calls of start
\* fail at open, as they do once it listens (they change nothing).
Start ==
  /\ acceptor = "closed"
  /\ acceptor' \in {"closed", "failed", "armed"}
  /\ UNCHANGED <<backlog, peer, inbox, sessionVars>>

\* on_accept: a session whose first read is posted, and the next accept.
OnAcceptWithoutRearm(c) ==
  /\ acceptor = "armed"
  /\ c \in backlog
  /\ backlog' = backlog \ {c}
  /\ posts' = Add(posts, c, 1)
  /\ open' = [open EXCEPT ![c] = TRUE]
  /\ acceptor' = "closed"
  /\ UNCHANGED <<peer, inbox, reads, writes, held, deadline, taken, response, wire>>

OnAccept(c) ==
  /\ acceptor = "armed"
  /\ c \in backlog
  /\ backlog' = backlog \ {c}
  /\ posts' = Add(posts, c, 1)
  /\ open' = [open EXCEPT ![c] = TRUE]
  /\ UNCHANGED <<acceptor, peer, inbox, reads, writes, held, deadline, taken,
                 response, wire>>

\* on_accept with an error returns without another async_accept.
OnAcceptError ==
  /\ acceptor = "armed"
  /\ acceptor' = "dead"
  /\ UNCHANGED <<backlog, peer, inbox, sessionVars>>

-----------------------------------------------------------------------------
(* Session. *)

\* The lambda that run() posted.
RunPosted(c) ==
  /\ posts[c] > 0
  /\ posts' = Add(posts, c, -1)
  /\ DoRead(c)
  /\ UNCHANGED <<acceptor, backlog, peer, inbox, writes, held, open, taken,
                 response, wire>>

\* on_read with a request, up to the call of handle_request.
TakeRequest(c, kinds) ==
  /\ reads[c] > 0
  /\ inbox[c] # <<>>
  /\ Head(inbox[c]) \in kinds
  /\ inbox' = [inbox EXCEPT ![c] = Tail(@)]
  /\ reads' = Add(reads, c, -1)
  /\ taken' = Add(taken, c, 1)
  /\ UNCHANGED <<acceptor, backlog, peer, posts, wire>>

\* handle_request finds no route: 404, written at once.
OnReadUnrouted(c) ==
  /\ TakeRequest(c, {"unrouted"})
  /\ response' = [response EXCEPT ![c] = StatusOnly(c, 404)]
  /\ Write(c)
  /\ UNCHANGED <<held, open>>

\* The handler answers before it returns; a trampoline without a Python
\* override answers 501.
OnReadAnswered(c) ==
  /\ TakeRequest(c, {"routed"})
  /\ response' \in {[response EXCEPT ![c] = FilledIn(c, taken[c] + 1)],
                    [response EXCEPT ![c] = StatusOnly(c, 501)]}
  /\ Write(c)
  /\ UNCHANGED <<held, open>>

\* The handler keeps the pointer and answers later.
OnReadDeferred(c) ==
  /\ TakeRequest(c, {"routed"})
  /\ held' = Add(held, c, 1)
  /\ UNCHANGED <<writes, open, deadline, response>>

\* The handler returns without answering: nothing refers to the session.
OnReadDropped(c) ==
  /\ TakeRequest(c, {"routed"})
  /\ UNCHANGED <<writes, held, deadline, response>>
  /\ LastRefCloses(c)

\* A deferred handler answers, or lets go of the session.
HandlerAnswers(c) ==
  /\ held[c] > 0
  /\ held' = Add(held, c, -1)
  /\ UNCHANGED <<acceptor, backlog, peer, inbox, posts, reads, open, taken, wire>>
  /\ response' = [response EXCEPT ![c] = FilledIn(c, taken[c])]
  /\ Write(c)

HandlerDrops(c) ==
  /\ held[c] > 0
  /\ held' = Add(held, c, -1)
  /\ UNCHANGED <<acceptor, backlog, peer, inbox, posts, reads, writes, deadline,
                 taken, response, wire>>
  /\ LastRefCloses(c)

\* on_read with end_of_stream closes, with any other error it only logs; the
\* last pointer goes with the callback in both cases. The error is the peer's
\* end of the connection, a message that is no HTTP, or the timeout (on which
\* tcp_stream also closes the socket), which may win over a request just
\* arriving.
OnReadError(c) ==
  /\ reads[c] > 0
  /\ \/ peer[c] = "gone"
     \/ inbox[c] # <<>> /\ Head(inbox[c]) = "malformed"
     \/ deadline[c] # "none"
  /\ reads' = Add(reads, c, -1)
  /\ UNCHANGED <<acceptor, backlog, peer, inbox, posts, writes, held, deadline,
                 taken, response, wire>>
  /\ LastRefCloses(c)

\* on_write: the reply is out, read the next request.
OnWriteResent(c) ==
  /\ writes[c] > 0
  /\ wire' = [wire EXCEPT ![c] = Append(@, [reply |-> response[c], to |-> taken[c]])]
  /\ reads' = Add(reads, c, 1)
  /\ UNCHANGED <<acceptor, backlog, peer, inbox, posts, writes, held, open, deadline,
                 taken, response>>

OnWrite(c) ==
  /\ writes[c] > 0
  /\ writes' = Add(writes, c, -1)
  /\ wire' = [wire EXCEPT ![c] = Append(@, [reply |-> response[c], to |-> taken[c]])]
  /\ DoRead(c)
  /\ UNCHANGED <<acceptor, backlog, peer, inbox, posts, held, open, taken, response>>

\* on_write with an error (the peer went away, or does not read until the
\* write timeout): logged, and the last pointer goes.
OnWriteErrorReleasesTwice(c) ==
  /\ writes[c] > 0
  /\ peer[c] = "gone" \/ deadline[c] # "none"
  /\ writes' = Add(writes, c, -2)
  /\ UNCHANGED <<acceptor, backlog, peer, inbox, posts, reads, held, deadline,
                 taken, response, wire>>
  /\ LastRefCloses(c)

OnWriteError(c) ==
  /\ writes[c] > 0
  /\ peer[c] = "gone" \/ deadline[c] # "none"
  /\ writes' = Add(writes, c, -1)
  /\ UNCHANGED <<acceptor, backlog, peer, inbox, posts, reads, held, deadline,
                 taken, response, wire>>
  /\ LastRefCloses(c)

-----------------------------------------------------------------------------
(* The clients. *)

\* The kernel completes the handshake as long as the socket listens, even
\* when nobody accepts any more.
ClientConnects(c) ==
  /\ peer[c] = "absent"
  /\ acceptor \in {"armed", "dead"}
  /\ peer' = [peer EXCEPT ![c] = "connected"]
  /\ backlog' = backlog \cup {c}
  /\ UNCHANGED <<acceptor, inbox, sessionVars>>

\* Requests may be sent ahead of the replies, and before the accept.
ClientSends(c, kind) ==
  /\ peer[c] = "connected"
  /\ c \in backlog \/ open[c]
  /\ taken[c] + Len(inbox[c]) < MaxRequests
  /\ inbox' = [inbox EXCEPT ![c] = Append(@, kind)]
  /\ UNCHANGED <<acceptor, backlog, peer, sessionVars>>

ClientCloses(c) ==
  /\ peer[c] = "connected"
  /\ peer' = [peer EXCEPT ![c] = "gone"]
  /\ UNCHANGED <<acceptor, backlog, inbox, sessionVars>>

-----------------------------------------------------------------------------
SessionStep(c) ==
  \/ RunPosted(c)
  \/ OnReadUnrouted(c)
  \/ OnReadAnswered(c)
  \/ OnReadDeferred(c)
  \/ OnReadDropped(c)
  \/ OnReadError(c)
  \/ OnWrite(c)
  \/ OnWriteError(c)
  \/ HandlerAnswers(c)
  \/ HandlerDrops(c)

ClientStep(c) ==
  \/ ClientConnects(c)
  \/ \E kind \in Kind : ClientSends(c, kind)
  \/ ClientCloses(c)

Next ==
  \/ Start
  \/ OnAcceptError
  \/ \E c \in Conn : OnAccept(c) \/ SessionStep(c) \/ ClientStep(c)

\* The event loop runs what is ready, timers expire, and a handler that keeps
\* a session answers or lets go of it some time. Clients owe nothing.
Fairness == \A c \in Conn : WF_vars(OnAccept(c)) /\ WF_vars(SessionStep(c))

Spec == Init /\ [][Next]_vars /\ Fairness

-----------------------------------------------------------------------------
(* Properties. *)

Status == {200, 404, 501}
Reply == [status : Status, body : Nat]

TypeOK ==
  /\ acceptor \in {"closed", "failed", "armed", "dead"}
  /\ backlog \in SUBSET Conn
  /\ peer \in [Conn -> {"absent", "connected", "gone"}]
  /\ inbox \in [Conn -> Seq(Kind)]
  /\ posts \in [Conn -> Nat]
  /\ reads \in [Conn -> Nat]
  /\ writes \in [Conn -> Nat]
  /\ held \in [Conn -> Nat]
  /\ open \in [Conn -> BOOLEAN]
  /\ deadline \in [Conn -> {"none", "read", "write"}]
  /\ taken \in [Conn -> Nat]
  /\ response \in [Conn -> Reply]
  /\ wire \in [Conn -> Seq([reply : Reply, to : Nat])]

\* One thing at a time per connection: whatever clients pipeline and whenever
\* handlers answer, at most one of {posted start, read, write, deferred
\* handler} is in progress, so _request, _response and _buffer have one user;
\* and the socket is open exactly while something refers to the session.
Owned(c) == Refs(c) <= 1 /\ (open[c] <=> Alive(c))
OneOwner == \A c \in Conn : Owned(c)

\* An operation in progress is bounded by the timeout meant for it: a read
\* never runs on what is left of the write timeout, nor without any.
TimeLimited(c) ==
  /\ reads[c] > 0 => deadline[c] = "read"
  /\ writes[c] > 0 => deadline[c] = "write"
TimeoutFitsOperation == \A c \in Conn : TimeLimited(c)

\* The n-th reply on a connection answers its n-th request: none is skipped,
\* answered twice or overtaken, although clients may pipeline.
Ordered(c) ==
  /\ \A n \in DOMAIN wire[c] : wire[c][n].to = n
  /\ Alive(c) => Len(wire[c]) = taken[c] - (writes[c] + held[c])
RepliesInOrder == \A c \in Conn : Ordered(c)

\* A reply carries a body made for its own connection, and for its own request
\* unless it is one of the status-only replies (404, 501), which repeat the
\* body of the last handler's reply because nothing clears _response.
BodyOf(c, n) == IF n = 0 THEN 0 ELSE wire[c][n].reply.body
OwnBodies(c) ==
  \A n \in DOMAIN wire[c] :
    BodyOf(c, n) = IF wire[c][n].reply.status = 200 THEN n ELSE BodyOf(c, n - 1)
BodyFromOwnConnection == \A c \in Conn : OwnBodies(c)

\* What the properties above rest on: a connection is accepted at most once,
\* and what _response holds while no reply, or this reply, is being written.
Fresh(c) == peer[c] = "absent" \/ c \in backlog
AcceptedOnce(c) ==
  /\ Fresh(c) => ~Alive(c) /\ taken[c] = 0 /\ wire[c] = <<>> /\ response[c].body = 0
  /\ peer[c] = "absent" => c \notin backlog
Prepared(c) ==
  Alive(c) => response[c].body = IF writes[c] > 0 /\ response[c].status = 200
                                 THEN taken[c] ELSE BodyOf(c, Len(wire[c]))

ConnInv(c) ==
  /\ Owned(c)
  /\ TimeLimited(c)
  /\ Ordered(c)
  /\ OwnBodies(c)
  /\ AcceptedOnce(c)
  /\ Prepared(c)

\* No session leaks: with clients that may fall silent, stop reading or vanish
\* at any point, every session ends (timeouts, errors, dropped handlers).
SessionEnds == \A c \in Conn : Alive(c) ~> ~Alive(c)

\* A queued connection is accepted, as long as no accept ever failed.
QueuedIsAccepted ==
  \A c \in Conn : c \in backlog ~> (c \notin backlog \/ acceptor = "dead")
=============================================================================
