---------------------------- MODULE ServerProofs ----------------------------
(***************************************************************************)
(* Proofs about Server, for any set of connections and any number of        *)
(* requests. A step works on one connection (or on the acceptor alone), so  *)
(* each action gets a lemma about that connection and the others are        *)
(* covered by one argument: nothing of theirs changes.                      *)
(***************************************************************************)
EXTENDS Server, SequenceTheorems, TLAPS

\* Nothing that ConnInv(c) speaks of changes in the step.
Same(c) ==
  /\ peer'[c] = peer[c] /\ (c \in backlog' <=> c \in backlog)
  /\ posts'[c] = posts[c] /\ reads'[c] = reads[c] /\ writes'[c] = writes[c]
  /\ held'[c] = held[c] /\ open'[c] = open[c] /\ deadline'[c] = deadline[c]
  /\ taken'[c] = taken[c] /\ response'[c] = response[c] /\ wire'[c] = wire[c]

\* A connection whose part of the state does not change keeps its invariant.
LEMMA SameKeeps ==
  ASSUME NEW c, ConnInv(c), Same(c)
  PROVE  ConnInv(c)'
<1>1. Alive(c)' = Alive(c) /\ Refs(c)' = Refs(c)
  BY DEF Same, Alive, Refs
<1>2. Owned(c)' /\ TimeLimited(c)' /\ Ordered(c)'
  BY <1>1 DEF Same, ConnInv, Owned, TimeLimited, Ordered
<1>3. AcceptedOnce(c)'
  BY <1>1 DEF Same, ConnInv, AcceptedOnce, Fresh
<1>4. OwnBodies(c)' /\ Prepared(c)'
  BY <1>1 DEF Same, ConnInv, OwnBodies, Prepared, BodyOf
<1> QED BY <1>2, <1>3, <1>4 DEF ConnInv

\* The types of one connection's parts of the state.
LEMMA ConnTypes ==
  ASSUME TypeOK, NEW c \in Conn
  PROVE  /\ posts[c] \in Nat /\ reads[c] \in Nat /\ writes[c] \in Nat /\ held[c] \in Nat
         /\ taken[c] \in Nat /\ open[c] \in BOOLEAN /\ response[c] \in Reply
         /\ wire[c] \in Seq([reply : Reply, to : Nat]) /\ Len(wire[c]) \in Nat
         /\ DOMAIN wire[c] = 1..Len(wire[c])
         /\ inbox[c] \in Seq(Kind)
BY LenProperties DEF TypeOK

\* All connections but c are left alone by what happens on c.
LEMMA OthersSame ==
  ASSUME TypeOK, NEW c \in Conn, OnAccept(c) \/ SessionStep(c) \/ ClientStep(c),
         NEW d \in Conn, d # c
  PROVE  Same(d)
<1> USE DEF TypeOK, Same, Add, sessionVars
<1>1. CASE OnAccept(c)
  BY <1>1 DEF OnAccept
<1>2. CASE RunPosted(c)
  BY <1>2 DEF RunPosted, DoRead
<1>3. CASE OnReadUnrouted(c)
  BY <1>3 DEF OnReadUnrouted, TakeRequest, Write
<1>4. CASE OnReadAnswered(c)
  <2>1. PICK r : response' = [response EXCEPT ![c] = r]
    BY <1>4, ZenonT(60) DEF OnReadAnswered
  <2> QED BY <1>4, <2>1 DEF OnReadAnswered, TakeRequest, Write
<1>5. CASE OnReadDeferred(c)
  BY <1>5 DEF OnReadDeferred, TakeRequest
<1>6. CASE OnReadDropped(c)
  BY <1>6 DEF OnReadDropped, TakeRequest, LastRefCloses
<1>7. CASE OnReadError(c)
  BY <1>7 DEF OnReadError, LastRefCloses
<1>8. CASE OnWrite(c)
  BY <1>8 DEF OnWrite, DoRead
<1>9. CASE OnWriteError(c)
  BY <1>9 DEF OnWriteError, LastRefCloses
<1>10. CASE HandlerAnswers(c)
  BY <1>10 DEF HandlerAnswers, Write
<1>11. CASE HandlerDrops(c)
  BY <1>11 DEF HandlerDrops, LastRefCloses
<1>12. CASE ClientStep(c)
  BY <1>12 DEF ClientStep, ClientConnects, ClientSends, ClientCloses
<1> QED BY <1>1, <1>2, <1>3, <1>4, <1>5, <1>6, <1>7, <1>8, <1>9, <1>10, <1>11, <1>12
        DEF SessionStep
-----------------------------------------------------------------------------
(* Type correctness. *)

\* Replies are well formed.
LEMMA ReplyTypes ==
  ASSUME TypeOK, NEW c \in Conn
  PROVE  /\ StatusOnly(c, 404) \in Reply /\ StatusOnly(c, 501) \in Reply
         /\ \A n \in Nat : FilledIn(c, n) \in Reply
         /\ [reply |-> response[c], to |-> taken[c]] \in [reply : Reply, to : Nat]
BY DEF TypeOK, StatusOnly, FilledIn, Reply, Status

\* A counter that is positive may be decremented.
LEMMA AddTypes ==
  ASSUME NEW f \in [Conn -> Nat], NEW c \in Conn
  PROVE  /\ Add(f, c, 1) \in [Conn -> Nat]
         /\ f[c] > 0 => Add(f, c, -1) \in [Conn -> Nat]
BY DEF Add

\* What happens on one connection keeps the types.
LEMMA ConnStepTypeOK ==
  ASSUME TypeOK, NEW c \in Conn, OnAccept(c) \/ SessionStep(c) \/ ClientStep(c)
  PROVE  TypeOK'
<1>1. CASE OnAccept(c)
  BY <1>1, AddTypes DEF OnAccept, TypeOK
<1>2. CASE RunPosted(c)
  BY <1>2, AddTypes DEF RunPosted, DoRead, TypeOK
<1>3. ASSUME NEW K, TakeRequest(c, K)
      PROVE  /\ reads' \in [Conn -> Nat] /\ taken' \in [Conn -> Nat]
             /\ inbox' \in [Conn -> Seq(Kind)]
  BY <1>3, AddTypes, HeadTailProperties DEF TakeRequest, TypeOK
<1>4. CASE OnReadUnrouted(c)
  <2>1. TakeRequest(c, {"unrouted"}) /\ Write(c) /\ UNCHANGED <<held, open>>
    BY <1>4 DEF OnReadUnrouted
  <2>2. PICK r \in Reply : response' = [response EXCEPT ![c] = r]
    <3>1. StatusOnly(c, 404) \in Reply
      BY ReplyTypes
    <3>2. response' = [response EXCEPT ![c] = StatusOnly(c, 404)]
      BY <1>4 DEF OnReadUnrouted
    <3> QED BY <3>1, <3>2
  <2>3. writes' \in [Conn -> Nat] /\ response' \in [Conn -> Reply]
    BY <2>1, <2>2, AddTypes DEF Write, TypeOK
  <2> QED BY <1>3, <2>1, <2>3 DEF TakeRequest, Write, TypeOK
<1>5. CASE OnReadAnswered(c)
  <2>1. writes' \in [Conn -> Nat]
    BY <1>5, AddTypes DEF OnReadAnswered, Write, TypeOK
  <2>2. PICK r \in Reply : response' = [response EXCEPT ![c] = r]
    <3>1. taken[c] + 1 \in Nat
      BY ConnTypes
    <3> QED BY <1>5, <3>1, ReplyTypes DEF OnReadAnswered
  <2>3. response' \in [Conn -> Reply]
    BY <2>2 DEF TypeOK
  <2>4. TakeRequest(c, {"routed"}) /\ Write(c) /\ UNCHANGED <<held, open>>
    BY <1>5 DEF OnReadAnswered
  <2> QED BY <1>3, <2>1, <2>3, <2>4 DEF TakeRequest, Write, TypeOK
<1>6. CASE OnReadDeferred(c)
  BY <1>3, <1>6, AddTypes DEF OnReadDeferred, TakeRequest, TypeOK
<1>7. CASE OnReadDropped(c)
  BY <1>3, <1>7 DEF OnReadDropped, TakeRequest, LastRefCloses, TypeOK
<1>8. CASE OnReadError(c)
  BY <1>8, AddTypes DEF OnReadError, LastRefCloses, TypeOK
<1>9. CASE OnWrite(c)
  <2>1. wire' \in [Conn -> Seq([reply : Reply, to : Nat])]
    BY <1>9, ReplyTypes, ConnTypes, AppendProperties DEF OnWrite, TypeOK
  <2> QED BY <1>9, <2>1, AddTypes DEF OnWrite, DoRead, TypeOK
<1>10. CASE OnWriteError(c)
  BY <1>10, AddTypes DEF OnWriteError, LastRefCloses, TypeOK
<1>11. CASE HandlerAnswers(c)
  <2>1. writes' \in [Conn -> Nat] /\ response' \in [Conn -> Reply]
    BY <1>11, AddTypes, ReplyTypes, ConnTypes, ZenonT(60) DEF HandlerAnswers, Write, TypeOK
  <2> QED BY <1>11, <2>1, AddTypes DEF HandlerAnswers, Write, TypeOK
<1>12. CASE HandlerDrops(c)
  BY <1>12, AddTypes DEF HandlerDrops, LastRefCloses, TypeOK
<1>13. CASE ClientConnects(c) \/ ClientCloses(c)
  BY <1>13 DEF ClientConnects, ClientCloses, sessionVars, TypeOK
<1>14. ASSUME NEW kind \in Kind, ClientSends(c, kind) PROVE TypeOK'
  <2>1. inbox' \in [Conn -> Seq(Kind)]
    BY <1>14, AppendProperties, ConnTypes DEF ClientSends, TypeOK
  <2> QED BY <1>14, <2>1 DEF ClientSends, sessionVars, TypeOK
<1> QED BY <1>1, <1>2, <1>4, <1>5, <1>6, <1>7, <1>8, <1>9, <1>10, <1>11, <1>12, <1>13, <1>14
        DEF SessionStep, ClientStep
-----------------------------------------------------------------------------
(* The invariant of the connection a step works on. *)

\* An accepted connection was fresh: nothing else refers to its session.
LEMMA OnAcceptKeeps ==
  ASSUME TypeOK, NEW c \in Conn, ConnInv(c), OnAccept(c)
  PROVE  ConnInv(c)'
<1> USE ConnTypes DEF ConnInv
<1>1. /\ posts[c] = 0 /\ reads[c] = 0 /\ writes[c] = 0 /\ held[c] = 0
      /\ taken[c] = 0 /\ wire[c] = <<>> /\ response[c].body = 0 /\ peer[c] # "absent"
  BY SMTT(30) DEF OnAccept, AcceptedOnce, Fresh, Alive, Refs
<1>2. /\ posts'[c] = 1 /\ reads'[c] = 0 /\ writes'[c] = 0 /\ held'[c] = 0
      /\ open'[c] = TRUE /\ taken'[c] = 0 /\ wire'[c] = <<>> /\ response'[c].body = 0
      /\ peer'[c] = peer[c] /\ c \notin backlog'
  BY <1>1 DEF OnAccept, Add, TypeOK
<1>3. Refs(c)' = 1 /\ Alive(c)'
  BY <1>2 DEF Refs, Alive
<1>4. Owned(c)' /\ TimeLimited(c)' /\ Ordered(c)' /\ OwnBodies(c)'
  BY <1>2, <1>3 DEF Owned, TimeLimited, Ordered, OwnBodies
<1>5. AcceptedOnce(c)' /\ Prepared(c)'
  BY <1>1, <1>2, <1>3 DEF AcceptedOnce, Fresh, Prepared, BodyOf
<1> QED BY <1>4, <1>5

\* A session that exists belongs to an accepted connection, and exactly one
\* reference keeps it.
LEMMA Serving ==
  ASSUME TypeOK, NEW c \in Conn, ConnInv(c),
         posts[c] > 0 \/ reads[c] > 0 \/ writes[c] > 0 \/ held[c] > 0
  PROVE  /\ Alive(c) /\ Refs(c) = 1 /\ open[c] /\ ~Fresh(c)
         /\ Len(wire[c]) = taken[c] - (writes[c] + held[c])
         /\ posts[c] > 0 => posts[c] = 1 /\ reads[c] = 0 /\ writes[c] = 0 /\ held[c] = 0
         /\ reads[c] > 0 => posts[c] = 0 /\ reads[c] = 1 /\ writes[c] = 0 /\ held[c] = 0
         /\ writes[c] > 0 => posts[c] = 0 /\ reads[c] = 0 /\ writes[c] = 1 /\ held[c] = 0
         /\ held[c] > 0 => posts[c] = 0 /\ reads[c] = 0 /\ writes[c] = 0 /\ held[c] = 1
<1>1. posts[c] \in Nat /\ reads[c] \in Nat /\ writes[c] \in Nat /\ held[c] \in Nat
  BY ConnTypes
<1>2. Refs(c) = posts[c] + reads[c] + writes[c] + held[c] /\ Refs(c) <= 1
  BY DEF ConnInv, Owned, Refs
<1>3. Refs(c) = 1
  BY <1>1, <1>2
<1>4. Alive(c)
  BY <1>3 DEF Alive
<1>5. open[c] /\ ~Fresh(c) /\ Len(wire[c]) = taken[c] - (writes[c] + held[c])
  BY <1>4 DEF ConnInv, Owned, Ordered, AcceptedOnce
<1>6. /\ posts[c] > 0 => posts[c] = 1 /\ reads[c] = 0 /\ writes[c] = 0 /\ held[c] = 0
      /\ reads[c] > 0 => posts[c] = 0 /\ reads[c] = 1 /\ writes[c] = 0 /\ held[c] = 0
      /\ writes[c] > 0 => posts[c] = 0 /\ reads[c] = 0 /\ writes[c] = 1 /\ held[c] = 0
      /\ held[c] > 0 => posts[c] = 0 /\ reads[c] = 0 /\ writes[c] = 0 /\ held[c] = 1
  BY <1>1, <1>2, <1>3
<1> QED BY <1>3, <1>4, <1>5, <1>6

\* A step that ends the session: no reference is left, the socket is closed.
LEMMA EndKeeps ==
  ASSUME TypeOK, NEW c \in Conn, ConnInv(c), ~Fresh(c),
         peer' = peer, backlog' = backlog, wire' = wire,
         Refs(c)' = 0, reads'[c] = 0, writes'[c] = 0, ~open'[c]
  PROVE  ConnInv(c)'
<1>1. ~Alive(c)' /\ ~Fresh(c)'
  BY DEF Alive, Fresh
<1>2. Owned(c)' /\ TimeLimited(c)' /\ Ordered(c)' /\ OwnBodies(c)' /\ Prepared(c)'
  BY <1>1 DEF ConnInv, Owned, TimeLimited, Ordered, OwnBodies, BodyOf, Prepared
<1>3. AcceptedOnce(c)'
  BY <1>1 DEF ConnInv, AcceptedOnce, Fresh
<1> QED BY <1>2, <1>3 DEF ConnInv
\* Another operation or holder takes the session over: the reply sequence and
\* the acceptance are as before, and one reference is left.
LEMMA HandOverKeeps ==
  ASSUME TypeOK, NEW c \in Conn, ConnInv(c), Alive(c), ~Fresh(c),
         peer' = peer, backlog' = backlog, wire' = wire, open' = open,
         Refs(c)' = 1, TimeLimited(c)',
         Len(wire[c]) = taken'[c] - (writes'[c] + held'[c]),
         response'[c].body = IF writes'[c] > 0 /\ response'[c].status = 200
                             THEN taken'[c] ELSE BodyOf(c, Len(wire[c]))
  PROVE  ConnInv(c)'
<1>1. Alive(c)' /\ ~Fresh(c)' /\ BodyOf(c, Len(wire[c]))' = BodyOf(c, Len(wire[c]))
  BY DEF Alive, Fresh, BodyOf
<1>2. Owned(c)' /\ Ordered(c)' /\ OwnBodies(c)'
  BY <1>1 DEF ConnInv, Owned, Ordered, OwnBodies, BodyOf
<1>3. AcceptedOnce(c)'
  BY <1>1 DEF ConnInv, AcceptedOnce, Fresh
<1>4. Prepared(c)'
  BY <1>1 DEF Prepared
<1> QED BY <1>2, <1>3, <1>4 DEF ConnInv

\* The callbacks that pass the session on.
LEMMA HandOverStepsKeep ==
  ASSUME TypeOK, NEW c \in Conn, ConnInv(c),
         \/ RunPosted(c) \/ OnReadUnrouted(c) \/ OnReadAnswered(c)
         \/ OnReadDeferred(c) \/ HandlerAnswers(c)
  PROVE  ConnInv(c)'
<1> USE DEF Add
<1>0. \/ RunPosted(c) /\ posts[c] > 0
      \/ (OnReadUnrouted(c) \/ OnReadAnswered(c) \/ OnReadDeferred(c)) /\ reads[c] > 0
      \/ HandlerAnswers(c) /\ held[c] > 0
  BY DEF RunPosted, OnReadUnrouted, OnReadAnswered, OnReadDeferred, HandlerAnswers,
         TakeRequest
<1>1. /\ Alive(c) /\ Refs(c) = 1 /\ ~Fresh(c)
      /\ Len(wire[c]) = taken[c] - (writes[c] + held[c])
      /\ posts[c] > 0 => posts[c] = 1 /\ reads[c] = 0 /\ writes[c] = 0 /\ held[c] = 0
      /\ reads[c] > 0 => posts[c] = 0 /\ reads[c] = 1 /\ writes[c] = 0 /\ held[c] = 0
      /\ held[c] > 0 => posts[c] = 0 /\ reads[c] = 0 /\ writes[c] = 0 /\ held[c] = 1
  BY <1>0, Serving
<1>2. taken[c] \in Nat /\ Len(wire[c]) \in Nat
  BY ConnTypes
<1>3. writes[c] = 0 => response[c].body = BodyOf(c, Len(wire[c]))
  BY <1>1 DEF ConnInv, Prepared
<1>4. CASE RunPosted(c)
  <2>1. /\ posts'[c] = 0 /\ reads'[c] = 1 /\ writes'[c] = 0 /\ held'[c] = 0
        /\ deadline'[c] = "read" /\ taken'[c] = taken[c] /\ response'[c] = response[c]
    BY <1>0, <1>1, <1>4 DEF RunPosted, DoRead, TypeOK
  <2>2. Refs(c)' = 1 /\ TimeLimited(c)'
    BY <2>1 DEF Refs, TimeLimited
  <2>3. peer' = peer /\ backlog' = backlog /\ wire' = wire /\ open' = open
    BY <1>4 DEF RunPosted
  <2>4. writes[c] = 0 /\ held[c] = 0
    BY <1>1, <1>4 DEF RunPosted
  <2> QED BY <1>1, <1>2, <1>3, <2>1, <2>2, <2>3, <2>4, HandOverKeeps
<1>5. CASE OnReadUnrouted(c)
  <2>1. /\ posts'[c] = 0 /\ reads'[c] = 0 /\ writes'[c] = 1 /\ held'[c] = 0
        /\ deadline'[c] = "write" /\ taken'[c] = taken[c] + 1
        /\ response'[c].body = response[c].body /\ response'[c].status = 404
    BY <1>0, <1>1, <1>5 DEF OnReadUnrouted, TakeRequest, Write, StatusOnly, TypeOK
  <2>2. Refs(c)' = 1 /\ TimeLimited(c)'
    BY <2>1 DEF Refs, TimeLimited
  <2>3. peer' = peer /\ backlog' = backlog /\ wire' = wire /\ open' = open
    BY <1>5 DEF OnReadUnrouted, TakeRequest
  <2>4. writes[c] = 0 /\ held[c] = 0
    BY <1>1, <1>5 DEF OnReadUnrouted, TakeRequest
  <2> QED BY <1>1, <1>2, <1>3, <2>1, <2>2, <2>3, <2>4, HandOverKeeps
<1>6. CASE OnReadAnswered(c)
  <2>1. /\ posts'[c] = 0 /\ reads'[c] = 0 /\ writes'[c] = 1 /\ held'[c] = 0
        /\ deadline'[c] = "write" /\ taken'[c] = taken[c] + 1
    BY <1>0, <1>1, <1>6 DEF OnReadAnswered, TakeRequest, Write, TypeOK
  <2>2. Refs(c)' = 1 /\ TimeLimited(c)'
    BY <2>1 DEF Refs, TimeLimited
  <2>3. peer' = peer /\ backlog' = backlog /\ wire' = wire /\ open' = open
    BY <1>6 DEF OnReadAnswered, TakeRequest
  <2>4. writes[c] = 0 /\ held[c] = 0
    BY <1>1, <1>6 DEF OnReadAnswered, TakeRequest
  <2>5. response'[c].body = IF response'[c].status = 200
                            THEN taken[c] + 1 ELSE response[c].body
    BY <1>6 DEF OnReadAnswered, FilledIn, StatusOnly, TypeOK
  <2>6. Len(wire[c]) = taken'[c] - (writes'[c] + held'[c])
    BY <1>1, <1>2, <2>1, <2>4
  <2>7. response'[c].body = IF writes'[c] > 0 /\ response'[c].status = 200
                            THEN taken'[c] ELSE BodyOf(c, Len(wire[c]))
    BY <1>3, <2>1, <2>4, <2>5
  <2> QED BY <1>1, <2>2, <2>3, <2>6, <2>7, HandOverKeeps
<1>7. CASE OnReadDeferred(c)
  <2>1. /\ posts'[c] = 0 /\ reads'[c] = 0 /\ writes'[c] = 0 /\ held'[c] = 1
        /\ taken'[c] = taken[c] + 1 /\ response'[c] = response[c]
    BY <1>0, <1>1, <1>7 DEF OnReadDeferred, TakeRequest, TypeOK
  <2>2. Refs(c)' = 1 /\ TimeLimited(c)'
    BY <2>1 DEF Refs, TimeLimited
  <2>3. peer' = peer /\ backlog' = backlog /\ wire' = wire /\ open' = open
    BY <1>7 DEF OnReadDeferred, TakeRequest
  <2>4. writes[c] = 0 /\ held[c] = 0
    BY <1>1, <1>7 DEF OnReadDeferred, TakeRequest
  <2> QED BY <1>1, <1>2, <1>3, <2>1, <2>2, <2>3, <2>4, HandOverKeeps, SMTT(30)
<1>8. CASE HandlerAnswers(c)
  <2>1. /\ posts'[c] = 0 /\ reads'[c] = 0 /\ writes'[c] = 1 /\ held'[c] = 0
        /\ deadline'[c] = "write" /\ taken'[c] = taken[c]
        /\ response'[c].body = taken[c] /\ response'[c].status = 200
    BY <1>0, <1>1, <1>8 DEF HandlerAnswers, Write, FilledIn, TypeOK
  <2>2. Refs(c)' = 1 /\ TimeLimited(c)'
    BY <2>1 DEF Refs, TimeLimited
  <2>3. peer' = peer /\ backlog' = backlog /\ wire' = wire /\ open' = open
    BY <1>8 DEF HandlerAnswers
  <2>4. writes[c] = 0 /\ held[c] = 1
    BY <1>1, <1>8 DEF HandlerAnswers
  <2>5. Len(wire[c]) = taken'[c] - (writes'[c] + held'[c])
    BY <1>1, <1>2, <2>1, <2>4
  <2>6. response'[c].body = IF writes'[c] > 0 /\ response'[c].status = 200
                            THEN taken'[c] ELSE BodyOf(c, Len(wire[c]))
    BY <2>1
  <2>7. Alive(c) /\ ~Fresh(c)
    BY <1>1
  <2> QED BY <2>2, <2>3, <2>5, <2>6, <2>7, HandOverKeeps
<1> QED BY <1>0, <1>4, <1>5, <1>6, <1>7, <1>8
\* The callbacks that let the last reference go.
LEMMA EndStepsKeep ==
  ASSUME TypeOK, NEW c \in Conn, ConnInv(c),
         OnReadDropped(c) \/ OnReadError(c) \/ OnWriteError(c) \/ HandlerDrops(c)
  PROVE  ConnInv(c)'
<1> USE DEF Add
<1>0. \/ (OnReadDropped(c) \/ OnReadError(c)) /\ reads[c] > 0
      \/ OnWriteError(c) /\ writes[c] > 0
      \/ HandlerDrops(c) /\ held[c] > 0
  BY DEF OnReadDropped, OnReadError, OnWriteError, HandlerDrops, TakeRequest
<1>1. /\ ~Fresh(c)
      /\ reads[c] > 0 => posts[c] = 0 /\ reads[c] = 1 /\ writes[c] = 0 /\ held[c] = 0
      /\ writes[c] > 0 => posts[c] = 0 /\ reads[c] = 0 /\ writes[c] = 1 /\ held[c] = 0
      /\ held[c] > 0 => posts[c] = 0 /\ reads[c] = 0 /\ writes[c] = 0 /\ held[c] = 1
  BY <1>0, Serving
<1>2. /\ posts'[c] = 0 /\ reads'[c] = 0 /\ writes'[c] = 0 /\ held'[c] = 0
      /\ peer' = peer /\ backlog' = backlog /\ wire' = wire /\ LastRefCloses(c)
  <2>1. CASE OnReadDropped(c)
    BY <1>1, <2>1 DEF OnReadDropped, TakeRequest, TypeOK
  <2>2. CASE OnReadError(c)
    BY <1>1, <2>2 DEF OnReadError, TypeOK
  <2>3. CASE OnWriteError(c)
    BY <1>1, <2>3 DEF OnWriteError, TypeOK
  <2>4. CASE HandlerDrops(c)
    BY <1>1, <2>4 DEF HandlerDrops, TypeOK
  <2> QED BY <1>0, <2>1, <2>2, <2>3, <2>4
<1>3. Refs(c)' = 0
  BY <1>2 DEF Refs
<1>4. ~open'[c]
  <2>1. open'[c] = (open[c] /\ Refs(c)' > 0)
    BY <1>2, Zenon DEF LastRefCloses, TypeOK
  <2>2. ~(Refs(c)' > 0)
    BY <1>3
  <2> QED BY <2>1, <2>2
<1> QED BY <1>1, <1>2, <1>3, <1>4, EndKeeps

\* on_write appends the reply to the request that was taken last, and its body
\* is the one _response was prepared with.
LEMMA OnWriteKeeps ==
  ASSUME TypeOK, NEW c \in Conn, ConnInv(c), OnWrite(c)
  PROVE  ConnInv(c)'
<1> DEFINE w == wire[c]
           e == [reply |-> response[c], to |-> taken[c]]
<1>1. writes[c] > 0
  BY DEF OnWrite
<1>2. /\ Alive(c) /\ ~Fresh(c) /\ open[c] /\ Len(w) = taken[c] - 1
      /\ posts[c] = 0 /\ reads[c] = 0 /\ writes[c] = 1 /\ held[c] = 0
  BY <1>1, Serving, ConnTypes
<1>3. /\ posts'[c] = 0 /\ reads'[c] = 1 /\ writes'[c] = 0 /\ held'[c] = 0
      /\ deadline'[c] = "read" /\ open' = open /\ peer' = peer /\ backlog' = backlog
      /\ taken'[c] = taken[c] /\ response'[c] = response[c]
  BY <1>2 DEF OnWrite, DoRead, Add, TypeOK
<1>4. /\ w \in Seq([reply : Reply, to : Nat]) /\ e \in [reply : Reply, to : Nat]
      /\ taken[c] \in Nat /\ Len(w) \in Nat
  BY ConnTypes, ReplyTypes, ZenonT(60)
<1>5. wire'[c] = Append(w, e)
  BY DEF OnWrite, TypeOK
<1>6. /\ Len(wire'[c]) = taken[c] /\ DOMAIN wire'[c] = 1..taken[c]
      /\ \A n \in 1..Len(w) : wire'[c][n] = w[n]
      /\ wire'[c][taken[c]] = e
  BY <1>2, <1>4, <1>5, AppendProperties, LenProperties
<1>7. Refs(c)' = 1 /\ Alive(c)' /\ ~Fresh(c)'
  BY <1>2, <1>3 DEF Refs, Alive, Fresh
<1>8. Owned(c)' /\ TimeLimited(c)'
  BY <1>2, <1>3, <1>7 DEF Owned, TimeLimited
<1>9. AcceptedOnce(c)'
  BY <1>3, <1>7 DEF ConnInv, AcceptedOnce, Fresh
<1>10. Ordered(c)'
  <2>1. \A n \in 1..Len(w) : w[n].to = n
    BY <1>4, LenProperties DEF ConnInv, Ordered
  <2>2. ASSUME NEW n \in 1..taken[c] PROVE wire'[c][n].to = n
    <3>1. CASE n = taken[c]
      BY <1>6, <3>1
    <3>2. CASE n # taken[c]
      <4>1. n \in 1..Len(w)
        BY <1>2, <1>4, <3>2
      <4> QED BY <1>6, <2>1, <4>1
    <3> QED BY <3>1, <3>2
  <2> QED BY <1>3, <1>4, <1>6, <2>2 DEF Ordered
<1>11. \A n \in 0..Len(w) : BodyOf(c, n)' = BodyOf(c, n)
  BY <1>4, <1>6 DEF BodyOf
<1>12. \A n \in Nat : n = taken[c] => BodyOf(c, n)' = response[c].body
  BY <1>2, <1>4, <1>6 DEF BodyOf
<1>13. response[c].body = IF response[c].status = 200 THEN taken[c] ELSE BodyOf(c, Len(w))
  BY <1>1, <1>2 DEF ConnInv, Prepared
<1>14. Prepared(c)'
  BY <1>3, <1>4, <1>6, <1>12 DEF Prepared
<1>15. OwnBodies(c)'
  <2> SUFFICES ASSUME NEW n \in 1..taken[c]
               PROVE  BodyOf(c, n)' = IF wire'[c][n].reply.status = 200
                                      THEN n ELSE BodyOf(c, n - 1)'
    BY <1>6 DEF OwnBodies
  <2>1. CASE n = taken[c]
    <3>1. BodyOf(c, n - 1)' = BodyOf(c, Len(w))
      BY <1>2, <1>4, <1>11, <2>1
    <3>2. wire'[c][n].reply = response[c]
      BY <1>6, <2>1
    <3> QED BY <1>12, <1>13, <2>1, <3>1, <3>2
  <2>2. CASE n # taken[c]
    <3>1. n \in 1..Len(w) /\ n - 1 \in 0..Len(w) /\ n \in 0..Len(w)
      BY <1>2, <1>4, <2>2
    <3>2. BodyOf(c, n) = IF w[n].reply.status = 200 THEN n ELSE BodyOf(c, n - 1)
      BY <1>4, <3>1, LenProperties DEF ConnInv, OwnBodies
    <3> QED BY <1>6, <1>11, <3>1, <3>2, SMTT(30)
  <2> QED BY <2>1, <2>2
<1> QED BY <1>8, <1>9, <1>10, <1>14, <1>15 DEF ConnInv

\* A client's step touches no session; a new connection is a fresh one.
LEMMA ClientStepKeeps ==
  ASSUME TypeOK, NEW c \in Conn, ConnInv(c), ClientStep(c)
  PROVE  ConnInv(c)'
<1>1. /\ posts' = posts /\ reads' = reads /\ writes' = writes /\ held' = held
      /\ open' = open /\ deadline' = deadline /\ taken' = taken
      /\ response' = response /\ wire' = wire
  BY DEF ClientStep, ClientConnects, ClientSends, ClientCloses, sessionVars
<1>2. ((Fresh(c)' => Fresh(c)) /\ peer'[c] # "absent") \/ Same(c)
  <2>1. CASE ClientConnects(c)
    BY <2>1 DEF ClientConnects, Fresh, TypeOK
  <2>2. CASE ClientCloses(c)
    BY <2>2 DEF ClientCloses, Fresh, TypeOK
  <2>3. ASSUME NEW kind \in Kind, ClientSends(c, kind) PROVE Same(c)
    BY <1>1, <2>3 DEF ClientSends, Same
  <2> QED BY <2>1, <2>2, <2>3 DEF ClientStep
<1>3. CASE Same(c)
  BY <1>3, SameKeeps
<1>4. CASE (Fresh(c)' => Fresh(c)) /\ peer'[c] # "absent"
  <2>1. Refs(c)' = Refs(c) /\ Alive(c)' = Alive(c)
    BY <1>1 DEF Refs, Alive
  <2>2. Owned(c)' /\ TimeLimited(c)' /\ Ordered(c)'
    BY <1>1, <2>1 DEF ConnInv, Owned, TimeLimited, Ordered
  <2>3. OwnBodies(c)' /\ Prepared(c)'
    BY <1>1, <2>1 DEF ConnInv, OwnBodies, Prepared, BodyOf
  <2>4. AcceptedOnce(c)'
    BY <1>1, <1>4, <2>1 DEF ConnInv, AcceptedOnce
  <2> QED BY <2>2, <2>3, <2>4 DEF ConnInv
<1> QED BY <1>2, <1>3, <1>4
-----------------------------------------------------------------------------
(* Putting it together. *)

ServerInv == TypeOK /\ \A c \in Conn : ConnInv(c)

\* The invariant holds before the server is started.
LEMMA InitServerInv == Init => ServerInv
<1> SUFFICES ASSUME Init PROVE ServerInv
  OBVIOUS
<1>1. TypeOK
  BY DEF Init, TypeOK, Reply, Status
<1>2. ASSUME NEW c \in Conn PROVE ConnInv(c)
  <2>1. Refs(c) = 0 /\ ~Alive(c)
    BY DEF Init, Refs, Alive
  <2>2. Owned(c) /\ TimeLimited(c) /\ Ordered(c) /\ OwnBodies(c)
    BY <2>1 DEF Init, Owned, TimeLimited, Ordered, OwnBodies
  <2>3. AcceptedOnce(c) /\ Prepared(c)
    BY <2>1 DEF Init, AcceptedOnce, Fresh, Prepared
  <2> QED BY <2>2, <2>3 DEF ConnInv
<1> QED BY <1>1, <1>2 DEF ServerInv

\* Every step of acceptor, sessions, handlers and clients keeps the invariant.
LEMMA NextServerInv == ServerInv /\ [Next]_vars => ServerInv'
<1> SUFFICES ASSUME ServerInv, [Next]_vars PROVE ServerInv'
  OBVIOUS
<1>1. TypeOK /\ \A c \in Conn : ConnInv(c)
  BY DEF ServerInv
<1>2. CASE Start \/ OnAcceptError \/ UNCHANGED vars
  <2>1. \A c \in Conn : Same(c)
    BY <1>2 DEF Start, OnAcceptError, vars, sessionVars, Same
  <2>2. TypeOK'
    BY <1>1, <1>2 DEF Start, OnAcceptError, vars, sessionVars, TypeOK
  <2> QED BY <1>1, <2>1, <2>2, SameKeeps DEF ServerInv
<1>3. ASSUME NEW c \in Conn, OnAccept(c) \/ SessionStep(c) \/ ClientStep(c)
      PROVE  ServerInv'
  <2>1. TypeOK'
    BY <1>1, <1>3, ConnStepTypeOK
  <2>2. ConnInv(c)'
    BY <1>1, <1>3, OnAcceptKeeps, HandOverStepsKeep, EndStepsKeep, OnWriteKeeps,
       ClientStepKeeps DEF SessionStep
  <2>3. \A d \in Conn \ {c} : ConnInv(d)'
    BY <1>1, <1>3, OthersSame, SameKeeps
  <2> QED BY <2>1, <2>2, <2>3 DEF ServerInv
<1> QED BY <1>2, <1>3 DEF Next

\* The invariant of the server.
THEOREM ServerInvariant == Spec => []ServerInv
BY InitServerInv, NextServerInv, PTL DEF Spec

\* Type correctness of the server's state.
THEOREM TypeCorrect == Spec => []TypeOK
<1>1. ServerInv => TypeOK
  BY DEF ServerInv
<1> QED BY <1>1, ServerInvariant, PTL

\* One operation or handler at a time owns a session; its socket is open
\* exactly as long.
THEOREM SessionHasOneOwner == Spec => []OneOwner
<1>1. ServerInv => OneOwner
  BY DEF ServerInv, ConnInv, OneOwner
<1> QED BY <1>1, ServerInvariant, PTL

\* Reads and writes run under the timeout configured for them.
THEOREM OperationsAreTimed == Spec => []TimeoutFitsOperation
<1>1. ServerInv => TimeoutFitsOperation
  BY DEF ServerInv, ConnInv, TimeoutFitsOperation
<1> QED BY <1>1, ServerInvariant, PTL

\* Replies come in the order of the requests, one for each.
THEOREM RepliesKeepOrder == Spec => []RepliesInOrder
<1>1. ServerInv => RepliesInOrder
  BY DEF ServerInv, ConnInv, RepliesInOrder
<1> QED BY <1>1, ServerInvariant, PTL

\* Where the body of every reply comes from.
THEOREM RepliesKeepBodies == Spec => []BodyFromOwnConnection
<1>1. ServerInv => BodyFromOwnConnection
  BY DEF ServerInv, ConnInv, BodyFromOwnConnection
<1> QED BY <1>1, ServerInvariant, PTL
=============================================================================
