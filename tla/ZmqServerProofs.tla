-------------------------- MODULE ZmqServerProofs --------------------------
(***************************************************************************)
(* Proofs about the proxy, for any peers, requests, pipes and clock.       *)
(*                                                                         *)
(* TypeOK is not inductive: that what the proxy reads from a client and    *)
(* hands to a worker comes back in the right envelope needs that the pipes *)
(* of a client hold only that client's requests, and that every message in *)
(* flight stems from a request that was sent.  PipesOK says so, TypeInv is *)
(* the inductive invariant, and TypeOK and RightClient follow from it.     *)
(*                                                                         *)
(* AtMostOneCopy needs that a request is in one message, that it is on one *)
(* leg of its way, and that nothing carries a request its client has not   *)
(* sent: CopiesInv.  Every step then either leaves all requests alone,     *)
(* moves one of them along its way, or ends those a peer held or all of    *)
(* them (LifeStep); what the proxy promises about requests follows.        *)
(***************************************************************************)
EXTENDS ZmqServer, SequenceTheorems, WorkerPoolProofs

-----------------------------------------------------------------------------
(* Frames and pipes *)

\* Putting an identity in front of a message and popping it again gives the
\* message back (pushmem and pop of multipart_t).
LEMMA PushThenPop ==
    ASSUME NEW S, NEW m \in Seq(S), NEW f \in S
    PROVE  /\ pushmem(f, m) \in Seq(S)
           /\ front(pushmem(f, m)) = f
           /\ pop(pushmem(f, m)) = m
           /\ size(pushmem(f, m)) = size(m) + 1
<1> DEFINE p == pushmem(f, m)
<1>1. /\ <<f>> \in Seq(S)
      /\ Len(<<f>>) = 1
      /\ <<f>>[1] = f
  OBVIOUS
<1>2. /\ p \in Seq(S)
      /\ Len(p) = Len(m) + 1
      /\ \A i \in 1 .. Len(m) + 1 : p[i] = IF i <= 1 THEN f ELSE m[i - 1]
  BY <1>1, ConcatProperties, SMT DEF pushmem
<1>3. Len(m) \in Nat
  BY LenProperties
<1>4. p # << >> /\ Head(p) = f
  BY <1>2, <1>3
<1>5. Tail(p) = m
  <2>1. /\ Tail(p) \in Seq(S)
        /\ Len(Tail(p)) = Len(m)
        /\ \A i \in 1 .. Len(Tail(p)) : Tail(p)[i] = p[i + 1]
    BY <1>2, <1>3, <1>4, HeadTailProperties
  <2>2. \A i \in 1 .. Len(m) : Tail(p)[i] = m[i]
    BY <1>2, <1>3, <2>1
  <2>3. QED
    BY <2>1, <2>2, SeqEqual
<1>6. QED
  BY <1>2, <1>4, <1>5 DEF front, pop, size

\* Taking the oldest message of a pipe leaves messages of the same kind.
LEMMA TakeType ==
    ASSUME NEW P, NEW M, NEW pipes \in [P -> Seq(M)],
           NEW p \in P, pipes[p] # << >>
    PROVE  /\ Head(pipes[p]) \in M
           /\ [pipes EXCEPT ![p] = Tail(@)] \in [P -> Seq(M)]
  BY HeadTailProperties

\* So does adding a message of that kind,
LEMMA PutType ==
    ASSUME NEW P, NEW M, NEW pipes \in [P -> Seq(M)], NEW p \in P, NEW m \in M
    PROVE  [pipes EXCEPT ![p] = Append(@, m)] \in [P -> Seq(M)]
  OBVIOUS

\* and so does a connection that closes, which empties its pipe.
LEMMA ClearType ==
    ASSUME NEW P, NEW M, NEW pipes \in [P -> Seq(M)], NEW p \in P
    PROVE  [pipes EXCEPT ![p] = << >>] \in [P -> Seq(M)]
  OBVIOUS

\* A send adds the message without its first frame to the pipe of the
\* addressee, or nothing.
LEMMA SendType ==
    ASSUME NEW P, NEW M, NEW pipes \in [P -> Seq(M)],
           NEW peers, peers \subseteq P,
           NEW m, front(m) \in peers => pop(m) \in M
    PROVE  RouterSend(pipes, peers, m) \in [P -> Seq(M)]
<1>1. CASE front(m) \in peers /\ HasRoom(pipes, front(m))
  <2>1. Append(pipes[front(m)], pop(m)) \in Seq(M)
    BY <1>1
  <2>2. QED
    BY <1>1, <2>1 DEF RouterSend
<1>2. CASE ~ (front(m) \in peers /\ HasRoom(pipes, front(m)))
  BY <1>2 DEF RouterSend
<1>3. QED
  BY <1>1, <1>2

\* Each pipe by itself, for pipes that hold messages of their own peer.
LEMMA SendTypePerPeer ==
    ASSUME NEW P, NEW M, NEW pipes, DOMAIN pipes = P,
           \A p \in P : pipes[p] \in Seq(M[p]),
           NEW peers, peers \subseteq P,
           NEW m, front(m) \in peers => pop(m) \in M[front(m)],
           NEW q \in P
    PROVE  RouterSend(pipes, peers, m)[q] \in Seq(M[q])
<1>1. CASE /\ front(m) \in peers
           /\ HasRoom(pipes, front(m))
           /\ front(m) = q
  <2>1. RouterSend(pipes, peers, m)[q] = Append(pipes[q], pop(m))
    BY <1>1 DEF RouterSend
  <2>2. pipes[q] \in Seq(M[q]) /\ pop(m) \in M[q]
    BY <1>1
  <2>3. QED
    BY <2>1, <2>2
<1>2. CASE ~ (front(m) \in peers /\ HasRoom(pipes, front(m)) /\ front(m) = q)
  <2>1. RouterSend(pipes, peers, m)[q] = pipes[q]
    BY <1>2 DEF RouterSend
  <2>2. QED
    BY <2>1
<1>3. QED
  BY <1>1, <1>2

-----------------------------------------------------------------------------
(* The inductive invariant behind TypeOK *)

\* Request r as the proxy hands it to a worker: its client's identity in front.
Envelope(r)   == pushmem(Owner[r], RequestBody(r))
SentEnvelopes == {Envelope(r) : r \in sent}
SentBy(c)     == {RequestBody(r) : r \in {q \in sent : Owner[q] = c}}

LoopOK ==
    /\ clock \in 0 .. MaxClock
    /\ pc \in {"poll", "back", "front", "beat", "rearm", "check", "dead"}
    /\ nitems \in 0 .. 2
    /\ revents \in [back : BOOLEAN, front : BOOLEAN]
    /\ vec_work_ \subseteq Entry(Workers)
    /\ heartbeat_at \in Int
    /\ checked \in 0 .. MaxClock
    /\ workers_up \subseteq Workers
    /\ clients_up \subseteq Clients
    /\ sent \subseteq Requests

BackOK == back_q \in
    [Workers -> Seq({<<HEARTBEAT_KEY>>, <<OtherText>>} \cup SentEnvelopes)]

ToWorkerOK == to_worker \in [Workers -> Seq({<<HEARTBEAT_KEY>>} \cup SentEnvelopes)]

FrontOK ==
    /\ front_q \in [Clients -> Seq(FromClient)]
    /\ \A c \in Clients : front_q[c] \in Seq(SentBy(c))

ToClientOK ==
    /\ to_client \in [Clients -> Seq(ToClient)]
    /\ \A c \in Clients : to_client[c] \in Seq(SentBy(c) \cup {NoWorkerReply})

PipesOK == BackOK /\ ToWorkerOK /\ FrontOK /\ ToClientOK

TypeInv == LoopOK /\ PipesOK

-----------------------------------------------------------------------------
(* Messages *)

\* A request has one frame or two, its envelope one more; the envelope is
\* addressed to the owner and holds the request.
LEMMA EnvelopeProperties ==
    ASSUME NEW r \in Requests
    PROVE  /\ front(Envelope(r)) = Owner[r]
           /\ Owner[r] \in Clients
           /\ pop(Envelope(r)) = RequestBody(r)
           /\ size(Envelope(r)) \in {2, 3}
           /\ RequestBody(r) \in FromClient
           /\ Envelope(r) \in Addressed
<1> DEFINE S == {Owner[r], Delimiter, r}
<1>1. RequestBody(r) \in Seq(S) /\ size(RequestBody(r)) \in {1, 2}
  <2>1. CASE Owner[r] \in ReqClients
    BY <2>1 DEF RequestBody, size
  <2>2. CASE Owner[r] \notin ReqClients
    BY <2>2 DEF RequestBody, size
  <2>3. QED
    BY <2>1, <2>2
<1>2. Owner[r] \in S
  OBVIOUS
<1> HIDE DEF S
<1>3. /\ front(Envelope(r)) = Owner[r]
      /\ pop(Envelope(r)) = RequestBody(r)
      /\ size(Envelope(r)) = size(RequestBody(r)) + 1
  BY <1>1, <1>2, PushThenPop DEF Envelope
<1>4. Owner[r] \in Clients
  BY ServerAssumption
<1>5. size(Envelope(r)) \in {2, 3}
  BY <1>1, <1>3
<1>6. QED
  BY <1>3, <1>4, <1>5 DEF FromClient, Addressed, Envelope

\* What the proxy adds in front of an envelope on its way to worker w is what
\* the back socket takes off.
LEMMA WorkerAddress ==
    ASSUME NEW r \in Requests, NEW w
    PROVE  /\ front(pushmem(w, Envelope(r))) = w
           /\ pop(pushmem(w, Envelope(r))) = Envelope(r)
<1> DEFINE S == {w, Owner[r], Delimiter, r}
<1>1. RequestBody(r) \in Seq(S)
  <2>1. CASE Owner[r] \in ReqClients
    BY <2>1 DEF RequestBody
  <2>2. CASE Owner[r] \notin ReqClients
    BY <2>2 DEF RequestBody
  <2>3. QED
    BY <2>1, <2>2
<1>2. Owner[r] \in S /\ w \in S
  OBVIOUS
<1> HIDE DEF S
<1>3. Envelope(r) \in Seq(S)
  BY <1>1, <1>2, PushThenPop DEF Envelope
<1>4. QED
  BY <1>2, <1>3, PushThenPop

\* The messages the proxy makes itself: its heartbeat and the refusal.
LEMMA OwnMessages ==
    ASSUME NEW p
    PROVE  /\ front(<<p, HEARTBEAT_KEY>>) = p
           /\ pop(<<p, HEARTBEAT_KEY>>) = <<HEARTBEAT_KEY>>
           /\ front(addstr(addstr(<<p>>, Delimiter), NoWorkerText)) = p
           /\ pop(addstr(addstr(<<p>>, Delimiter), NoWorkerText)) = NoWorkerReply
<1> DEFINE S == {p, HEARTBEAT_KEY, Delimiter, NoWorkerText}
<1>1. /\ p \in S
      /\ <<HEARTBEAT_KEY>> \in Seq(S)
      /\ NoWorkerReply \in Seq(S)
  BY DEF NoWorkerReply
<1>2. <<p, HEARTBEAT_KEY>> = pushmem(p, <<HEARTBEAT_KEY>>)
  BY DEF pushmem
<1>3. addstr(addstr(<<p>>, Delimiter), NoWorkerText) = pushmem(p, NoWorkerReply)
  BY DEF pushmem, addstr, NoWorkerReply
<1> HIDE DEF S
<1>4. QED
  BY <1>1, <1>2, <1>3, PushThenPop, ZenonT(60)

\* What the loop gets from worker w: the worker's message itself, and if it
\* has more than one frame the envelope of a request that was sent.
LEMMA BackMessage ==
    ASSUME TypeInv, NEW w \in Workers, back_q[w] # << >>
    PROVE  /\ BackBody(w) = Head(back_q[w])
           /\ size(BackBody(w)) # 1 => \E r \in sent : BackBody(w) = Envelope(r)
<1>1. Head(back_q[w]) \in {<<HEARTBEAT_KEY>>, <<OtherText>>} \cup SentEnvelopes
  BY TakeType DEF TypeInv, PipesOK, BackOK
<1>2. CASE Head(back_q[w]) \in SentEnvelopes
  <2>1. PICK r \in sent : Head(back_q[w]) = Envelope(r)
    BY <1>2 DEF SentEnvelopes
  <2>2. r \in Requests
    BY DEF TypeInv, LoopOK
  <2>3. BackBody(w) = Envelope(r)
    BY <2>1, <2>2, WorkerAddress DEF BackBody, RouterRecv
  <2>4. QED
    BY <2>1, <2>3
<1>3. CASE Head(back_q[w]) \in {<<HEARTBEAT_KEY>>, <<OtherText>>}
  <2>0. PICK k \in {HEARTBEAT_KEY, OtherText} : Head(back_q[w]) = <<k>>
    BY <1>3
  <2> DEFINE S == {w, k}
  <2>1. w \in S /\ <<k>> \in Seq(S) /\ size(<<k>>) = 1
    BY DEF size
  <2> HIDE DEF S
  <2>2. BackBody(w) = Head(back_q[w])
    BY <2>0, <2>1, PushThenPop, ZenonT(60) DEF BackBody, RouterRecv
  <2>3. QED
    BY <2>0, <2>1, <2>2
<1>4. QED
  BY <1>1, <1>2, <1>3

\* What the loop gets from client c is the envelope of a request of c.
LEMMA FrontMessage ==
    ASSUME TypeInv, NEW c \in Clients, front_q[c] # << >>
    PROVE  \E r \in sent : /\ r \in Requests
                           /\ Owner[r] = c
                           /\ Head(front_q[c]) = RequestBody(r)
                           /\ RouterRecv(front_q, c) = Envelope(r)
<1>1. Head(front_q[c]) \in SentBy(c)
  BY HeadTailProperties DEF TypeInv, PipesOK, FrontOK
<1>2. PICK r \in sent : Owner[r] = c /\ Head(front_q[c]) = RequestBody(r)
  BY <1>1 DEF SentBy
<1>3. RouterRecv(front_q, c) = Envelope(r)
  BY <1>2 DEF RouterRecv, Envelope
<1>4. QED
  BY <1>2, <1>3 DEF TypeInv, LoopOK

-----------------------------------------------------------------------------
(* Types *)

\* At the start the table and the pipes are empty.
LEMMA InitTypeInv == Init => TypeInv
<1> SUFFICES ASSUME Init PROVE TypeInv
  OBVIOUS
<1>1. LoopOK
  BY ServerAssumption, HeartbeatAssumption DEF Init, LoopOK
<1>2. PipesOK
  BY DEF Init, PipesOK, BackOK, ToWorkerOK, FrontOK, ToClientOK
<1>3. QED
  BY <1>1, <1>2 DEF TypeInv

\* As long as no request is sent the same messages may be in the pipes.
LEMMA SameRequests ==
    ASSUME sent' = sent
    PROVE  /\ SentEnvelopes' = SentEnvelopes
           /\ \A c : SentBy(c)' = SentBy(c)
  BY DEF SentEnvelopes, SentBy

\* Reading a worker's message and reading a client's.
LEMMA ReceiveBackType ==
    ASSUME TypeInv, NEW w \in Workers, ReceiveBack(w), sent' = sent
    PROVE  BackOK'
  BY SameRequests, TakeType DEF TypeInv, PipesOK, BackOK, ReceiveBack

\* Taking a client's first message leaves that client's messages behind it.
LEMMA ReceiveFrontType ==
    ASSUME TypeInv, NEW c \in Clients, ReceiveFront(c), sent' = sent
    PROVE  FrontOK'
<1>1. front_q' \in [Clients -> Seq(FromClient)]
  BY TakeType DEF TypeInv, PipesOK, FrontOK, ReceiveFront
<1>2. ASSUME NEW d \in Clients
      PROVE  front_q'[d] \in Seq(SentBy(d))
  BY HeadTailProperties DEF TypeInv, PipesOK, FrontOK, ReceiveFront
<1>3. QED
  BY <1>1, <1>2, SameRequests DEF FrontOK

\* Sending a message to a client that holds a request of its own or the
\* refusal.
LEMMA SendToClientType ==
    ASSUME TypeInv, NEW m, sent' = sent,
           to_client' = RouterSend(to_client, clients_up, m),
           \/ \E r \in sent : m = Envelope(r)
           \/ pop(m) = NoWorkerReply
    PROVE  ToClientOK'
<1> DEFINE T == [c \in Clients |-> SentBy(c) \cup {NoWorkerReply}]
<1>1. front(m) \in clients_up => /\ pop(m) \in ToClient
                                 /\ pop(m) \in T[front(m)]
  <2> SUFFICES ASSUME front(m) \in clients_up
               PROVE  pop(m) \in ToClient /\ pop(m) \in T[front(m)]
    OBVIOUS
  <2>1. front(m) \in Clients
    BY DEF TypeInv, LoopOK
  <2>2. CASE pop(m) = NoWorkerReply
    BY <2>1, <2>2 DEF ToClient
  <2>3. CASE \E r \in sent : m = Envelope(r)
    <3>1. PICK r \in sent : m = Envelope(r)
      BY <2>3
    <3>2. r \in Requests
      BY DEF TypeInv, LoopOK
    <3>3. front(m) = Owner[r] /\ pop(m) = RequestBody(r) /\ RequestBody(r) \in FromClient
      BY <3>1, <3>2, EnvelopeProperties
    <3>4. QED
      BY <2>1, <3>3 DEF SentBy, ToClient
  <2>4. QED
    BY <2>2, <2>3
<1>2. to_client' \in [Clients -> Seq(ToClient)]
  BY <1>1, SendType DEF TypeInv, LoopOK, PipesOK, ToClientOK
<1>3. ASSUME NEW c \in Clients
      PROVE  to_client'[c] \in Seq(SentBy(c) \cup {NoWorkerReply})
  <2>1. /\ DOMAIN to_client = Clients
        /\ \A d \in Clients : to_client[d] \in Seq(T[d])
        /\ clients_up \subseteq Clients
    BY DEF TypeInv, LoopOK, PipesOK, ToClientOK
  <2> HIDE DEF T
  <2>2. to_client'[c] \in Seq(T[c])
    BY <1>1, <2>1, SendTypePerPeer
  <2>3. QED
    BY <2>2 DEF T
<1>4. QED
  BY <1>2, <1>3, SameRequests DEF ToClientOK

\* Sending to a worker a heartbeat, or a request with both identities.
LEMMA SendToWorkerType ==
    ASSUME TypeInv, NEW w \in Workers, NEW m,
           m = <<w, HEARTBEAT_KEY>> \/ \E r \in sent : m = pushmem(w, Envelope(r))
    PROVE  RouterSend(to_worker, workers_up, m) \in
             [Workers -> Seq({<<HEARTBEAT_KEY>>} \cup SentEnvelopes)]
<1>1. pop(m) \in {<<HEARTBEAT_KEY>>} \cup SentEnvelopes
  <2>1. CASE m = <<w, HEARTBEAT_KEY>>
    BY <2>1, OwnMessages
  <2>2. CASE \E r \in sent : m = pushmem(w, Envelope(r))
    <3>1. PICK r \in sent : m = pushmem(w, Envelope(r))
      BY <2>2
    <3>2. r \in Requests
      BY DEF TypeInv, LoopOK
    <3>3. QED
      BY <3>1, <3>2, WorkerAddress DEF SentEnvelopes
  <2>3. QED
    BY <2>1, <2>2
<1>2. QED
  BY <1>1, SendType DEF TypeInv, LoopOK, PipesOK, ToWorkerOK

\* Every step of the loop keeps the types.
LEMMA ServerTypeInv == TypeInv /\ Server => TypeInv'
<1> SUFFICES ASSUME TypeInv, Server PROVE TypeInv'
  OBVIOUS
<1> USE DEF TypeInv
<1>1. CASE Poll
  <2>0. revents' \in [back : BOOLEAN, front : BOOLEAN]
    <3>1. Readable(back_q) \in BOOLEAN /\ Readable(front_q) \in BOOLEAN
      BY DEF Readable
    <3>2. revents.front \in BOOLEAN
      BY DEF LoopOK
    <3>3. revents' = [back |-> Readable(back_q),
                      front |-> IF Covered = 2 THEN Readable(front_q)
                                               ELSE revents.front]
      BY <1>1 DEF Poll
    <3> QED
      BY <3>1, <3>2, <3>3
  <2>1. LoopOK'
    BY <1>1, <2>0 DEF Poll, LoopOK, Covered, peerVars
  <2>2. PipesOK'
    BY <1>1, SameRequests
       DEF Poll, PipesOK, BackOK, ToWorkerOK, FrontOK, ToClientOK, peerVars
  <2>3. QED
    BY <2>1, <2>2
<1>2. CASE BackIdle
  <2>1. LoopOK'
    BY <1>2 DEF BackIdle, LoopOK, peerVars
  <2>2. PipesOK'
    BY <1>2, SameRequests
       DEF BackIdle, PipesOK, BackOK, ToWorkerOK, FrontOK, ToClientOK, peerVars
  <2>3. QED
    BY <2>1, <2>2
<1>3. ASSUME NEW w \in Workers, BackHeartbeat(w)
      PROVE  TypeInv'
  <2>0. clock \in Int
    BY ServerAssumption DEF LoopOK
  <2>1. vec_work_' \subseteq Entry(Workers)
    BY <1>3, <2>0, MakeNewWorkerProperties DEF BackHeartbeat, LoopOK
  <2>2. LoopOK'
    BY <1>3, <2>1 DEF BackHeartbeat, ReceiveBack, LoopOK, peerVars
  <2>3. sent' = sent
    BY <1>3 DEF BackHeartbeat, peerVars
  <2>4. BackOK'
    BY <1>3, <2>3, ReceiveBackType DEF BackHeartbeat
  <2>5. ToWorkerOK' /\ FrontOK' /\ ToClientOK'
    BY <1>3, <2>3, SameRequests
       DEF BackHeartbeat, PipesOK, ToWorkerOK, FrontOK, ToClientOK
  <2>6. QED
    BY <2>2, <2>4, <2>5 DEF PipesOK
<1>4. ASSUME NEW w \in Workers, BackOther(w)
      PROVE  TypeInv'
  <2>1. LoopOK'
    BY <1>4 DEF BackOther, ReceiveBack, LoopOK, peerVars
  <2>2. sent' = sent
    BY <1>4 DEF BackOther, peerVars
  <2>3. BackOK'
    BY <1>4, <2>2, ReceiveBackType DEF BackOther
  <2>4. ToWorkerOK' /\ FrontOK' /\ ToClientOK'
    BY <1>4, <2>2, SameRequests
       DEF BackOther, PipesOK, ToWorkerOK, FrontOK, ToClientOK
  <2>5. QED
    BY <2>1, <2>3, <2>4 DEF PipesOK
<1>5. ASSUME NEW w \in Workers, BackReply(w)
      PROVE  TypeInv'
  <2>1. LoopOK'
    BY <1>5 DEF BackReply, ReceiveBack, LoopOK, peerVars
  <2>2. sent' = sent
    BY <1>5 DEF BackReply, peerVars
  <2>3. BackOK'
    BY <1>5, <2>2, ReceiveBackType DEF BackReply
  <2>4. \E r \in sent : BackBody(w) = Envelope(r)
    BY <1>5, BackMessage DEF BackReply, ReceiveBack
  <2>5. ToClientOK'
    BY <1>5, <2>2, <2>4, SendToClientType DEF BackReply
  <2>6. ToWorkerOK' /\ FrontOK'
    BY <1>5, <2>2, SameRequests DEF BackReply, PipesOK, ToWorkerOK, FrontOK
  <2>7. QED
    BY <2>1, <2>3, <2>5, <2>6 DEF PipesOK
<1>6. CASE FrontIdle
  <2>1. LoopOK'
    BY <1>6 DEF FrontIdle, LoopOK, peerVars
  <2>2. PipesOK'
    BY <1>6, SameRequests
       DEF FrontIdle, PipesOK, BackOK, ToWorkerOK, FrontOK, ToClientOK, peerVars
  <2>3. QED
    BY <2>1, <2>2
<1>7. ASSUME NEW c \in Clients, FrontRefuse(c)
      PROVE  TypeInv'
  <2>1. LoopOK'
    BY <1>7 DEF FrontRefuse, ReceiveFront, LoopOK, peerVars
  <2>2. sent' = sent
    BY <1>7 DEF FrontRefuse, peerVars
  <2>3. FrontOK'
    BY <1>7, <2>2, ReceiveFrontType DEF FrontRefuse
  <2>4. ToClientOK'
    BY <1>7, <2>2, OwnMessages, SendToClientType DEF FrontRefuse
  <2>5. BackOK' /\ ToWorkerOK'
    BY <1>7, <2>2, SameRequests DEF FrontRefuse, PipesOK, BackOK, ToWorkerOK
  <2>6. QED
    BY <2>1, <2>3, <2>4, <2>5 DEF PipesOK
<1>8. ASSUME NEW c \in Clients, NEW w \in Workers, FrontForward(c, w)
      PROVE  TypeInv'
  <2>1. LoopOK'
    BY <1>8 DEF FrontForward, ReceiveFront, LoopOK, peerVars
  <2>2. sent' = sent
    BY <1>8 DEF FrontForward, peerVars
  <2>3. FrontOK'
    BY <1>8, <2>2, ReceiveFrontType DEF FrontForward
  <2>4. \E r \in sent : Forwarded(c, w) = pushmem(w, Envelope(r))
    BY <1>8, FrontMessage DEF FrontForward, ReceiveFront, Forwarded
  <2>5. ToWorkerOK'
    BY <1>8, <2>2, <2>4, SameRequests, SendToWorkerType
       DEF FrontForward, ToWorkerOK
  <2>6. BackOK' /\ ToClientOK'
    BY <1>8, <2>2, SameRequests DEF FrontForward, PipesOK, BackOK, ToClientOK
  <2>7. QED
    BY <2>1, <2>3, <2>5, <2>6 DEF PipesOK
<1>9. CASE NotDue
  <2>1. LoopOK'
    BY <1>9 DEF NotDue, LoopOK, peerVars
  <2>2. PipesOK'
    BY <1>9, SameRequests
       DEF NotDue, PipesOK, BackOK, ToWorkerOK, FrontOK, ToClientOK, peerVars
  <2>3. QED
    BY <2>1, <2>2
<1>10. CASE SendHeartbeats
  <2>1. LoopOK'
    BY <1>10 DEF SendHeartbeats, LoopOK, peerVars
  <2>2. sent' = sent
    BY <1>10 DEF SendHeartbeats, peerVars
  <2>3. ASSUME NEW w \in Workers
        PROVE  to_worker'[w] \in Seq({<<HEARTBEAT_KEY>>} \cup SentEnvelopes)
    <3>1. RouterSend(to_worker, workers_up, <<w, HEARTBEAT_KEY>>)[w]
            \in Seq({<<HEARTBEAT_KEY>>} \cup SentEnvelopes)
      BY SendToWorkerType
    <3>2. QED
      BY <1>10, <3>1 DEF SendHeartbeats, PipesOK, ToWorkerOK
  <2>4. ToWorkerOK'
    BY <1>10, <2>2, <2>3, SameRequests DEF SendHeartbeats, ToWorkerOK
  <2>5. BackOK' /\ FrontOK' /\ ToClientOK'
    BY <1>10, <2>2, SameRequests
       DEF SendHeartbeats, PipesOK, BackOK, FrontOK, ToClientOK
  <2>6. QED
    BY <2>1, <2>4, <2>5 DEF PipesOK
<1>11. CASE Rearm
  <2>1. LoopOK'
    BY <1>11, HeartbeatAssumption DEF Rearm, LoopOK, peerVars
  <2>2. PipesOK'
    BY <1>11, SameRequests
       DEF Rearm, PipesOK, BackOK, ToWorkerOK, FrontOK, ToClientOK, peerVars
  <2>3. QED
    BY <2>1, <2>2
<1>12. CASE Check
  <2>1. vec_work_' \subseteq Entry(Workers)
    BY <1>12 DEF Check, CheckWorker, LoopOK
  <2>2. LoopOK'
    BY <1>12, <2>1 DEF Check, LoopOK, peerVars
  <2>3. PipesOK'
    BY <1>12, SameRequests
       DEF Check, PipesOK, BackOK, ToWorkerOK, FrontOK, ToClientOK, peerVars
  <2>4. QED
    BY <2>2, <2>3
<1>13. QED
  BY <1>1, <1>2, <1>3, <1>4, <1>5, <1>6, <1>7, <1>8, <1>9, <1>10, <1>11, <1>12
     DEF Server, Back, Front, Beat

\* An exception leaves empty pipes.
LEMMA ThrowTypeInv == TypeInv /\ Throw => TypeInv'
<1> SUFFICES ASSUME TypeInv, Throw PROVE TypeInv'
  OBVIOUS
<1>1. \A S : << >> \in Seq(S)
  OBVIOUS
<1>2. LoopOK'
  BY DEF TypeInv, LoopOK, Throw
<1>3. PipesOK'
  BY <1>1 DEF Throw, PipesOK, BackOK, ToWorkerOK, FrontOK, ToClientOK
<1>4. QED
  BY <1>2, <1>3 DEF TypeInv

\* The passing of time and a dead process keep the types.
LEMMA OutsideTypeInv == TypeInv /\ (Tick \/ StepClock \/ Gone) => TypeInv'
<1> SUFFICES ASSUME TypeInv, Tick \/ StepClock \/ Gone PROVE TypeInv'
  OBVIOUS
<1> USE DEF TypeInv
<1>1. LoopOK'
  BY ServerAssumption
     DEF Tick, StepClock, Gone, LoopOK, vars, loopVars, peerVars
<1>2. PipesOK'
  <2>1. /\ sent' = sent
        /\ back_q' = back_q /\ front_q' = front_q
        /\ to_worker' = to_worker /\ to_client' = to_client
    BY DEF Tick, StepClock, Gone, vars, peerVars
  <2>2. QED
    BY <2>1, SameRequests DEF PipesOK, BackOK, ToWorkerOK, FrontOK, ToClientOK
<1>3. QED
  BY <1>1, <1>2

\* A client that sends adds a message of its own; that more has been sent
\* takes nothing away from what may be in the other pipes.
LEMMA ClientSendTypeInv ==
    ASSUME TypeInv, NEW r \in Requests, ClientSend(r)
    PROVE  TypeInv'
<1> USE DEF TypeInv
<1>1. LoopOK'
  BY DEF ClientSend, LoopOK, loopVars
<1>2. /\ SentEnvelopes \subseteq SentEnvelopes'
      /\ \A c \in Clients : SentBy(c) \subseteq SentBy(c)'
  BY DEF ClientSend, SentEnvelopes, SentBy
<1>3. FrontOK'
  <2>1. RequestBody(r) \in FromClient /\ Owner[r] \in Clients
    BY EnvelopeProperties
  <2>2. front_q' = [front_q EXCEPT ![Owner[r]] = Append(@, RequestBody(r))]
    BY DEF ClientSend
  <2>3. front_q' \in [Clients -> Seq(FromClient)]
    BY <2>1, <2>2 DEF PipesOK, FrontOK
  <2>4. ASSUME NEW c \in Clients
        PROVE  front_q'[c] \in Seq(SentBy(c)')
    <3>1. front_q[c] \in Seq(SentBy(c)')
      BY <1>2, SeqMonotonic DEF PipesOK, FrontOK
    <3>2. CASE c = Owner[r]
      <4>1. RequestBody(r) \in SentBy(c)'
        BY <3>2 DEF ClientSend, SentBy
      <4>2. front_q'[c] = Append(front_q[c], RequestBody(r))
        BY <2>2, <3>2 DEF PipesOK, FrontOK
      <4>3. QED
        BY <3>1, <4>1, <4>2
    <3>3. CASE c # Owner[r]
      BY <2>2, <3>1, <3>3 DEF PipesOK, FrontOK
    <3>4. QED
      BY <3>2, <3>3
  <2>5. QED
    BY <2>3, <2>4 DEF FrontOK
<1>4. BackOK'
  <2>1. \A w \in Workers :
          back_q[w] \in Seq({<<HEARTBEAT_KEY>>, <<OtherText>>} \cup SentEnvelopes')
    BY <1>2, SeqMonotonic DEF PipesOK, BackOK
  <2>2. QED
    BY <2>1 DEF ClientSend, PipesOK, BackOK
<1>5. ToWorkerOK'
  <2>1. \A w \in Workers :
          to_worker[w] \in Seq({<<HEARTBEAT_KEY>>} \cup SentEnvelopes')
    BY <1>2, SeqMonotonic DEF PipesOK, ToWorkerOK
  <2>2. QED
    BY <2>1 DEF ClientSend, PipesOK, ToWorkerOK
<1>6. ToClientOK'
  <2>1. \A c \in Clients :
          to_client[c] \in Seq(SentBy(c)' \cup {NoWorkerReply})
    BY <1>2, SeqMonotonic DEF PipesOK, ToClientOK
  <2>2. QED
    BY <2>1 DEF ClientSend, PipesOK, ToClientOK
<1>7. QED
  BY <1>1, <1>3, <1>4, <1>5, <1>6 DEF PipesOK

\* The other steps of clients and workers.
LEMMA PeersTypeInv == TypeInv /\ Peers => TypeInv'
<1> SUFFICES ASSUME TypeInv, Peers PROVE TypeInv'
  OBVIOUS
<1> USE DEF TypeInv
<1>1. ASSUME NEW r \in Requests, ClientSend(r)
      PROVE  TypeInv'
  BY <1>1, ClientSendTypeInv
<1>2. ASSUME NEW c \in Clients, ClientRecv(c) \/ ClientDown(c)
      PROVE  TypeInv'
  <2>1. LoopOK'
    BY <1>2 DEF ClientRecv, ClientDown, LoopOK, loopVars, peerVars
  <2>2. sent' = sent
    BY <1>2 DEF ClientRecv, ClientDown, peerVars
  <2>3. BackOK' /\ ToWorkerOK' /\ FrontOK'
    BY <1>2, <2>2, SameRequests
       DEF ClientRecv, ClientDown, PipesOK, BackOK, ToWorkerOK, FrontOK
  <2>4. to_client' \in [Clients -> Seq(ToClient)]
    <3>1. CASE ClientRecv(c)
      BY <3>1, TakeType DEF ClientRecv, PipesOK, ToClientOK
    <3>2. CASE ClientDown(c)
      BY <3>2, ClearType DEF ClientDown, PipesOK, ToClientOK
    <3>3. QED
      BY <1>2, <3>1, <3>2
  <2>5. ASSUME NEW d \in Clients
        PROVE  to_client'[d] \in Seq(SentBy(d) \cup {NoWorkerReply})
    <3>1. to_client[d] \in Seq(SentBy(d) \cup {NoWorkerReply})
      BY DEF PipesOK, ToClientOK
    <3>2. CASE ClientRecv(c)
      <4>1. to_client'[d] = IF d = c THEN Tail(to_client[d]) ELSE to_client[d]
        BY <3>2 DEF ClientRecv, PipesOK, ToClientOK
      <4>2. d = c => to_client[d] # << >>
        BY <3>2 DEF ClientRecv
      <4>3. QED
        BY <3>1, <4>1, <4>2, HeadTailProperties
    <3>3. CASE ClientDown(c)
      <4>1. to_client'[d] = IF d = c THEN << >> ELSE to_client[d]
        BY <3>3 DEF ClientDown, PipesOK, ToClientOK
      <4>2. QED
        BY <3>1, <4>1
    <3>4. QED
      BY <1>2, <3>2, <3>3
  <2>6. ToClientOK'
    BY <2>2, <2>4, <2>5, SameRequests DEF ToClientOK
  <2>7. QED
    BY <2>1, <2>3, <2>6 DEF PipesOK
<1>3. ASSUME NEW w \in Workers, WorkerBeat(w) \/ WorkerOther(w)
      PROVE  TypeInv'
  <2>1. LoopOK'
    BY <1>3 DEF WorkerBeat, WorkerOther, LoopOK, loopVars, peerVars
  <2>2. sent' = sent
    BY <1>3 DEF WorkerBeat, WorkerOther, peerVars
  <2>3. BackOK'
    <3>1. PICK m \in {<<HEARTBEAT_KEY>>, <<OtherText>>} : WorkerSend(w, m)
      BY <1>3 DEF WorkerBeat, WorkerOther
    <3>2. QED
      BY <2>2, <3>1, SameRequests, PutType DEF WorkerSend, PipesOK, BackOK
  <2>4. ToWorkerOK' /\ FrontOK' /\ ToClientOK'
    BY <1>3, <2>2, SameRequests
       DEF WorkerBeat, WorkerOther, PipesOK, ToWorkerOK, FrontOK, ToClientOK
  <2>5. QED
    BY <2>1, <2>3, <2>4 DEF PipesOK
<1>4. ASSUME NEW w \in Workers, WorkerServe(w)
      PROVE  TypeInv'
  <2>1. LoopOK'
    BY <1>4 DEF WorkerServe, LoopOK, loopVars, peerVars
  <2>2. sent' = sent
    BY <1>4 DEF WorkerServe, peerVars
  <2>3. /\ Head(to_worker[w]) \in {<<HEARTBEAT_KEY>>} \cup SentEnvelopes
        /\ to_worker' \in [Workers -> Seq({<<HEARTBEAT_KEY>>} \cup SentEnvelopes)]
    BY <1>4, TakeType DEF WorkerServe, PipesOK, ToWorkerOK
  <2>4. ToWorkerOK'
    BY <2>2, <2>3, SameRequests DEF ToWorkerOK
  <2>5. BackOK'
    <3>1. CASE Head(to_worker[w]) = <<HEARTBEAT_KEY>>
      BY <1>4, <2>2, <3>1, SameRequests DEF WorkerServe, PipesOK, BackOK
    <3>2. CASE Head(to_worker[w]) # <<HEARTBEAT_KEY>>
      <4>1. WorkerSend(w, Head(to_worker[w])) /\ Head(to_worker[w]) \in SentEnvelopes
        BY <1>4, <2>3, <3>2 DEF WorkerServe
      <4>2. QED
        BY <2>2, <4>1, SameRequests, PutType DEF WorkerSend, PipesOK, BackOK
    <3>3. QED
      BY <3>1, <3>2
  <2>6. FrontOK' /\ ToClientOK'
    BY <1>4, <2>2, SameRequests DEF WorkerServe, PipesOK, FrontOK, ToClientOK
  <2>7. QED
    BY <2>1, <2>4, <2>5, <2>6 DEF PipesOK
<1>5. ASSUME NEW w \in Workers, WorkerDown(w) \/ WorkerUp(w)
      PROVE  TypeInv'
  <2>1. LoopOK'
    BY <1>5 DEF WorkerDown, WorkerUp, LoopOK, loopVars
  <2>2. sent' = sent
    BY <1>5 DEF WorkerDown, WorkerUp
  <2>3. ToWorkerOK'
    <3>1. CASE WorkerDown(w)
      BY <2>2, <3>1, SameRequests, ClearType DEF WorkerDown, PipesOK, ToWorkerOK
    <3>2. CASE WorkerUp(w)
      BY <2>2, <3>2, SameRequests DEF WorkerUp, PipesOK, ToWorkerOK
    <3>3. QED
      BY <1>5, <3>1, <3>2
  <2>4. BackOK' /\ FrontOK' /\ ToClientOK'
    BY <1>5, <2>2, SameRequests
       DEF WorkerDown, WorkerUp, PipesOK, BackOK, FrontOK, ToClientOK
  <2>5. QED
    BY <2>1, <2>3, <2>4 DEF PipesOK
<1>6. QED
  BY <1>1, <1>2, <1>3, <1>4, <1>5 DEF Peers

\* Every step keeps the types and whose messages the pipes hold.
LEMMA NextTypeInv == TypeInv /\ [Next]_vars => TypeInv'
<1>1. TypeInv /\ UNCHANGED vars => TypeInv'
  <2> SUFFICES ASSUME TypeInv, UNCHANGED vars PROVE TypeInv'
    OBVIOUS
  <2> USE DEF TypeInv
  <2>1. LoopOK'
    BY DEF LoopOK, vars, loopVars, peerVars
  <2>2. PipesOK'
    BY SameRequests
       DEF PipesOK, BackOK, ToWorkerOK, FrontOK, ToClientOK, vars, peerVars
  <2>3. QED
    BY <2>1, <2>2
<1>2. QED
  BY <1>1, ServerTypeInv, ThrowTypeInv, OutsideTypeInv, PeersTypeInv DEF Next, Live

\* The invariant of all states, for any peers and any number of requests.
THEOREM Typed == Spec => []TypeInv
  BY InitTypeInv, NextTypeInv, PTL DEF Spec

-----------------------------------------------------------------------------
(* What the typing of the pipes shows *)

\* The type invariant TypeOK of ZmqServer holds in every state: the proxy
\* only ever handles and sends the messages it is meant to.
THEOREM TypeCorrect == Spec => []TypeOK
<1>1. TypeInv => TypeOK
  <2> SUFFICES ASSUME TypeInv PROVE TypeOK
    OBVIOUS
  <2>1. SentEnvelopes \subseteq Addressed
    BY EnvelopeProperties DEF TypeInv, LoopOK, SentEnvelopes
  <2>2. back_q \in [Workers -> Seq(FromWorker)]
    <3>1. \A w \in Workers : back_q[w] \in Seq(FromWorker)
      BY <2>1, SeqMonotonic DEF TypeInv, PipesOK, BackOK, FromWorker
    <3>2. QED
      BY <3>1 DEF TypeInv, PipesOK, BackOK
  <2>3. to_worker \in [Workers -> Seq(ToWorker)]
    <3>1. \A w \in Workers : to_worker[w] \in Seq(ToWorker)
      BY <2>1, SeqMonotonic DEF TypeInv, PipesOK, ToWorkerOK, ToWorker
    <3>2. QED
      BY <3>1 DEF TypeInv, PipesOK, ToWorkerOK
  <2>4. QED
    BY <2>2, <2>3 DEF TypeInv, LoopOK, PipesOK, FrontOK, ToClientOK, TypeOK
<1>2. QED
  BY <1>1, Typed, PTL

\* A client only ever gets the refusal or the answer to a request of its own,
\* in the envelope its socket uses.
THEOREM AnswersReachTheirClient == Spec => []RightClient
<1>1. TypeInv => RightClient
  <2> SUFFICES ASSUME TypeInv, NEW c \in Clients, NEW i \in DOMAIN to_client[c]
               PROVE  \/ to_client[c][i] = NoWorkerReply
                      \/ \E r \in sent : /\ Owner[r] = c
                                         /\ to_client[c][i] = RequestBody(r)
    BY DEF RightClient
  <2>1. to_client[c] \in Seq(SentBy(c) \cup {NoWorkerReply})
    BY DEF TypeInv, PipesOK, ToClientOK
  <2>2. to_client[c][i] \in SentBy(c) \cup {NoWorkerReply}
    BY <2>1, LenProperties, ElementOfSeq
  <2>3. QED
    BY <2>2 DEF SentBy
<1>2. QED
  BY <1>1, Typed, PTL

-----------------------------------------------------------------------------
(* The table *)

\* Steps that do not touch the table are all but the handling of a heartbeat
\* and CheckWorker.
LEMMA TableSteps ==
    ASSUME [Next]_vars
    PROVE  \/ vec_work_' = vec_work_
           \/ \E w \in Workers : BackHeartbeat(w)
           \/ Check
<1>1. CASE Server
  BY <1>1 DEF Server, Back, Front, Beat, Poll, BackIdle, BackOther, BackReply,
              FrontIdle, FrontRefuse, FrontForward, NotDue, SendHeartbeats, Rearm
<1>2. CASE Throw \/ Live \/ Gone \/ UNCHANGED vars
  BY <1>2 DEF Throw, Live, Gone, Tick, StepClock, Peers, ClientSend, ClientRecv,
              ClientDown, WorkerBeat, WorkerOther, WorkerServe, WorkerDown,
              WorkerUp, vars, loopVars
<1>3. QED
  BY <1>1, <1>2 DEF Next

\* A worker never has two entries, whatever is registered and removed in
\* whatever order.
THEOREM OneEntryPerWorker == Spec => []UniqueIdentity
<1>1. Init => UniqueIdentity
  BY DEF Init, UniqueIdentity
<1>2. TypeInv /\ UniqueIdentity /\ [Next]_vars => UniqueIdentity'
  <2> SUFFICES ASSUME TypeInv, UniqueIdentity, [Next]_vars
               PROVE  UniqueIdentity'
    OBVIOUS
  <2>1. CASE vec_work_' = vec_work_
    BY <2>1 DEF UniqueIdentity
  <2>2. ASSUME NEW w \in Workers, BackHeartbeat(w)
        PROVE  UniqueIdentity'
    <3>1. clock \in Int /\ vec_work_ \subseteq Entry(Workers)
      BY ServerAssumption DEF TypeInv, LoopOK
    <3>2. OneEntryEach(MakeNewWorker(vec_work_, w, clock))
      BY <3>1, MakeNewWorkerProperties DEF UniqueIdentity, OneEntryEach
    <3>3. QED
      BY <2>2, <3>2 DEF BackHeartbeat, UniqueIdentity, OneEntryEach
  <2>3. CASE Check
    BY <2>3 DEF Check, CheckWorker, UniqueIdentity
  <2>4. QED
    BY <2>1, <2>2, <2>3, TableSteps
<1>3. QED
  BY <1>1, <1>2, Typed, PTL DEF Spec

\* A single frame from a worker is one of the two it sends by itself.
LEMMA SingleFrame ==
    ASSUME TypeInv, NEW w \in Workers, back_q[w] # << >>, size(BackBody(w)) = 1
    PROVE  \E k \in {HEARTBEAT_KEY, OtherText} :
              Head(back_q[w]) = <<k>> /\ BackBody(w) = <<k>>
<1>1. Head(back_q[w]) \in {<<HEARTBEAT_KEY>>, <<OtherText>>} \cup SentEnvelopes
  BY TakeType DEF TypeInv, PipesOK, BackOK
<1>2. BackBody(w) = Head(back_q[w])
  BY BackMessage
<1>3. \A r \in sent : size(Envelope(r)) # 1
  BY EnvelopeProperties DEF TypeInv, LoopOK
<1>4. QED
  BY <1>1, <1>2, <1>3 DEF SentEnvelopes

\* The table only changes for the better by a heartbeat of the very worker.
THEOREM RefreshedByHeartbeats == Spec => OnlyHeartbeatsRefresh
<1> DEFINE FromHeartbeat ==
             \A e \in vec_work_' \ vec_work_ :
                /\ back_q[e.identity] # << >>
                /\ Head(back_q[e.identity]) = <<HEARTBEAT_KEY>>
                /\ back_q'[e.identity] = Tail(back_q[e.identity])
<1>1. TypeInv /\ [Next]_vars => FromHeartbeat
  <2> SUFFICES ASSUME TypeInv, [Next]_vars PROVE FromHeartbeat
    OBVIOUS
  <2>1. CASE vec_work_' \subseteq vec_work_
    BY <2>1
  <2>2. ASSUME NEW w \in Workers, BackHeartbeat(w)
        PROVE  FromHeartbeat
    <3>1. clock \in Int /\ vec_work_ \subseteq Entry(Workers)
      BY ServerAssumption DEF TypeInv, LoopOK
    <3>2. \A e \in vec_work_' \ vec_work_ : e.identity = w
      BY <2>2, <3>1, MakeNewWorkerProperties DEF BackHeartbeat
    <3>3. PICK k \in {HEARTBEAT_KEY, OtherText} :
             Head(back_q[w]) = <<k>> /\ BackBody(w) = <<k>>
      BY <2>2, SingleFrame DEF BackHeartbeat, ReceiveBack, IsHeartbeat
    <3>4. back(<<k>>) = k
      BY DEF back
    <3>5. k = HEARTBEAT_KEY
      BY <2>2, <3>3, <3>4 DEF BackHeartbeat, IsHeartbeat
    <3>6. back_q[w] # << >> /\ back_q'[w] = Tail(back_q[w])
      BY <2>2 DEF BackHeartbeat, ReceiveBack, TypeInv, PipesOK, BackOK
    <3>7. QED
      BY <3>2, <3>3, <3>5, <3>6
  <2>3. Check => vec_work_' \subseteq vec_work_
    BY DEF Check, CheckWorker
  <2>4. QED
    BY <2>1, <2>2, <2>3, TableSteps
<1>2. QED
  BY <1>1, Typed, PTL DEF Spec, OnlyHeartbeatsRefresh

\* With a clock that is never set back CheckWorker never read a later time
\* than it is now, and every expiry lies between what it read and a lifetime
\* from now.
TimesInv ==
    ~ ClockMayStep =>
        /\ checked <= clock
        /\ \A e \in vec_work_ : checked <= e.expiry /\ e.expiry <= clock + Lifetime

\* Every step keeps expiries between the last check and a lifetime from now.
LEMMA NextTimesInv == TypeInv /\ TimesInv /\ [Next]_vars => TimesInv'
<1> SUFFICES ASSUME TypeInv, TimesInv, [Next]_vars, ~ ClockMayStep
             PROVE  /\ checked' <= clock'
                    /\ \A e \in vec_work_' : /\ checked' <= e.expiry
                                             /\ e.expiry <= clock' + Lifetime
  BY DEF TimesInv
<1>0. /\ clock \in Int /\ clock' \in Int /\ checked \in Int
      /\ Lifetime \in Nat
      /\ vec_work_ \subseteq Entry(Workers)
  <2>1. TypeInv'
    BY NextTypeInv
  <2>2. QED
    BY <2>1, LifetimeType, ServerAssumption DEF TypeInv, LoopOK
<1>1. clock <= clock'
  <2>1. CASE Tick
    BY <1>0, <2>1 DEF Tick
  <2>2. Tick \/ clock' = clock
    BY DEF Next, Server, Back, Front, Beat, Poll, BackIdle, BackHeartbeat,
         BackOther, BackReply, FrontIdle, FrontRefuse, FrontForward, NotDue,
         SendHeartbeats, Rearm, Check, Throw, Live, Gone, StepClock, Peers,
         ClientSend, ClientRecv, ClientDown, WorkerBeat, WorkerOther, WorkerServe,
         WorkerDown, WorkerUp, vars
  <2>3. QED
    BY <1>0, <2>1, <2>2
<1>2. CASE vec_work_' = vec_work_ /\ checked' = checked
  <2>1. \A e \in vec_work_ : e.expiry \in Int
    BY <1>0 DEF Entry
  <2>2. QED
    BY <1>0, <1>1, <1>2, <2>1 DEF TimesInv
<1>3. ASSUME NEW w \in Workers, BackHeartbeat(w)
      PROVE  /\ checked' <= clock'
             /\ \A e \in vec_work_' : /\ checked' <= e.expiry
                                      /\ e.expiry <= clock' + Lifetime
  <2>1. /\ checked' = checked /\ clock' = clock
        /\ vec_work_' = MakeNewWorker(vec_work_, w, clock)
    BY <1>3 DEF BackHeartbeat
  <2>2. \A e \in vec_work_' :
           IF e.identity = w THEN e.expiry = clock + Lifetime ELSE e \in vec_work_
    BY <1>0, <2>1, MakeNewWorkerProperties
  <2>3. QED
    BY <1>0, <2>1, <2>2 DEF TimesInv
<1>4. CASE Check
  <2>1. /\ checked' = clock /\ clock' = clock
        /\ vec_work_' = CheckWorker(vec_work_, clock)
    BY <1>4 DEF Check
  <2>2. /\ vec_work_' \subseteq vec_work_
        /\ \A e \in vec_work_' : clock <= e.expiry
    BY <1>0, <2>1, CheckWorkerProperties DEF Entry
  <2>3. QED
    BY <1>0, <2>1, <2>2 DEF TimesInv
<1>5. vec_work_' # vec_work_ \/ checked' # checked
        => Check \/ \E w \in Workers : BackHeartbeat(w)
  <2>1. checked' # checked => Check
    BY DEF Next, Server, Back, Front, Beat, Poll, BackIdle, BackHeartbeat,
         BackOther, BackReply, FrontIdle, FrontRefuse, FrontForward, NotDue,
         SendHeartbeats, Rearm, Throw, Live, Gone, Tick, StepClock, Peers,
         ClientSend, ClientRecv, ClientDown, WorkerBeat, WorkerOther, WorkerServe,
         WorkerDown, WorkerUp, vars, loopVars
  <2>2. QED
    BY <2>1, TableSteps
<1>6. QED
  BY <1>2, <1>3, <1>4, <1>5

\* A worker that a request is handed to had not expired when CheckWorker last
\* ran, and its heartbeat is not older than the table says.
THEOREM ExpiriesInWindow == Spec => []ExpiryWindow
<1>1. Init => TimesInv
  BY ServerAssumption DEF Init, TimesInv
<1>2. TimesInv => ExpiryWindow
  BY DEF TimesInv, ExpiryWindow
<1>3. QED
  BY <1>1, <1>2, NextTimesInv, Typed, PTL DEF Spec

-----------------------------------------------------------------------------
(* The poll items *)

\* What the last poll() reported still holds when the loop acts on it: peers
\* only add to what the sockets have to read, and the loop reads each socket
\* once.  A poll() that covered the front socket saw a worker in the table,
\* and none is removed before the front socket is read.
FlagsInv ==
    /\ pc = "back" /\ revents.back => Readable(back_q)
    /\ pc \in {"back", "front"} =>
         /\ nitems \in {1, 2}
         /\ nitems = 2 => vec_work_ # {}
         /\ nitems = 2 /\ revents.front => Readable(front_q)

\* Steps outside the loop leave the loop's variables alone and empty no queue
\* that the proxy reads.
LEMMA OutsideKeepsReadable ==
    ASSUME TypeInv, Tick \/ StepClock \/ Peers
    PROVE  /\ UNCHANGED loopVars
           /\ Readable(back_q) => Readable(back_q')
           /\ Readable(front_q) => Readable(front_q')
<1>1. UNCHANGED loopVars
  BY DEF Tick, StepClock, Peers, ClientSend, ClientRecv, ClientDown, WorkerBeat,
         WorkerOther, WorkerServe, WorkerDown, WorkerUp
<1>2. ASSUME NEW w \in Workers, NEW m, WorkerSend(w, m)
      PROVE  Readable(back_q) => Readable(back_q')
  <2>1. \A v \in Workers : back_q[v] # << >> => back_q'[v] # << >>
    BY <1>2 DEF WorkerSend, TypeInv, PipesOK, BackOK
  <2>2. DOMAIN back_q = Workers /\ DOMAIN back_q' = Workers
    BY <1>2 DEF WorkerSend, TypeInv, PipesOK, BackOK
  <2>3. QED
    BY <2>1, <2>2 DEF Readable
<1>3. Readable(back_q) => Readable(back_q')
  <2>1. \/ back_q' = back_q
        \/ \E w \in Workers :
              \E m \in {<<HEARTBEAT_KEY>>, <<OtherText>>, Head(to_worker[w])} :
                 WorkerSend(w, m)
    BY DEF Tick, StepClock, Peers, ClientSend, ClientRecv, ClientDown, WorkerBeat,
           WorkerOther, WorkerServe, WorkerDown, WorkerUp
  <2>2. QED
    BY <1>2, <2>1
<1>4. Readable(front_q) => Readable(front_q')
  <2>1. CASE front_q' = front_q
    BY <2>1
  <2>2. ASSUME NEW r \in Requests, ClientSend(r)
        PROVE  Readable(front_q')
    <3>1. Owner[r] \in Clients
      BY ServerAssumption
    <3>2. front_q'[Owner[r]] # << >> /\ DOMAIN front_q' = Clients
      BY <2>2, <3>1 DEF ClientSend, TypeInv, PipesOK, FrontOK
    <3>3. QED
      BY <3>1, <3>2 DEF Readable
  <2>3. front_q' = front_q \/ \E r \in Requests : ClientSend(r)
    BY DEF Tick, StepClock, Peers, ClientRecv, ClientDown, WorkerBeat,
           WorkerOther, WorkerServe, WorkerDown, WorkerUp
  <2>4. QED
    BY <2>1, <2>2, <2>3
<1>5. QED
  BY <1>1, <1>3, <1>4

\* Every step keeps what poll() reported true until it is used.
LEMMA NextFlagsInv == TypeInv /\ FlagsInv /\ [Next]_vars => FlagsInv'
<1> SUFFICES ASSUME TypeInv, FlagsInv, [Next]_vars PROVE FlagsInv'
  OBVIOUS
<1>1. CASE Poll
  <2>1. /\ pc' = "back" /\ back_q' = back_q /\ front_q' = front_q
        /\ vec_work_' = vec_work_ /\ nitems' = Covered
        /\ revents'.back = Readable(back_q)
        /\ Covered = 2 => revents'.front = Readable(front_q)
    BY <1>1 DEF Poll
  <2>2. Covered \in {1, 2} /\ (Covered = 2 => vec_work_ # {})
    BY DEF Covered
  <2>3. Readable(back_q') = Readable(back_q) /\ Readable(front_q') = Readable(front_q)
    BY <2>1
  <2>4. QED
    BY <2>1, <2>2, <2>3 DEF FlagsInv
<1>2. CASE BackIdle
  BY <1>2 DEF BackIdle, FlagsInv
<1>3. ASSUME NEW w \in Workers, BackHeartbeat(w)
      PROVE  FlagsInv'
  <2>1. vec_work_' # {}
    BY <1>3, MakeNewWorkerNotEmpty DEF BackHeartbeat
  <2>2. QED
    BY <1>3, <2>1 DEF BackHeartbeat, ReceiveBack, FlagsInv
<1>4. ASSUME NEW w \in Workers, BackOther(w) \/ BackReply(w)
      PROVE  FlagsInv'
  BY <1>4 DEF BackOther, BackReply, ReceiveBack, FlagsInv
<1>5. CASE pc' \notin {"back", "front"}
  BY <1>5 DEF FlagsInv
<1>6. CASE Tick \/ StepClock \/ Peers
  BY <1>6, OutsideKeepsReadable DEF loopVars, FlagsInv
<1>7. CASE UNCHANGED vars
  BY <1>7 DEF vars, loopVars, FlagsInv
<1>8. Front \/ Beat \/ Check \/ Throw => pc' \notin {"back", "front"}
  BY DEF Front, Beat, FrontIdle, FrontRefuse, FrontForward, ReceiveFront, NotDue,
         SendHeartbeats, Rearm, Check, Throw
<1>9. QED
  BY <1>1, <1>2, <1>3, <1>4, <1>5, <1>6, <1>7, <1>8
     DEF Next, Server, Back, Live, Gone

\* So it always holds.
LEMMA AlwaysFlagsInv == Spec => []FlagsInv
<1>1. Init => FlagsInv
  BY DEF Init, FlagsInv
<1>2. QED
  BY <1>1, NextFlagsInv, Typed, PTL DEF Spec

\* A receive on a socket that the last poll() covered and reported readable
\* does not block, whatever the peers do in between.
THEOREM FreshReceivesReturn == Spec => []FreshReceiveNeverBlocks
<1>1. FlagsInv => FreshReceiveNeverBlocks
  BY DEF FlagsInv, FreshReceiveNeverBlocks
<1>2. QED
  BY <1>1, AlwaysFlagsInv, PTL

\* "not have woker!" is only ever sent on a POLLIN that the last poll() did
\* not report.
THEOREM RefusalsAreStale == Spec => []RefusalMeansStaleFlag
<1>1. FlagsInv => RefusalMeansStaleFlag
  BY GetWorkerEmpty DEF FlagsInv, RefusalMeansStaleFlag
<1>2. QED
  BY <1>1, AlwaysFlagsInv, PTL

-----------------------------------------------------------------------------
(* Requests in pipes *)

\* What a step does to a pipe: its oldest message is taken, a message is
\* added to it or to some of the pipes, all its messages are lost.
Take(pipes, p, rest)   == pipes[p] # << >> /\ rest = [pipes EXCEPT ![p] = Tail(@)]
Put(pipes, p, m, more) == more = [pipes EXCEPT ![p] = Append(@, m)]
PutSome(pipes, m, more) ==
    /\ DOMAIN more = DOMAIN pipes
    /\ \A p \in DOMAIN pipes :
          more[p] = pipes[p] \/ more[p] = Append(pipes[p], m)
Clear(pipes, p, less)  == less = [pipes EXCEPT ![p] = << >>]

\* At most one message of a socket's pipes carries request r.
OneIn(pipes, r) ==
    \A p, q \in DOMAIN pipes : \A i \in DOMAIN pipes[p], j \in DOMAIN pipes[q] :
        back(pipes[p][i]) = r /\ back(pipes[q][j]) = r => p = q /\ i = j

\* Taking the oldest message of a pipe moves the others up.
LEMMA TakeFrames ==
    ASSUME NEW P, NEW M, NEW pipes \in [P -> Seq(M)], NEW p \in P,
           NEW rest, Take(pipes, p, rest)
    PROVE  /\ DOMAIN rest = P
           /\ \A q \in P \ {p} : rest[q] = pipes[q]
           /\ Len(pipes[p]) \in Nat \ {0}
           /\ Head(pipes[p]) = pipes[p][1]
           /\ DOMAIN pipes[p] = 1 .. Len(pipes[p])
           /\ DOMAIN rest[p] = 1 .. Len(pipes[p]) - 1
           /\ \A i \in 1 .. Len(pipes[p]) - 1 : rest[p][i] = pipes[p][i + 1]
<1>1. /\ DOMAIN rest = P
      /\ \A q \in P \ {p} : rest[q] = pipes[q]
      /\ rest[p] = Tail(pipes[p])
      /\ pipes[p] # << >>
  BY DEF Take
<1>2. pipes[p] \in Seq(M)
  OBVIOUS
<1>3. /\ Len(pipes[p]) \in Nat \ {0}
      /\ Tail(pipes[p]) \in Seq(M)
      /\ Len(Tail(pipes[p])) = Len(pipes[p]) - 1
      /\ \A i \in 1 .. Len(Tail(pipes[p])) : Tail(pipes[p])[i] = pipes[p][i + 1]
      /\ Head(pipes[p]) = pipes[p][1]
  BY <1>1, <1>2, HeadTailProperties, EmptySeq, LenProperties
<1>4. /\ DOMAIN pipes[p] = 1 .. Len(pipes[p])
      /\ DOMAIN Tail(pipes[p]) = 1 .. Len(Tail(pipes[p]))
  BY <1>2, <1>3, LenProperties
<1>5. QED
  BY <1>1, <1>3, <1>4

\* The one that is taken is gone, every other stays with its peer.
LEMMA TakeWhere ==
    ASSUME NEW P, NEW M, NEW pipes \in [P -> Seq(M)], NEW p \in P,
           NEW rest, Take(pipes, p, rest),
           NEW r, OneIn(pipes, r)
    PROVE  /\ OneIn(rest, r)
           /\ back(Head(pipes[p])) = r
                 => Where(pipes, r) = {p} /\ Where(rest, r) = {}
           /\ back(Head(pipes[p])) # r => Where(rest, r) = Where(pipes, r)
<1> DEFINE n == Len(pipes[p])
<1>1. /\ DOMAIN pipes = P /\ DOMAIN rest = P
      /\ \A q \in P \ {p} : rest[q] = pipes[q]
      /\ n \in Nat \ {0}
      /\ Head(pipes[p]) = pipes[p][1]
      /\ DOMAIN pipes[p] = 1 .. n
      /\ DOMAIN rest[p] = 1 .. n - 1
      /\ \A i \in 1 .. n - 1 : rest[p][i] = pipes[p][i + 1]
  BY TakeFrames
<1> HIDE DEF n
<1>2. \A i \in 1 .. n - 1 : i + 1 \in 1 .. n
  BY <1>1
<1>3. \A q \in P : \A i \in DOMAIN rest[q] : back(rest[q][i]) = r =>
         /\ q = p => i + 1 \in DOMAIN pipes[p] /\ back(pipes[p][i + 1]) = r
         /\ q # p => i \in DOMAIN pipes[q] /\ back(pipes[q][i]) = r
  BY <1>1, <1>2
<1>4. OneIn(rest, r)
  <2> SUFFICES ASSUME NEW q \in P, NEW s \in P,
                      NEW i \in DOMAIN rest[q], NEW j \in DOMAIN rest[s],
                      back(rest[q][i]) = r, back(rest[s][j]) = r
               PROVE  q = s /\ i = j
    BY <1>1 DEF OneIn
  <2>0. ASSUME NEW t \in P, NEW k \in DOMAIN rest[t], back(rest[t][k]) = r
        PROVE  \E l \in DOMAIN pipes[t] : back(pipes[t][l]) = r
    <3>1. CASE t = p
      BY <1>3, <2>0, <3>1
    <3>2. CASE t # p
      BY <1>3, <2>0, <3>2
    <3>3. QED
      BY <3>1, <3>2
  <2>1. q = s
    BY <1>1, <2>0 DEF OneIn
  <2>2. CASE q = p
    <3>1. i + 1 = j + 1 /\ i \in Int /\ j \in Int
      BY <1>1, <1>3, <2>1, <2>2 DEF OneIn
    <3>2. QED
      BY <2>1, <3>1
  <2>3. CASE q # p
    BY <1>1, <1>3, <2>1, <2>3 DEF OneIn
  <2>4. QED
    BY <2>2, <2>3
<1>5. ASSUME NEW q \in Where(rest, r)
      PROVE  q \in Where(pipes, r)
  <2>1. PICK i \in DOMAIN rest[q] : q \in P /\ back(rest[q][i]) = r
    BY <1>1 DEF Where
  <2>2. \E j \in DOMAIN pipes[q] : back(pipes[q][j]) = r
    BY <1>3, <2>1
  <2>3. QED
    BY <1>1, <2>1, <2>2 DEF Where
<1>6. CASE back(Head(pipes[p])) = r
  <2>1. 1 \in DOMAIN pipes[p] /\ back(pipes[p][1]) = r
    BY <1>1, <1>6
  <2>2. Where(pipes, r) = {p}
    BY <1>1, <2>1 DEF Where, OneIn
  <2>3. \A i \in DOMAIN rest[p] : back(rest[p][i]) # r
    <3> SUFFICES ASSUME NEW i \in DOMAIN rest[p], back(rest[p][i]) = r
                 PROVE  FALSE
      OBVIOUS
    <3>1. i + 1 \in DOMAIN pipes[p] /\ back(pipes[p][i + 1]) = r
      BY <1>3
    <3>2. i + 1 = 1
      BY <1>1, <2>1, <3>1 DEF OneIn
    <3>3. QED
      BY <1>1, <3>2
  <2>4. Where(rest, r) = {}
    BY <1>5, <2>2, <2>3 DEF Where
  <2>5. QED
    BY <1>4, <1>6, <2>2, <2>4
<1>7. CASE back(Head(pipes[p])) # r
  <2>1. ASSUME NEW q \in Where(pipes, r)
        PROVE  q \in Where(rest, r)
    <3>1. PICK i \in DOMAIN pipes[q] : back(pipes[q][i]) = r
      BY DEF Where
    <3>2. q \in P
      BY <1>1 DEF Where
    <3>3. CASE q # p
      BY <1>1, <3>1, <3>2, <3>3 DEF Where
    <3>4. CASE q = p
      <4>1. i \in 1 .. n /\ i # 1
        BY <1>1, <1>7, <3>1, <3>4
      <4>2. i - 1 \in 1 .. n - 1 /\ (i - 1) + 1 = i
        BY <1>1, <4>1
      <4>3. i - 1 \in DOMAIN rest[p] /\ rest[p][i - 1] = pipes[p][i]
        BY <1>1, <4>2
      <4>4. QED
        BY <1>1, <3>1, <3>4, <4>3 DEF Where
    <3>5. QED
      BY <3>3, <3>4
  <2>2. Where(rest, r) = Where(pipes, r)
    BY <1>5, <2>1
  <2>3. QED
    BY <1>4, <1>7, <2>2
<1>8. QED
  BY <1>6, <1>7

\* The next message of p carries r.
Oldest(pipes, p, r) == back(Head(pipes[p])) = r

\* The first case of TakeWhere by itself,
LEMMA TakeCopy ==
    ASSUME NEW P, NEW M, NEW pipes \in [P -> Seq(M)], NEW p \in P,
           NEW rest, Take(pipes, p, rest),
           NEW r, OneIn(pipes, r), Oldest(pipes, p, r)
    PROVE  OneIn(rest, r) /\ Where(pipes, r) = {p} /\ Where(rest, r) = {}
  BY TakeWhere DEF Oldest

\* and the second.
LEMMA TakeOther ==
    ASSUME NEW P, NEW M, NEW pipes \in [P -> Seq(M)], NEW p \in P,
           NEW rest, Take(pipes, p, rest),
           NEW r, OneIn(pipes, r), ~ Oldest(pipes, p, r)
    PROVE  OneIn(rest, r) /\ Where(rest, r) = Where(pipes, r)
  BY TakeWhere DEF Oldest

\* No message of a socket's pipes carries r.
Absent(pipes, r) == Where(pipes, r) = {}

\* A message that is added brings its request to the peer it is added for,
LEMMA PutCopy ==
    ASSUME NEW P, NEW M, NEW pipes \in [P -> Seq(M)], NEW p \in P, NEW m,
           NEW more, Put(pipes, p, m, more),
           NEW r, Absent(pipes, r), back(m) = r
    PROVE  OneIn(more, r) /\ Where(more, r) = {p}
<1> DEFINE n == Len(pipes[p])
<1>1. /\ DOMAIN pipes = P /\ DOMAIN more = P
      /\ \A q \in P \ {p} : more[q] = pipes[q]
      /\ n \in Nat
      /\ DOMAIN pipes[p] = 1 .. n
      /\ DOMAIN more[p] = 1 .. n + 1
      /\ \A i \in 1 .. n : more[p][i] = pipes[p][i]
      /\ more[p][n + 1] = m
  BY DEF Put
<1> HIDE DEF n
<1>2. \A q \in P : \A i \in DOMAIN pipes[q] : back(pipes[q][i]) # r
  BY <1>1 DEF Where, Absent
<1>3. \A q \in P : \A i \in DOMAIN more[q] :
         back(more[q][i]) = r => q = p /\ i = n + 1
  BY <1>1, <1>2
<1>4. n + 1 \in DOMAIN more[p]
  BY <1>1
<1>5. QED
  BY <1>1, <1>3, <1>4 DEF Where, OneIn

\* and leaves every other request where it is, whatever pipes it is added to.
LEMMA PutOther ==
    ASSUME NEW P, NEW M, NEW pipes \in [P -> Seq(M)], NEW m,
           NEW more, PutSome(pipes, m, more),
           NEW r, OneIn(pipes, r), back(m) # r
    PROVE  OneIn(more, r) /\ Where(more, r) = Where(pipes, r)
<1>1. DOMAIN pipes = P /\ DOMAIN more = P
  BY DEF PutSome
<1>2. ASSUME NEW q \in P
      PROVE  /\ \A i \in DOMAIN more[q] : back(more[q][i]) = r =>
                   i \in DOMAIN pipes[q] /\ back(pipes[q][i]) = r
             /\ \A i \in DOMAIN pipes[q] :
                   i \in DOMAIN more[q] /\ more[q][i] = pipes[q][i]
  <2> DEFINE n == Len(pipes[q])
  <2>1. CASE more[q] = pipes[q]
    BY <2>1
  <2>2. CASE more[q] = Append(pipes[q], m)
    <3>1. /\ n \in Nat
          /\ DOMAIN pipes[q] = 1 .. n
          /\ DOMAIN more[q] = 1 .. n + 1
          /\ \A i \in 1 .. n : more[q][i] = pipes[q][i]
          /\ more[q][n + 1] = m
      BY <2>2
    <3> HIDE DEF n
    <3>2. QED
      BY <3>1
  <2>3. QED
    BY <1>1, <2>1, <2>2 DEF PutSome
<1>3. OneIn(more, r)
  BY <1>1, <1>2 DEF OneIn
<1>4. Where(more, r) = Where(pipes, r)
  BY <1>1, <1>2 DEF Where
<1>5. QED
  BY <1>3, <1>4

\* A connection that closes takes with it what its pipe holds.
LEMMA ClearWhere ==
    ASSUME NEW P, NEW M, NEW pipes \in [P -> Seq(M)], NEW p \in P,
           NEW less, Clear(pipes, p, less),
           NEW r, OneIn(pipes, r)
    PROVE  /\ OneIn(less, r)
           /\ Where(less, r) = Where(pipes, r) \ {p}
<1>1. /\ DOMAIN pipes = P /\ DOMAIN less = P
      /\ \A q \in P \ {p} : less[q] = pipes[q]
      /\ less[p] = << >>
      /\ DOMAIN less[p] = {}
  BY DEF Clear
<1>2. \A q \in P : \A i \in DOMAIN less[q] : q # p /\ less[q] = pipes[q]
  BY <1>1
<1>3. OneIn(less, r)
  BY <1>1, <1>2 DEF OneIn
<1>4. Where(less, r) = Where(pipes, r) \ {p}
  BY <1>1, <1>2 DEF Where
<1>5. QED
  BY <1>3, <1>4

\* Whether a send is delivered, what it makes of the pipes, and what it brings
\* to whom.
Delivered(pipes, peers, m) == front(m) \in peers /\ HasRoom(pipes, front(m))
Sends(pipes, peers, m, more) == more = RouterSend(pipes, peers, m)
Brings(m, p, r) == front(m) = p /\ back(pop(m)) = r
Passes(pipes, peers, m, r) == back(pop(m)) # r \/ ~ Delivered(pipes, peers, m)

\* A send that is delivered brings the request of the message to the
\* addressee,
LEMMA SendCopy ==
    ASSUME NEW P, NEW M, NEW pipes \in [P -> Seq(M)],
           NEW peers, peers \subseteq P, NEW m,
           NEW more, Sends(pipes, peers, m, more),
           NEW r, Absent(pipes, r), Delivered(pipes, peers, m),
           NEW p, Brings(m, p, r)
    PROVE  OneIn(more, r) /\ Where(more, r) = {p}
<1> DEFINE x == pop(m)
<1>1. p \in P /\ back(x) = r /\ Put(pipes, p, x, more)
  BY DEF Sends, RouterSend, Delivered, Put, Brings
<1> HIDE DEF x
<1>2. QED
  BY <1>1, PutCopy

\* and a send, delivered or not, leaves every other request where it is.
LEMMA SendOther ==
    ASSUME NEW P, NEW M, NEW pipes \in [P -> Seq(M)],
           NEW peers, peers \subseteq P, NEW m,
           NEW more, Sends(pipes, peers, m, more),
           NEW r, OneIn(pipes, r), Passes(pipes, peers, m, r)
    PROVE  OneIn(more, r) /\ Where(more, r) = Where(pipes, r)
<1> DEFINE x == pop(m)
<1>1. CASE Delivered(pipes, peers, m)
  <2>1. back(x) # r /\ PutSome(pipes, x, more)
    BY <1>1 DEF Sends, RouterSend, Delivered, Passes, PutSome
  <2> HIDE DEF x
  <2>2. QED
    BY <2>1, PutOther
<1>2. CASE ~ Delivered(pipes, peers, m)
  BY <1>2 DEF Sends, RouterSend, Delivered, Passes
<1>3. QED
  BY <1>1, <1>2

\* The identities in front of a message do not change its last frame.
LEMMA BackOfPushed ==
    ASSUME NEW S, NEW m \in Seq(S), m # << >>, NEW f \in S
    PROVE  back(pushmem(f, m)) = back(m)
<1>1. <<f>> \in Seq(S) /\ Len(<<f>>) = 1
  OBVIOUS
<1>2. /\ Len(pushmem(f, m)) = Len(m) + 1
      /\ \A i \in 1 .. Len(m) + 1 : i > 1 => pushmem(f, m)[i] = m[i - 1]
  BY <1>1, ConcatProperties, SMT DEF pushmem
<1>3. Len(m) \in Nat \ {0}
  BY LenProperties, EmptySeq
<1>4. pushmem(f, m)[Len(m) + 1] = m[Len(m)]
  BY <1>2, <1>3
<1>5. QED
  BY <1>2, <1>4 DEF back

\* The request a message carries, and what the messages that carry none end
\* with.
LEMMA Carried ==
    /\ \A r \in Requests : back(RequestBody(r)) = r /\ back(Envelope(r)) = r
    /\ \A k : back(<<k>>) = k
    /\ back(NoWorkerReply) \notin Requests
    /\ HEARTBEAT_KEY \notin Requests /\ OtherText \notin Requests
<1>1. ASSUME NEW r \in Requests
      PROVE  back(RequestBody(r)) = r /\ back(Envelope(r)) = r
  <2> DEFINE S == {Owner[r], Delimiter, r}
  <2>1. /\ Owner[r] \in S
        /\ RequestBody(r) \in Seq(S)
        /\ RequestBody(r) # << >>
        /\ back(RequestBody(r)) = r
    <3>1. CASE Owner[r] \in ReqClients
      BY <3>1 DEF RequestBody, back
    <3>2. CASE Owner[r] \notin ReqClients
      BY <3>2 DEF RequestBody, back
    <3>3. QED
      BY <3>1, <3>2
  <2> HIDE DEF S
  <2>2. back(Envelope(r)) = back(RequestBody(r))
    BY <2>1, BackOfPushed DEF Envelope
  <2>3. QED
    BY <2>1, <2>2
<1>2. \A k : back(<<k>>) = k
  BY DEF back
<1>3. back(NoWorkerReply) = NoWorkerText
  BY DEF NoWorkerReply, back
<1>4. QED
  BY <1>1, <1>2, <1>3, ServerAssumption, PayloadAssumption

-----------------------------------------------------------------------------
(* The life of a request *)

\* A request is in one message of each socket at most.
Single(r) ==
    /\ OneIn(front_q, r) /\ OneIn(to_worker, r)
    /\ OneIn(back_q, r) /\ OneIn(to_client, r)

\* A request is on one leg of its way only.
Apart(r) ==
    /\ Where(front_q, r) = {} \/ Where(to_worker, r) = {}
    /\ Where(front_q, r) = {} \/ Where(back_q, r) = {}
    /\ Where(front_q, r) = {} \/ Where(to_client, r) = {}
    /\ Where(to_worker, r) = {} \/ Where(back_q, r) = {}
    /\ Where(to_worker, r) = {} \/ Where(to_client, r) = {}
    /\ Where(back_q, r) = {} \/ Where(to_client, r) = {}

\* No message carries request r.
Nowhere(r) ==
    /\ Where(front_q, r) = {} /\ Where(to_worker, r) = {}
    /\ Where(back_q, r) = {} /\ Where(to_client, r) = {}

\* The inductive invariant behind AtMostOneCopy.
CopiesInv ==
    \A r \in Requests : Single(r) /\ Apart(r) /\ (r \notin sent => Nowhere(r))

\* What a step can do to request r.
FrontKept(r)    == Where(front_q', r) = Where(front_q, r)
ToWorkerKept(r) == Where(to_worker', r) = Where(to_worker, r)
BackKept(r)     == Where(back_q', r) = Where(back_q, r)
ToClientKept(r) == Where(to_client', r) = Where(to_client, r)

Kept(r) == FrontKept(r) /\ ToWorkerKept(r) /\ BackKept(r) /\ ToClientKept(r)

\* Its client sends it.
Arrives(r) ==
    /\ r \notin sent /\ sent' = sent \cup {r}
    /\ Where(front_q', r) = {Owner[r]}
    /\ ToWorkerKept(r) /\ BackKept(r) /\ ToClientKept(r)

\* The proxy takes it from its client: it goes to a worker, or nowhere,
\* because no worker is registered or the one that was picked does not get it.
LeavesFront(r) ==
    /\ sent' = sent
    /\ Where(front_q, r) # {} /\ Where(front_q', r) = {}
    /\ BackKept(r) /\ ToClientKept(r)

Assigned(r, w) == LeavesFront(r) /\ Where(to_worker', r) = {w}

Unserved(r) ==
    /\ LeavesFront(r) /\ ToWorkerKept(r)
    /\ \/ vec_work_ = {}
       \/ \E w \in Registered(vec_work_) : w \notin workers_up \/ ~ HasRoom(to_worker, w)

\* The proxy takes its answer from a worker: it goes to its client, or nowhere,
\* because that client is gone or does not read.
LeavesBack(r) ==
    /\ sent' = sent
    /\ Where(back_q, r) # {} /\ Where(back_q', r) = {}
    /\ FrontKept(r) /\ ToWorkerKept(r)

Answered(r) == LeavesBack(r) /\ Where(to_client', r) = {Owner[r]}

Unanswered(r) ==
    /\ LeavesBack(r) /\ ToClientKept(r)
    /\ Owner[r] \notin clients_up \/ ~ HasRoom(to_client, Owner[r])

\* Its worker answers it.
Served(r, w) ==
    /\ sent' = sent
    /\ Where(to_worker, r) = {w} /\ Where(to_worker', r) = {}
    /\ Where(back_q', r) = {w}
    /\ FrontKept(r) /\ ToClientKept(r)

\* One request moves, or none does.
Moves(r) ==
    \/ Arrives(r) \/ Unserved(r) \/ Answered(r) \/ Unanswered(r)
    \/ \E w \in Workers : Assigned(r, w) \/ Served(r, w)

OnlyMoves(r) == Moves(r) /\ \A q \in Requests \ {r} : Kept(q)

NoneMoves == sent' = sent /\ \A r \in Requests : Kept(r)

\* What is lost with a client, or received by it, and what is lost with a
\* worker.
ClientEnds(c) ==
    /\ sent' = sent
    /\ \A r \in Requests :
          /\ FrontKept(r) /\ ToWorkerKept(r) /\ BackKept(r)
          /\ \/ ToClientKept(r)
             \/ Where(to_client, r) = {c} /\ Where(to_client', r) = {}

WorkerEnds(w) ==
    /\ sent' = sent
    /\ workers_up' # workers_up
    /\ \A r \in Requests :
          /\ FrontKept(r) /\ BackKept(r) /\ ToClientKept(r)
          /\ \/ ToWorkerKept(r)
             \/ Where(to_worker, r) = {w} /\ Where(to_worker', r) = {}

\* What is lost with the process.
AllEnd == pc' = "dead" /\ sent' = sent /\ \A r \in Requests : Nowhere(r)'

\* What a step of the system does to all requests.
LifeStep ==
    /\ \A r \in Requests : Single(r)'
    /\ \/ NoneMoves
       \/ \E r \in Requests : OnlyMoves(r)
       \/ \E c \in Clients : ClientEnds(c)
       \/ \E w \in Workers : WorkerEnds(w)
       \/ AllEnd

\* What the pipes hold, without the parts about who sent it.
LEMMA PipeTypes ==
    ASSUME TypeInv
    PROVE  /\ back_q \in [Workers -> Seq({<<HEARTBEAT_KEY>>, <<OtherText>>} \cup SentEnvelopes)]
           /\ to_worker \in [Workers -> Seq({<<HEARTBEAT_KEY>>} \cup SentEnvelopes)]
           /\ front_q \in [Clients -> Seq(FromClient)]
           /\ to_client \in [Clients -> Seq(ToClient)]
           /\ workers_up \subseteq Workers /\ clients_up \subseteq Clients
           /\ sent \subseteq Requests
  BY DEF TypeInv, LoopOK, PipesOK, BackOK, ToWorkerOK, FrontOK, ToClientOK

\* A heartbeat of a worker, or another frame of its own, carries no request.
LEMMA BackFrameLife ==
    ASSUME TypeInv, CopiesInv, NEW w \in Workers, BackHeartbeat(w) \/ BackOther(w)
    PROVE  LifeStep
<1>1. /\ Take(back_q, w, back_q')
      /\ front_q' = front_q /\ to_worker' = to_worker /\ to_client' = to_client
      /\ sent' = sent
  BY DEF BackHeartbeat, BackOther, ReceiveBack, Take, peerVars
<1>2. PICK k \in {HEARTBEAT_KEY, OtherText} : Head(back_q[w]) = <<k>>
  BY SingleFrame DEF BackHeartbeat, BackOther, ReceiveBack, IsHeartbeat
<1>3. ASSUME NEW r \in Requests
      PROVE  Single(r)' /\ Kept(r)
  <2>1. ~ Oldest(back_q, w, r)
    BY <1>2, Carried DEF Oldest
  <2>2. back_q \in [Workers -> Seq({<<HEARTBEAT_KEY>>, <<OtherText>>} \cup SentEnvelopes)]
    BY DEF TypeInv, PipesOK, BackOK
  <2>3. OneIn(back_q, r)
    BY DEF CopiesInv, Single
  <2>4. OneIn(back_q', r) /\ Where(back_q', r) = Where(back_q, r)
    BY <1>1, <2>1, <2>2, <2>3, TakeOther
  <2>5. QED
    BY <1>1, <2>4 DEF CopiesInv, Single, Kept, FrontKept, ToWorkerKept,
                      BackKept, ToClientKept
<1>4. QED
  BY <1>1, <1>3 DEF LifeStep, NoneMoves

\* A worker's answer reaches the owner of the request, or is lost because the
\* owner is gone or does not read.
LEMMA BackReplyLife ==
    ASSUME TypeInv, CopiesInv, NEW w \in Workers, BackReply(w)
    PROVE  LifeStep
<1>1. /\ Take(back_q, w, back_q')
      /\ front_q' = front_q /\ to_worker' = to_worker
      /\ Sends(to_client, clients_up, BackBody(w), to_client')
      /\ sent' = sent
      /\ back_q[w] # << >> /\ size(BackBody(w)) # 1
  BY DEF BackReply, ReceiveBack, Take, Sends, peerVars
<1>0. /\ back_q \in [Workers -> Seq({<<HEARTBEAT_KEY>>, <<OtherText>>} \cup SentEnvelopes)]
      /\ to_client \in [Clients -> Seq(ToClient)]
      /\ clients_up \subseteq Clients
  BY PipeTypes
<1>2. PICK s \in sent : BackBody(w) = Envelope(s)
  BY <1>1, BackMessage
<1>3. s \in Requests /\ Head(back_q[w]) = Envelope(s)
  BY <1>1, <1>2, BackMessage, PipeTypes
<1>4. /\ front(Envelope(s)) = Owner[s]
      /\ Brings(Envelope(s), Owner[s], s)
      /\ \A r : Oldest(back_q, w, r) <=> r = s
  BY <1>3, EnvelopeProperties, Carried DEF Brings, Oldest
<1>5. ASSUME NEW r \in Requests, r # s
      PROVE  Single(r)' /\ Kept(r)
  <2>1. OneIn(back_q', r) /\ Where(back_q', r) = Where(back_q, r)
    <3>1. OneIn(back_q, r) /\ ~ Oldest(back_q, w, r)
      BY <1>4, <1>5 DEF CopiesInv, Single
    <3>2. QED
      BY <1>0, <1>1, <3>1, TakeOther
  <2>2. OneIn(to_client', r) /\ Where(to_client', r) = Where(to_client, r)
    <3>1. OneIn(to_client, r) /\ Passes(to_client, clients_up, BackBody(w), r)
      BY <1>2, <1>4, <1>5 DEF CopiesInv, Single, Brings, Passes
    <3>2. QED
      BY <1>0, <1>1, <3>1, SendOther
  <2>3. QED
    BY <1>1, <2>1, <2>2 DEF CopiesInv, Single, Kept, FrontKept, ToWorkerKept,
                            BackKept, ToClientKept
<1>6. /\ OneIn(back_q', s)
      /\ Where(back_q, s) = {w} /\ Where(back_q', s) = {}
  <2>1. OneIn(back_q, s)
    BY <1>3 DEF CopiesInv, Single
  <2>2. QED
    BY <1>0, <1>1, <1>4, <2>1, TakeCopy
<1>7. LeavesBack(s)
  BY <1>1, <1>6 DEF LeavesBack, FrontKept, ToWorkerKept
<1>8. Where(to_client, s) = {} /\ OneIn(to_client, s)
  BY <1>3, <1>6 DEF CopiesInv, Apart, Single
<1>9. OneIn(to_client', s) /\ (Answered(s) \/ Unanswered(s))
  <2>1. CASE Delivered(to_client, clients_up, BackBody(w))
    <3>1. Brings(BackBody(w), Owner[s], s)
      BY <1>2, <1>4
    <3>2. /\ to_client \in [Clients -> Seq(ToClient)]
          /\ clients_up \subseteq Clients
          /\ Sends(to_client, clients_up, BackBody(w), to_client')
          /\ Absent(to_client, s)
      BY <1>0, <1>1, <1>8 DEF Absent
    <3>3. OneIn(to_client', s) /\ Where(to_client', s) = {Owner[s]}
      BY <2>1, <3>1, <3>2, SendCopy
    <3>4. QED
      BY <1>7, <3>3 DEF Answered
  <2>2. CASE ~ Delivered(to_client, clients_up, BackBody(w))
    <3>0. Passes(to_client, clients_up, BackBody(w), s)
      BY <2>2 DEF Passes
    <3>1. OneIn(to_client', s) /\ Where(to_client', s) = Where(to_client, s)
      BY <1>0, <1>1, <1>8, <3>0, SendOther
    <3>2. Owner[s] \notin clients_up \/ ~ HasRoom(to_client, Owner[s])
      BY <1>2, <1>4, <2>2 DEF Delivered
    <3>3. QED
      BY <1>7, <3>1, <3>2 DEF Unanswered, ToClientKept
  <2>3. QED
    BY <2>1, <2>2
<1>10. Single(s)'
  BY <1>1, <1>3, <1>6, <1>9 DEF CopiesInv, Single
<1>11. QED
  BY <1>3, <1>5, <1>9, <1>10 DEF LifeStep, OnlyMoves, Moves

\* A request that is refused is over.
LEMMA FrontRefuseLife ==
    ASSUME TypeInv, CopiesInv, NEW c \in Clients, FrontRefuse(c)
    PROVE  LifeStep
<1> DEFINE m == addstr(addstr(<<c>>, Delimiter), NoWorkerText)
<1>0. /\ front_q \in [Clients -> Seq(FromClient)]
      /\ to_client \in [Clients -> Seq(ToClient)]
      /\ clients_up \subseteq Clients
  BY PipeTypes
<1>1. PICK s \in sent : /\ s \in Requests
                        /\ Owner[s] = c
                        /\ Head(front_q[c]) = RequestBody(s)
                        /\ RouterRecv(front_q, c) = Envelope(s)
  BY FrontMessage DEF FrontRefuse, ReceiveFront
<1>2. front(RouterRecv(front_q, c)) = c
  BY <1>1, EnvelopeProperties
<1>3. /\ Take(front_q, c, front_q')
      /\ back_q' = back_q /\ to_worker' = to_worker
      /\ Sends(to_client, clients_up, m, to_client')
      /\ sent' = sent
      /\ vec_work_ = {}
  BY <1>2, GetWorkerEmpty DEF FrontRefuse, ReceiveFront, Take, Sends, peerVars
<1>4. \A r \in Requests : back(pop(m)) # r
  BY OwnMessages, Carried
<1>5. \A r : Oldest(front_q, c, r) <=> r = s
  BY <1>1, Carried DEF Oldest
<1> HIDE DEF m
<1>6. ASSUME NEW r \in Requests
      PROVE  OneIn(to_client', r) /\ Where(to_client', r) = Where(to_client, r)
  <2>1. OneIn(to_client, r) /\ Passes(to_client, clients_up, m, r)
    BY <1>4 DEF CopiesInv, Single, Passes
  <2>2. QED
    BY <1>0, <1>3, <2>1, SendOther
<1>7. /\ OneIn(front_q', s)
      /\ Where(front_q, s) = {c} /\ Where(front_q', s) = {}
  <2>1. OneIn(front_q, s)
    BY <1>1 DEF CopiesInv, Single
  <2>2. QED
    BY <1>0, <1>3, <1>5, <2>1, TakeCopy
<1>8. ASSUME NEW r \in Requests, r # s
      PROVE  OneIn(front_q', r) /\ Where(front_q', r) = Where(front_q, r)
  <2>1. OneIn(front_q, r) /\ ~ Oldest(front_q, c, r)
    BY <1>5, <1>8 DEF CopiesInv, Single
  <2>2. front_q \in [Clients -> Seq(FromClient)] /\ Take(front_q, c, front_q')
    BY <1>0, <1>3
  <2>3. QED
    BY <2>1, <2>2, TakeOther
<1>9. \A r \in Requests : Single(r)' /\ (r # s => Kept(r))
  BY <1>3, <1>6, <1>7, <1>8 DEF CopiesInv, Single, Kept, FrontKept, ToWorkerKept,
                          BackKept, ToClientKept
<1>10. Unserved(s)
  BY <1>1, <1>3, <1>6, <1>7 DEF Unserved, LeavesFront, BackKept, ToClientKept,
                                ToWorkerKept
<1>11. QED
  BY <1>1, <1>9, <1>10 DEF LifeStep, OnlyMoves, Moves

\* A request that is forwarded goes to the worker that was picked, or is lost
\* because that worker is gone or does not keep up.
LEMMA FrontForwardLife ==
    ASSUME TypeInv, CopiesInv, NEW c \in Clients, NEW w \in Workers,
           FrontForward(c, w)
    PROVE  LifeStep
<1> DEFINE m == Forwarded(c, w)
<1>0. /\ front_q \in [Clients -> Seq(FromClient)]
      /\ to_worker \in [Workers -> Seq({<<HEARTBEAT_KEY>>} \cup SentEnvelopes)]
      /\ workers_up \subseteq Workers
  BY PipeTypes
<1>1. PICK s \in sent : /\ s \in Requests
                        /\ Head(front_q[c]) = RequestBody(s)
                        /\ RouterRecv(front_q, c) = Envelope(s)
  BY FrontMessage DEF FrontForward, ReceiveFront
<1>2. /\ front_q' = [front_q EXCEPT ![c] = Tail(@)]
      /\ front_q[c] # << >>
      /\ to_worker' = RouterSend(to_worker, workers_up, m)
      /\ back_q' = back_q /\ to_client' = to_client
      /\ sent' = sent
      /\ w \in GetWorker(vec_work_)
  BY DEF FrontForward, ReceiveFront, peerVars
<1>3. Take(front_q, c, front_q') /\ Sends(to_worker, workers_up, m, to_worker')
  BY <1>2 DEF Take, Sends
<1>4. w \in Registered(vec_work_)
  BY <1>2 DEF GetWorker
<1>5. /\ front(m) = w
      /\ pop(m) = Envelope(s)
      /\ Brings(m, w, s)
  BY <1>1, WorkerAddress, Carried DEF Forwarded, Brings
<1>6. \A r : Oldest(front_q, c, r) <=> r = s
  BY <1>1, Carried DEF Oldest
<1> HIDE DEF m
<1>7. ASSUME NEW r \in Requests, r # s
      PROVE  Single(r)' /\ Kept(r)
  <2>1. OneIn(front_q', r) /\ Where(front_q', r) = Where(front_q, r)
    <3>1. OneIn(front_q, r) /\ ~ Oldest(front_q, c, r)
      BY <1>6, <1>7 DEF CopiesInv, Single
    <3>2. QED
      BY <1>0, <1>3, <3>1, TakeOther, SMTT(60)
  <2>2. OneIn(to_worker', r) /\ Where(to_worker', r) = Where(to_worker, r)
    <3>1. OneIn(to_worker, r) /\ Passes(to_worker, workers_up, m, r)
      BY <1>5, <1>7 DEF CopiesInv, Single, Brings, Passes
    <3>2. QED
      BY <1>0, <1>3, <3>1, SendOther
  <2>3. QED
    BY <1>2, <2>1, <2>2 DEF CopiesInv, Single, Kept, FrontKept, ToWorkerKept,
                            BackKept, ToClientKept
<1>8. /\ OneIn(front_q', s)
      /\ Where(front_q, s) = {c} /\ Where(front_q', s) = {}
  <2>1. OneIn(front_q, s)
    BY <1>1 DEF CopiesInv, Single
  <2>2. QED
    BY <1>0, <1>3, <1>6, <2>1, TakeCopy
<1>9. LeavesFront(s)
  BY <1>2, <1>8 DEF LeavesFront, BackKept, ToClientKept
<1>10. Absent(to_worker, s) /\ OneIn(to_worker, s)
  BY <1>1, <1>8 DEF CopiesInv, Apart, Single, Absent
<1>11. OneIn(to_worker', s) /\ (Assigned(s, w) \/ Unserved(s))
  <2>1. CASE Delivered(to_worker, workers_up, m)
    <3>1. /\ to_worker \in [Workers -> Seq({<<HEARTBEAT_KEY>>} \cup SentEnvelopes)]
          /\ workers_up \subseteq Workers
          /\ Sends(to_worker, workers_up, m, to_worker')
          /\ Absent(to_worker, s) /\ Brings(m, w, s)
      BY <1>0, <1>3, <1>5, <1>10
    <3>2. OneIn(to_worker', s) /\ Where(to_worker', s) = {w}
      BY <2>1, <3>1, SendCopy, SMTT(60)
    <3>3. QED
      BY <1>9, <3>2 DEF Assigned
  <2>2. CASE ~ Delivered(to_worker, workers_up, m)
    <3>1. Passes(to_worker, workers_up, m, s)
      BY <2>2 DEF Passes
    <3>2. OneIn(to_worker', s) /\ Where(to_worker', s) = Where(to_worker, s)
      BY <1>0, <1>3, <1>10, <3>1, SendOther
    <3>3. w \notin workers_up \/ ~ HasRoom(to_worker, w)
      BY <1>5, <2>2 DEF Delivered
    <3>4. QED
      BY <1>4, <1>9, <3>2, <3>3 DEF Unserved, ToWorkerKept
  <2>3. QED
    BY <2>1, <2>2
<1>12. Single(s)'
  BY <1>1, <1>2, <1>8, <1>11 DEF CopiesInv, Single
<1>13. QED
  BY <1>1, <1>7, <1>11, <1>12 DEF LifeStep, OnlyMoves, Moves

\* The proxy's heartbeats move no request,
LEMMA SendHeartbeatsLife ==
    ASSUME TypeInv, CopiesInv, SendHeartbeats
    PROVE  LifeStep
<1>1. /\ to_worker \in [Workers -> Seq({<<HEARTBEAT_KEY>>} \cup SentEnvelopes)]
      /\ workers_up \subseteq Workers
  BY PipeTypes
<1>2. /\ back_q' = back_q /\ front_q' = front_q /\ to_client' = to_client
      /\ sent' = sent
  BY DEF SendHeartbeats, peerVars
<1>3. PutSome(to_worker, <<HEARTBEAT_KEY>>, to_worker')
  <2>1. DOMAIN to_worker = Workers /\ DOMAIN to_worker' = Workers
    BY <1>1 DEF SendHeartbeats
  <2>2. ASSUME NEW w \in Workers
        PROVE  \/ to_worker'[w] = to_worker[w]
               \/ to_worker'[w] = Append(to_worker[w], <<HEARTBEAT_KEY>>)
    <3>1. /\ front(<<w, HEARTBEAT_KEY>>) = w
          /\ pop(<<w, HEARTBEAT_KEY>>) = <<HEARTBEAT_KEY>>
      BY OwnMessages
    <3>2. \/ RouterSend(to_worker, workers_up, <<w, HEARTBEAT_KEY>>)[w] = to_worker[w]
          \/ RouterSend(to_worker, workers_up, <<w, HEARTBEAT_KEY>>)[w]
                = Append(to_worker[w], <<HEARTBEAT_KEY>>)
      BY <1>1, <3>1 DEF RouterSend
    <3>3. QED
      BY <3>2 DEF SendHeartbeats
  <2>3. QED
    BY <2>1, <2>2 DEF PutSome
<1>4. ASSUME NEW r \in Requests
      PROVE  Single(r)' /\ Kept(r)
  <2>1. OneIn(to_worker, r) /\ back(<<HEARTBEAT_KEY>>) # r
    BY Carried DEF CopiesInv, Single
  <2>2. OneIn(to_worker', r) /\ Where(to_worker', r) = Where(to_worker, r)
    BY <1>1, <1>3, <2>1, PutOther
  <2>3. QED
    BY <1>2, <2>2 DEF CopiesInv, Single, Kept, FrontKept, ToWorkerKept,
                      BackKept, ToClientKept
<1>5. QED
  BY <1>2, <1>4 DEF LifeStep, NoneMoves

\* nor do the messages a worker sends of its own.
LEMMA WorkerOwnLife ==
    ASSUME TypeInv, CopiesInv, NEW w \in Workers, WorkerBeat(w) \/ WorkerOther(w)
    PROVE  LifeStep
<1>1. /\ back_q \in [Workers -> Seq({<<HEARTBEAT_KEY>>, <<OtherText>>} \cup SentEnvelopes)]
      /\ front_q' = front_q /\ to_worker' = to_worker /\ to_client' = to_client
      /\ sent' = sent
  BY PipeTypes DEF WorkerBeat, WorkerOther, peerVars
<1>2. PICK k \in {HEARTBEAT_KEY, OtherText} :
         back_q' = [back_q EXCEPT ![w] = Append(@, <<k>>)]
  BY DEF WorkerBeat, WorkerOther, WorkerSend
<1>3. PutSome(back_q, <<k>>, back_q')
  BY <1>1, <1>2 DEF PutSome
<1>4. ASSUME NEW r \in Requests
      PROVE  Single(r)' /\ Kept(r)
  <2>1. OneIn(back_q, r) /\ back(<<k>>) # r
    BY Carried DEF CopiesInv, Single
  <2>2. OneIn(back_q', r) /\ Where(back_q', r) = Where(back_q, r)
    BY <1>1, <1>3, <2>1, PutOther
  <2>3. QED
    BY <1>1, <2>2 DEF CopiesInv, Single, Kept, FrontKept, ToWorkerKept,
                      BackKept, ToClientKept
<1>5. QED
  BY <1>1, <1>4 DEF LifeStep, NoneMoves

\* A request that is sent arrives.
LEMMA ClientSendLife ==
    ASSUME TypeInv, CopiesInv, NEW s \in Requests, ClientSend(s)
    PROVE  LifeStep
<1>1. /\ front_q \in [Clients -> Seq(FromClient)]
      /\ Owner[s] \in Clients
      /\ Put(front_q, Owner[s], RequestBody(s), front_q')
      /\ back_q' = back_q /\ to_worker' = to_worker /\ to_client' = to_client
      /\ s \notin sent /\ sent' = sent \cup {s}
  BY PipeTypes, EnvelopeProperties DEF ClientSend, Put
<1>2. back(RequestBody(s)) = s
  BY Carried
<1>3. Absent(front_q, s)
  BY <1>1 DEF CopiesInv, Nowhere, Absent
<1>4. OneIn(front_q', s) /\ Where(front_q', s) = {Owner[s]}
  <2> DEFINE m == RequestBody(s)
             p == Owner[s]
  <2>1. p \in Clients /\ Put(front_q, p, m, front_q') /\ back(m) = s
    BY <1>1, <1>2
  <2> HIDE DEF m, p
  <2>2. OneIn(front_q', s) /\ Where(front_q', s) = {p}
    BY <1>1, <1>3, <2>1, PutCopy
  <2>3. QED
    BY <2>2 DEF p
<1>5. ASSUME NEW r \in Requests, r # s
      PROVE  OneIn(front_q', r) /\ Where(front_q', r) = Where(front_q, r)
  <2>1. OneIn(front_q, r) /\ back(RequestBody(s)) # r
    BY <1>2, <1>5 DEF CopiesInv, Single
  <2>2. PutSome(front_q, RequestBody(s), front_q')
    BY <1>1 DEF Put, PutSome
  <2>3. QED
    BY <1>1, <2>1, <2>2, PutOther
<1>6. \A r \in Requests : Single(r)' /\ (r # s => Kept(r))
  BY <1>1, <1>4, <1>5 DEF CopiesInv, Single, Kept, FrontKept, ToWorkerKept,
                          BackKept, ToClientKept
<1>7. Arrives(s)
  BY <1>1, <1>4 DEF Arrives, ToWorkerKept, BackKept, ToClientKept
<1>8. QED
  BY <1>6, <1>7 DEF LifeStep, OnlyMoves, Moves

\* A client takes answers out of its own pipe, one when it receives and all
\* when it leaves.
LEMMA ClientEndsLife ==
    ASSUME TypeInv, CopiesInv, NEW c \in Clients, ClientRecv(c) \/ ClientDown(c)
    PROVE  LifeStep
<1>1. /\ to_client \in [Clients -> Seq(ToClient)]
      /\ front_q' = front_q /\ to_worker' = to_worker /\ back_q' = back_q
      /\ sent' = sent
  BY PipeTypes DEF ClientRecv, ClientDown, peerVars
<1>2. ASSUME NEW r \in Requests
      PROVE  /\ OneIn(to_client', r)
             /\ \/ ToClientKept(r)
                \/ Where(to_client, r) = {c} /\ Where(to_client', r) = {}
  <2>1. OneIn(to_client, r)
    BY DEF CopiesInv, Single
  <2>2. CASE ClientRecv(c)
    <3>1. Take(to_client, c, to_client')
      BY <2>2 DEF ClientRecv, Take
    <3>2. CASE Oldest(to_client, c, r)
      BY <1>1, <2>1, <3>1, <3>2, TakeCopy
    <3>3. CASE ~ Oldest(to_client, c, r)
      BY <1>1, <2>1, <3>1, <3>3, TakeOther DEF ToClientKept
    <3>4. QED
      BY <3>2, <3>3
  <2>3. CASE ClientDown(c)
    <3>1. Clear(to_client, c, to_client')
      BY <2>3 DEF ClientDown, Clear
    <3>2. OneIn(to_client', r) /\ Where(to_client', r) = Where(to_client, r) \ {c}
      BY <1>1, <2>1, <3>1, ClearWhere
    <3>3. c \in Where(to_client, r) => Where(to_client, r) = {c}
      BY <2>1 DEF OneIn, Where
    <3>4. QED
      BY <3>2, <3>3 DEF ToClientKept
  <2>4. QED
    BY <2>2, <2>3
<1>3. \A r \in Requests : Single(r)'
  BY <1>1, <1>2 DEF CopiesInv, Single
<1>4. ClientEnds(c)
  BY <1>1, <1>2 DEF ClientEnds, FrontKept, ToWorkerKept, BackKept
<1>5. QED
  BY <1>3, <1>4 DEF LifeStep

\* A request moves from one pipe of a worker to the other when it is answered.
LEMMA WorkerServeLife ==
    ASSUME TypeInv, CopiesInv, NEW w \in Workers, WorkerServe(w)
    PROVE  LifeStep
<1>1. /\ front_q' = front_q /\ to_client' = to_client
      /\ sent' = sent
  BY DEF WorkerServe, peerVars
<1>2. /\ to_worker \in [Workers -> Seq({<<HEARTBEAT_KEY>>} \cup SentEnvelopes)]
      /\ Take(to_worker, w, to_worker')
  BY PipeTypes DEF WorkerServe, Take
<1>5. Head(to_worker[w]) \in {<<HEARTBEAT_KEY>>} \cup SentEnvelopes
  BY <1>2, TakeType DEF WorkerServe
<1>3. CASE Head(to_worker[w]) = <<HEARTBEAT_KEY>>
  <2>1. back_q' = back_q
    BY <1>3 DEF WorkerServe
  <2>2. ASSUME NEW r \in Requests
        PROVE  Single(r)' /\ Kept(r)
    <3>1. OneIn(to_worker, r) /\ ~ Oldest(to_worker, w, r)
      BY <1>3, Carried DEF CopiesInv, Single, Oldest
    <3>2. OneIn(to_worker', r) /\ Where(to_worker', r) = Where(to_worker, r)
      BY <1>2, <3>1, TakeOther
    <3>3. QED
      BY <1>1, <2>1, <3>2 DEF CopiesInv, Single, Kept, FrontKept, ToWorkerKept,
                              BackKept, ToClientKept
  <2>3. QED
    BY <1>1, <2>2 DEF LifeStep, NoneMoves
<1>4. CASE Head(to_worker[w]) # <<HEARTBEAT_KEY>>
  <2>1. PICK s \in sent : Head(to_worker[w]) = Envelope(s)
    BY <1>4, <1>5 DEF SentEnvelopes
  <2> DEFINE m == Envelope(s)
  <2>2. s \in Requests
    BY PipeTypes
  <2>3. /\ back_q \in [Workers -> Seq({<<HEARTBEAT_KEY>>, <<OtherText>>} \cup SentEnvelopes)]
        /\ Put(back_q, w, m, back_q')
    BY <1>4, <2>1, PipeTypes DEF WorkerServe, WorkerSend, Put
  <2>4. back(m) = s /\ \A r : Oldest(to_worker, w, r) <=> r = s
    BY <2>1, <2>2, Carried DEF Oldest
  <2> HIDE DEF m
  <2>5. ASSUME NEW r \in Requests, r # s
        PROVE  Single(r)' /\ Kept(r)
    <3>1. OneIn(to_worker', r) /\ Where(to_worker', r) = Where(to_worker, r)
      <4>1. OneIn(to_worker, r) /\ ~ Oldest(to_worker, w, r)
        BY <2>4, <2>5 DEF CopiesInv, Single
      <4>2. QED
        BY <1>2, <4>1, TakeOther
    <3>2. OneIn(back_q', r) /\ Where(back_q', r) = Where(back_q, r)
      <4>1. OneIn(back_q, r) /\ back(m) # r
        BY <2>4, <2>5 DEF CopiesInv, Single
      <4>2. PutSome(back_q, m, back_q')
        BY <2>3 DEF Put, PutSome
      <4>3. QED
        BY <2>3, <4>1, <4>2, PutOther
    <3>3. QED
      BY <1>1, <3>1, <3>2 DEF CopiesInv, Single, Kept, FrontKept, ToWorkerKept,
                              BackKept, ToClientKept
  <2>6. /\ OneIn(to_worker', s)
        /\ Where(to_worker, s) = {w} /\ Where(to_worker', s) = {}
    <3>1. OneIn(to_worker, s)
      BY <2>2 DEF CopiesInv, Single
    <3>2. QED
      BY <1>2, <2>4, <3>1, TakeCopy
  <2>7. OneIn(back_q', s) /\ Where(back_q', s) = {w}
    <3>1. Absent(back_q, s)
      BY <2>2, <2>6 DEF CopiesInv, Apart, Absent
    <3>2. QED
      BY <2>3, <2>4, <3>1, PutCopy
  <2>8. Single(s)'
    BY <1>1, <2>2, <2>6, <2>7 DEF CopiesInv, Single
  <2>9. Served(s, w)
    BY <1>1, <2>6, <2>7 DEF Served, FrontKept, ToClientKept
  <2>10. QED
    BY <2>2, <2>5, <2>8, <2>9 DEF LifeStep, OnlyMoves, Moves
<1>6. QED
  BY <1>3, <1>4

\* A worker that leaves takes with it what it had not read.
LEMMA WorkerDownLife ==
    ASSUME TypeInv, CopiesInv, NEW w \in Workers, WorkerDown(w)
    PROVE  LifeStep
<1>1. /\ to_worker \in [Workers -> Seq({<<HEARTBEAT_KEY>>} \cup SentEnvelopes)]
      /\ Clear(to_worker, w, to_worker')
      /\ front_q' = front_q /\ to_client' = to_client /\ back_q' = back_q
      /\ sent' = sent
      /\ workers_up' # workers_up
  BY PipeTypes DEF WorkerDown, Clear
<1>2. ASSUME NEW r \in Requests
      PROVE  /\ OneIn(to_worker', r)
             /\ \/ ToWorkerKept(r)
                \/ Where(to_worker, r) = {w} /\ Where(to_worker', r) = {}
  <2>1. OneIn(to_worker, r)
    BY DEF CopiesInv, Single
  <2>2. OneIn(to_worker', r) /\ Where(to_worker', r) = Where(to_worker, r) \ {w}
    BY <1>1, <2>1, ClearWhere
  <2>3. w \in Where(to_worker, r) => Where(to_worker, r) = {w}
    BY <2>1 DEF OneIn, Where
  <2>4. QED
    BY <2>2, <2>3 DEF ToWorkerKept
<1>3. \A r \in Requests : Single(r)'
  BY <1>1, <1>2 DEF CopiesInv, Single
<1>4. WorkerEnds(w)
  BY <1>1, <1>2 DEF WorkerEnds, FrontKept, ToClientKept, BackKept
<1>5. QED
  BY <1>3, <1>4 DEF LifeStep

\* No other step touches a pipe.
LEMMA QuietLife ==
    ASSUME CopiesInv, UNCHANGED <<back_q, front_q, to_worker, to_client, sent>>
    PROVE  LifeStep
  BY DEF CopiesInv, Single, LifeStep, NoneMoves, Kept, FrontKept, ToWorkerKept,
         BackKept, ToClientKept

\* An exception that ends the process.
LEMMA ThrowLife ==
    ASSUME Throw
    PROVE  LifeStep
<1>1. \A r \in Requests : Nowhere(r)'
  BY DEF Throw, Nowhere, Where
<1>2. \A r \in Requests : Single(r)'
  BY DEF Throw, Single, OneIn
<1>3. QED
  BY <1>1, <1>2 DEF LifeStep, AllEnd, Throw

\* Every step of the system is one of these.
LEMMA NextLife == TypeInv /\ CopiesInv /\ [Next]_vars => LifeStep
<1> SUFFICES ASSUME TypeInv, CopiesInv, [Next]_vars PROVE LifeStep
  OBVIOUS
<1>1. CASE Server
  <2>1. Poll \/ BackIdle \/ FrontIdle \/ NotDue \/ Rearm \/ Check
          => UNCHANGED <<back_q, front_q, to_worker, to_client, sent>>
    BY DEF Poll, BackIdle, FrontIdle, NotDue, Rearm, Check, peerVars
  <2>2. QED
    BY <1>1, <2>1, QuietLife, BackFrameLife, BackReplyLife, FrontRefuseLife,
       FrontForwardLife, SendHeartbeatsLife DEF Server, Back, Front, Beat
<1>2. CASE Peers
  <2>1. \A w \in Workers : WorkerUp(w)
          => UNCHANGED <<back_q, front_q, to_worker, to_client, sent>>
    BY DEF WorkerUp
  <2>2. QED
    BY <1>2, <2>1, QuietLife, ClientSendLife, ClientEndsLife, WorkerOwnLife,
       WorkerServeLife, WorkerDownLife DEF Peers
<1>3. CASE Tick \/ StepClock \/ Gone \/ UNCHANGED vars
  <2>1. UNCHANGED <<back_q, front_q, to_worker, to_client, sent>>
    BY <1>3 DEF Tick, StepClock, Gone, vars, peerVars
  <2>2. QED
    BY <2>1, QuietLife
<1>4. QED
  BY <1>1, <1>2, <1>3, ThrowLife DEF Next, Live

\* CopiesInv is inductive.
LEMMA NextCopiesInv == TypeInv /\ CopiesInv /\ [Next]_vars => CopiesInv'
<1> SUFFICES ASSUME CopiesInv, LifeStep, NEW r \in Requests
             PROVE  Single(r)' /\ Apart(r)' /\ (r \notin sent' => Nowhere(r)')
  BY NextLife DEF CopiesInv
<1>1. Single(r) /\ Apart(r) /\ (r \notin sent => Nowhere(r))
  BY DEF CopiesInv
<1>2. Single(r)'
  BY DEF LifeStep
<1>3. CASE Kept(r)
  <2>1. sent \subseteq sent'
    BY DEF LifeStep, NoneMoves, OnlyMoves, Moves, Arrives, Unserved, Answered,
           Unanswered, Assigned, Served, LeavesFront, LeavesBack, ClientEnds,
           WorkerEnds, AllEnd
  <2>2. QED
    BY <1>1, <1>2, <1>3, <2>1 DEF Kept, FrontKept, ToWorkerKept, BackKept,
                                  ToClientKept, Apart, Nowhere
<1>4. CASE Moves(r)
  <2>1. CASE Arrives(r)
    BY <1>1, <1>2, <2>1 DEF Arrives, ToWorkerKept, BackKept, ToClientKept,
                            Apart, Nowhere
  <2>2. CASE Unserved(r)
    BY <1>1, <1>2, <2>2 DEF Unserved, LeavesFront, ToWorkerKept, BackKept,
                            ToClientKept, Apart, Nowhere
  <2>3. CASE Answered(r) \/ Unanswered(r)
    BY <1>1, <1>2, <2>3 DEF Answered, Unanswered, LeavesBack, ToWorkerKept,
                            FrontKept, ToClientKept, Apart, Nowhere
  <2>4. ASSUME NEW w \in Workers, Assigned(r, w)
        PROVE  Apart(r)' /\ (r \notin sent' => Nowhere(r)')
    BY <1>1, <2>4 DEF Assigned, LeavesFront, BackKept, ToClientKept, Apart, Nowhere
  <2>5. ASSUME NEW w \in Workers, Served(r, w)
        PROVE  Apart(r)' /\ (r \notin sent' => Nowhere(r)')
    BY <1>1, <2>5 DEF Served, FrontKept, ToClientKept, Apart, Nowhere
  <2>6. QED
    BY <1>2, <1>4, <2>1, <2>2, <2>3, <2>4, <2>5 DEF Moves
<1>5. ASSUME NEW c \in Clients, ClientEnds(c)
      PROVE  Apart(r)' /\ (r \notin sent' => Nowhere(r)')
  BY <1>1, <1>5 DEF ClientEnds, FrontKept, ToWorkerKept, BackKept, ToClientKept,
                    Apart, Nowhere
<1>6. ASSUME NEW w \in Workers, WorkerEnds(w)
      PROVE  Apart(r)' /\ (r \notin sent' => Nowhere(r)')
  BY <1>1, <1>6 DEF WorkerEnds, FrontKept, ToWorkerKept, BackKept, ToClientKept,
                    Apart, Nowhere
<1>7. CASE AllEnd
  BY <1>2, <1>7 DEF AllEnd, Nowhere, Apart
<1>8. QED
  BY <1>2, <1>3, <1>4, <1>5, <1>6, <1>7 DEF LifeStep, NoneMoves, OnlyMoves

\* A request is in one place, and only if its client sent it.
LEMMA AlwaysCopiesInv == Spec => []CopiesInv
<1>1. Init => CopiesInv
  BY DEF Init, CopiesInv, Single, OneIn, Apart, Nowhere, Where
<1>2. QED
  BY <1>1, NextCopiesInv, Typed, PTL DEF Spec

-----------------------------------------------------------------------------
(* Copies and losses *)

\* What Positions holds,
LEMMA PositionsElement ==
    ASSUME NEW pipes, NEW r, NEW x
    PROVE  x \in Positions(pipes, r) <=>
             \E p \in DOMAIN pipes : \E i \in DOMAIN pipes[p] :
                back(pipes[p][i]) = r /\ x = <<p, i>>
  BY DEF Positions

\* and that it is where Where says.
LEMMA PositionsOne ==
    ASSUME NEW pipes, NEW r
    PROVE  /\ OneIn(pipes, r) => \A x, y \in Positions(pipes, r) : x = y
           /\ Positions(pipes, r) = {} <=> Where(pipes, r) = {}
<1>1. OneIn(pipes, r) => \A x, y \in Positions(pipes, r) : x = y
  BY PositionsElement DEF OneIn
<1>2. Positions(pipes, r) # {} => Where(pipes, r) # {}
  BY PositionsElement DEF Where
<1>3. ASSUME NEW p \in Where(pipes, r)
      PROVE  Positions(pipes, r) # {}
  <2>1. PICK i \in DOMAIN pipes[p] : p \in DOMAIN pipes /\ back(pipes[p][i]) = r
    BY DEF Where
  <2>2. <<p, i>> \in Positions(pipes, r)
    BY <2>1, PositionsElement
  <2>3. QED
    BY <2>2
<1>4. QED
  BY <1>1, <1>2, <1>3

\* A request has no copy if no message carries it.
LEMMA CopiesEmpty ==
    ASSUME NEW r
    PROVE  /\ Copies(r) = {} <=> Nowhere(r)
           /\ Copies(r)' = {} <=> Nowhere(r)'
<1>1. \A S : {<<"front", x>> : x \in S} = {} <=> S = {}
  OBVIOUS
<1>2. /\ \A S : {<<"worker", x>> : x \in S} = {} <=> S = {}
      /\ \A S : {<<"back", x>> : x \in S} = {} <=> S = {}
      /\ \A S : {<<"client", x>> : x \in S} = {} <=> S = {}
  OBVIOUS
<1>3. \A pipes : Positions(pipes, r) = {} <=> Where(pipes, r) = {}
  BY PositionsOne
<1>4. Copies(r) = {} <=> Nowhere(r)
  <2>1. Copies(r) = {} <=>
          /\ {<<"front", x>> : x \in Positions(front_q, r)} = {}
          /\ {<<"worker", x>> : x \in Positions(to_worker, r)} = {}
          /\ {<<"back", x>> : x \in Positions(back_q, r)} = {}
          /\ {<<"client", x>> : x \in Positions(to_client, r)} = {}
    BY DEF Copies
  <2>2. QED
    BY <1>1, <1>2, <1>3, <2>1 DEF Nowhere
<1>5. Copies(r)' = {} <=> Nowhere(r)'
  <2>1. Copies(r)' = {} <=>
          /\ {<<"front", x>> : x \in Positions(front_q', r)} = {}
          /\ {<<"worker", x>> : x \in Positions(to_worker', r)} = {}
          /\ {<<"back", x>> : x \in Positions(back_q', r)} = {}
          /\ {<<"client", x>> : x \in Positions(to_client', r)} = {}
    BY DEF Copies
  <2>2. QED
    BY <1>1, <1>2, <1>3, <2>1 DEF Nowhere
<1>6. QED
  BY <1>4, <1>5

\* A request, or its answer, is in one message at most, and only if its client
\* sent it.
THEOREM OneCopy == Spec => []AtMostOneCopy
<1>1. CopiesInv => AtMostOneCopy
  <2> SUFFICES ASSUME CopiesInv, NEW r \in Requests
               PROVE  /\ \A x, y \in Copies(r) : x = y
                      /\ Copies(r) # {} => r \in sent
    BY DEF AtMostOneCopy
  <2>1. Single(r) /\ Apart(r) /\ (r \notin sent => Nowhere(r))
    BY DEF CopiesInv
  <2> DEFINE F == Positions(front_q, r)
             W == Positions(to_worker, r)
             B == Positions(back_q, r)
             C == Positions(to_client, r)
  <2>2. /\ \A x, y \in F : x = y
        /\ \A x, y \in W : x = y
        /\ \A x, y \in B : x = y
        /\ \A x, y \in C : x = y
    BY <2>1, PositionsOne DEF Single
  <2>3. /\ F = {} \/ W = {}
        /\ F = {} \/ B = {}
        /\ F = {} \/ C = {}
        /\ W = {} \/ B = {}
        /\ W = {} \/ C = {}
        /\ B = {} \/ C = {}
    BY <2>1, PositionsOne DEF Apart
  <2>4. Copies(r) = {<<"front", x>> : x \in F} \cup {<<"worker", x>> : x \in W} \cup
                    {<<"back", x>> : x \in B} \cup {<<"client", x>> : x \in C}
    BY DEF Copies
  <2> HIDE DEF F, W, B, C
  <2>5. \A x, y \in Copies(r) : x = y
    BY <2>2, <2>3, <2>4
  <2>6. QED
    BY <2>1, <2>5, CopiesEmpty
<1>2. QED
  BY <1>1, AlwaysCopiesInv, PTL

\* The list of ways in which a request is lost is complete.
THEOREM LossesExplained == Spec => LossesHaveACause
<1> DEFINE Explained ==
             \A r \in Requests : Copies(r) # {} /\ Copies(r)' = {} =>
               \/ pc' = "dead"
               \/ Where(to_client, r) # {}
               \/ Where(to_worker, r) # {} /\ workers_up' # workers_up
               \/ /\ Where(front_q, r) # {}
                  /\ \/ vec_work_ = {}
                     \/ \E w \in Registered(vec_work_) :
                           w \notin workers_up \/ ~ HasRoom(to_worker, w)
               \/ /\ Where(back_q, r) # {}
                  /\ Owner[r] \notin clients_up \/ ~ HasRoom(to_client, Owner[r])
<1>1. CopiesInv /\ LifeStep => Explained
  <2> SUFFICES ASSUME CopiesInv, LifeStep, NEW r \in Requests,
                      ~ Nowhere(r), Nowhere(r)'
               PROVE  \/ pc' = "dead"
                      \/ Where(to_client, r) # {}
                      \/ Where(to_worker, r) # {} /\ workers_up' # workers_up
                      \/ /\ Where(front_q, r) # {}
                         /\ \/ vec_work_ = {}
                            \/ \E w \in Registered(vec_work_) :
                                  w \notin workers_up \/ ~ HasRoom(to_worker, w)
                      \/ /\ Where(back_q, r) # {}
                         /\ \/ Owner[r] \notin clients_up
                            \/ ~ HasRoom(to_client, Owner[r])
    BY CopiesEmpty
  <2>1. ~ Kept(r)
    BY DEF Kept, FrontKept, ToWorkerKept, BackKept, ToClientKept, Nowhere
  <2>2. CASE Moves(r)
    <3>1. ~ Arrives(r) /\ ~ Answered(r)
      BY DEF Arrives, Answered, Nowhere
    <3>2. \A w \in Workers : ~ Assigned(r, w) /\ ~ Served(r, w)
      BY DEF Assigned, Served, Nowhere
    <3>3. Unserved(r) \/ Unanswered(r)
      BY <2>2, <3>1, <3>2 DEF Moves
    <3>4. QED
      BY <3>3 DEF Unserved, Unanswered, LeavesFront, LeavesBack
  <2>3. ASSUME NEW c \in Clients, ClientEnds(c)
        PROVE  Where(to_client, r) # {}
    BY <2>1, <2>3 DEF ClientEnds, Kept
  <2>4. ASSUME NEW w \in Workers, WorkerEnds(w)
        PROVE  Where(to_worker, r) # {} /\ workers_up' # workers_up
    BY <2>1, <2>4 DEF WorkerEnds, Kept
  <2>5. QED
    BY <2>1, <2>2, <2>3, <2>4 DEF LifeStep, NoneMoves, OnlyMoves, AllEnd
<1>2. TypeInv /\ CopiesInv /\ [Next]_vars => Explained
  BY <1>1, NextLife
<1>3. QED
  BY <1>2, AlwaysCopiesInv, Typed, PTL DEF Spec, LossesHaveACause

-----------------------------------------------------------------------------
(* The promise about requests *)

\* What Place says of a request that is in one place,
LEMMA PlaceOf ==
    ASSUME TypeInv, CopiesInv, NEW r \in Requests
    PROVE  /\ r \notin sent => Place(r) = <<"unsent">>
           /\ Where(front_q, r) # {} => r \in sent /\ Place(r) = <<"queued">>
           /\ Where(to_client, r) # {} => r \in sent /\ Place(r) = <<"answered">>
           /\ \A w : Where(to_worker, r) = {w} \/ Where(back_q, r) = {w}
                       => r \in sent /\ Place(r) = <<"given", w>>
           /\ Where(back_q, r) # {} => \E w \in Workers : Where(back_q, r) = {w}
<1>1. Single(r) /\ Apart(r) /\ (r \notin sent => Nowhere(r))
  BY DEF CopiesInv
<1>2. \A w : (CHOOSE v \in {w} : TRUE) = w
  OBVIOUS
<1>3. ASSUME NEW w, Where(to_worker, r) = {w} \/ Where(back_q, r) = {w}
      PROVE  r \in sent /\ Place(r) = <<"given", w>>
  <2>1. Holders(r) = {w}
    BY <1>1, <1>3 DEF Apart, Holders
  <2>2. /\ r \in sent
        /\ Where(front_q, r) = {} /\ Where(to_client, r) = {}
    BY <1>1, <1>3 DEF Apart, Nowhere
  <2>3. QED
    BY <1>2, <2>1, <2>2 DEF Place
<1>4. ASSUME Where(back_q, r) # {}
      PROVE  \E w \in Workers : Where(back_q, r) = {w}
  <2>1. PICK w \in Where(back_q, r) : TRUE
    BY <1>4
  <2>2. Where(back_q, r) = {w}
    BY <1>1, <2>1 DEF Single, OneIn, Where
  <2>3. w \in Workers
    BY <2>1 DEF Where, TypeInv, PipesOK, BackOK
  <2>4. QED
    BY <2>2, <2>3
<1>5. r \notin sent => Place(r) = <<"unsent">>
  BY DEF Place
<1>6. Where(front_q, r) # {} => r \in sent /\ Place(r) = <<"queued">>
  BY <1>1 DEF Nowhere, Place
<1>7. Where(to_client, r) # {} => r \in sent /\ Place(r) = <<"answered">>
  BY <1>1 DEF Nowhere, Apart, Place
<1>8. QED
  BY <1>3, <1>4, <1>5, <1>6, <1>7

\* and the same after a step.
LEMMA NextPlaceOf ==
    ASSUME CopiesInv', NEW r \in Requests, r \in sent'
    PROVE  /\ Where(front_q', r) # {} => Place(r)' = <<"queued">>
           /\ Where(to_client', r) # {} => Place(r)' = <<"answered">>
           /\ \A w : Where(to_worker', r) = {w} \/ Where(back_q', r) = {w}
                       => Place(r)' = <<"given", w>>
           /\ Nowhere(r)' => Place(r)' = <<"over">>
<1>1. Apart(r)'
  BY DEF CopiesInv
<1>2. \A w : (CHOOSE v \in {w} : TRUE) = w
  OBVIOUS
<1>3. ASSUME NEW w, Where(to_worker', r) = {w} \/ Where(back_q', r) = {w}
      PROVE  Place(r)' = <<"given", w>>
  <2>1. Holders(r)' = {w}
    BY <1>1, <1>3 DEF Apart, Holders
  <2>2. Where(front_q', r) = {} /\ Where(to_client', r) = {}
    BY <1>1, <1>3 DEF Apart
  <2>3. QED
    BY <1>2, <2>1, <2>2 DEF Place
<1>4. Where(front_q', r) # {} => Place(r)' = <<"queued">>
  BY DEF Place
<1>5. Where(to_client', r) # {} => Place(r)' = <<"answered">>
  BY <1>1 DEF Apart, Place
<1>6. Nowhere(r)' => Place(r)' = <<"over">>
  BY DEF Nowhere, Holders, Place
<1>7. QED
  BY <1>3, <1>4, <1>5, <1>6

\* A request that no step moves stays in its place.
LEMMA KeptPlace ==
    ASSUME NEW r \in Requests, Kept(r), r \in sent' <=> r \in sent
    PROVE  Place(r)' = Place(r)
  BY DEF Kept, FrontKept, ToWorkerKept, BackKept, ToClientKept, Place, Holders

\* A step that moves one request is a step of RequestLife for it, or leaves it
\* with the worker that has it.
LEMMA MovePlace ==
    ASSUME TypeInv, CopiesInv, CopiesInv', NEW r \in Requests, Moves(r)
    PROVE  \/ Place(r) = <<"unsent">> /\ Place(r)' = <<"queued">>
           \/ \E w \in Workers : Place(r) = <<"queued">> /\ Place(r)' = <<"given", w>>
           \/ \E w \in Workers : /\ Place(r) = <<"given", w>>
                                 /\ Place(r)' = <<"answered">>
           \/ \E w \in Workers : /\ Place(r) = <<"given", w>>
                                 /\ Place(r)' = <<"over">>
           \/ Place(r) = <<"queued">> /\ Place(r)' = <<"over">>
           \/ Place(r)' = Place(r)
<1>1. Apart(r)
  BY DEF CopiesInv
<1>2. CASE Arrives(r)
  BY <1>2, PlaceOf, NextPlaceOf DEF Arrives
<1>3. CASE Unserved(r)
  <2>1. Place(r) = <<"queued">> /\ r \in sent'
    BY <1>3, PlaceOf DEF Unserved, LeavesFront
  <2>2. Nowhere(r)'
    BY <1>1, <1>3 DEF Unserved, LeavesFront, ToWorkerKept, BackKept, ToClientKept,
                      Apart, Nowhere
  <2>3. QED
    BY <2>1, <2>2, NextPlaceOf
<1>4. ASSUME NEW w \in Workers, Assigned(r, w)
      PROVE  Place(r) = <<"queued">> /\ Place(r)' = <<"given", w>>
  BY <1>4, PlaceOf, NextPlaceOf DEF Assigned, LeavesFront
<1>5. CASE Answered(r) \/ Unanswered(r)
  <2>1. LeavesBack(r)
    BY <1>5 DEF Answered, Unanswered
  <2>2. PICK w \in Workers : Where(back_q, r) = {w}
    BY <2>1, PlaceOf DEF LeavesBack
  <2>3. Place(r) = <<"given", w>> /\ r \in sent'
    BY <2>1, <2>2, PlaceOf DEF LeavesBack
  <2>4. CASE Answered(r)
    BY <2>3, <2>4, NextPlaceOf DEF Answered
  <2>5. CASE Unanswered(r)
    <3>1. Nowhere(r)'
      BY <1>1, <2>1, <2>5 DEF Unanswered, LeavesBack, FrontKept, ToWorkerKept,
                              ToClientKept, Apart, Nowhere
    <3>2. QED
      BY <2>3, <3>1, NextPlaceOf
  <2>6. QED
    BY <1>5, <2>4, <2>5
<1>6. ASSUME NEW w \in Workers, Served(r, w)
      PROVE  Place(r)' = Place(r)
  <2>1. Place(r) = <<"given", w>> /\ r \in sent'
    BY <1>6, PlaceOf DEF Served
  <2>2. Place(r)' = <<"given", w>>
    BY <1>6, <2>1, NextPlaceOf DEF Served
  <2>3. QED
    BY <2>1, <2>2
<1>7. QED
  BY <1>2, <1>3, <1>4, <1>5, <1>6 DEF Moves

\* The refinement mapping: what RequestLife calls place.
Places == [r \in Requests |-> Place(r)]

\* The requests that end together with a connection.
LEMMA FinishPlaces ==
    ASSUME NEW S \in SUBSET Requests, NEW p,
           p \in {Life!Queued, Life!Answered} \cup {Life!Given(w) : w \in Workers},
           \A r \in S : Place(r) = p /\ Place(r)' = <<"over">>,
           \A r \in Requests \ S : Place(r)' = Place(r)
    PROVE  Life!Next \/ Places' = Places
<1>1. CASE S = {}
  BY <1>1 DEF Places
<1>2. CASE S # {}
  <2>1. Places' = [r \in Requests |-> IF r \in S THEN Life!Over ELSE Places[r]]
    BY DEF Places, Life!Over
  <2>2. \A r \in S : Places[r] = p
    BY DEF Places
  <2>3. Life!Finish(S)
    BY <1>2, <2>1, <2>2 DEF Places, Life!Finish
  <2>4. QED
    BY <2>3 DEF Life!Next
<1>3. QED
  BY <1>1, <1>2

\* A single request that ends.
LEMMA FinishOne ==
    ASSUME NEW r \in Requests, NEW p,
           p \in {Life!Queued, Life!Answered} \cup {Life!Given(w) : w \in Workers},
           Places[r] = p, Places' = [Places EXCEPT ![r] = Life!Over]
    PROVE  Life!Next
<1>1. Places' = [q \in Requests |-> IF q \in {r} THEN Life!Over ELSE Places[q]]
  BY DEF Places
<1>2. {r} \in SUBSET Requests /\ {r} # {} /\ \A q \in {r} : Places[q] = p
  OBVIOUS
<1>3. Life!Finish({r})
  BY <1>1, <1>2 DEF Places, Life!Finish
<1>4. QED
  BY <1>2, <1>3 DEF Life!Next

\* Every step of the proxy is one of RequestLife, or none.
LEMMA StepPlaces ==
    ASSUME TypeInv, CopiesInv, CopiesInv', LifeStep
    PROVE  Life!Next \/ Places' = Places
<1>1. CASE NoneMoves
  BY <1>1, KeptPlace DEF NoneMoves, Places
<1>2. ASSUME NEW r \in Requests, OnlyMoves(r)
      PROVE  Life!Next \/ Places' = Places
  <2>1. \A q \in Requests \ {r} : Place(q)' = Place(q)
    <3> SUFFICES ASSUME NEW q \in Requests, q # r
                 PROVE  Place(q)' = Place(q)
      OBVIOUS
    <3>1. Kept(q)
      BY <1>2 DEF OnlyMoves
    <3>2. q \in sent' <=> q \in sent
      BY <1>2 DEF OnlyMoves, Moves, Arrives, Unserved, Answered, Unanswered,
                  Assigned, Served, LeavesFront, LeavesBack
    <3>3. QED
      BY <3>1, <3>2, KeptPlace
  <2>2. Places' = [Places EXCEPT ![r] = Place(r)']
    BY <2>1 DEF Places
  <2>3. Places[r] = Place(r)
    BY DEF Places
  <2>4. CASE Place(r) = <<"unsent">> /\ Place(r)' = <<"queued">>
    <3>1. Life!Arrive(r)
      BY <2>2, <2>3, <2>4 DEF Life!Arrive, Life!Unsent, Life!Queued, Places
    <3>2. QED
      BY <3>1 DEF Life!Next
  <2>5. ASSUME NEW w \in Workers,
               Place(r) = <<"queued">> /\ Place(r)' = <<"given", w>>
        PROVE  Life!Next
    <3>1. Life!Assign(r, w)
      BY <2>2, <2>3, <2>5 DEF Life!Assign, Life!Queued, Life!Given, Places
    <3>2. QED
      BY <3>1 DEF Life!Next
  <2>6. ASSUME NEW w \in Workers,
               Place(r) = <<"given", w>> /\ Place(r)' = <<"answered">>
        PROVE  Life!Next
    <3>1. Life!Answer(r)
      BY <2>2, <2>3, <2>6 DEF Life!Answer, Life!Answered, Life!Given, Places
    <3>2. QED
      BY <3>1 DEF Life!Next
  <2>7. ASSUME NEW w \in Workers,
               Place(r) = <<"given", w>> /\ Place(r)' = <<"over">>
        PROVE  Life!Next \/ Places' = Places
    <3>1. Places[r] = Life!Given(w)
      BY <2>3, <2>7 DEF Life!Given
    <3>2. Places' = [Places EXCEPT ![r] = Life!Over]
      BY <2>2, <2>7 DEF Life!Over
    <3>3. Life!Given(w) \in {Life!Queued, Life!Answered}
                              \cup {Life!Given(v) : v \in Workers}
      OBVIOUS
    <3>4. QED
      BY <3>1, <3>2, <3>3, FinishOne
  <2>8. CASE Place(r) = <<"queued">> /\ Place(r)' = <<"over">>
    <3>1. Places[r] = Life!Queued
      BY <2>3, <2>8 DEF Life!Queued
    <3>2. Places' = [Places EXCEPT ![r] = Life!Over]
      BY <2>2, <2>8 DEF Life!Over
    <3>3. QED
      BY <3>1, <3>2, FinishOne
  <2>9. CASE Place(r)' = Place(r)
    BY <2>1, <2>9 DEF Places
  <2>10. QED
    BY <1>2, <2>4, <2>5, <2>6, <2>7, <2>8, <2>9, MovePlace DEF OnlyMoves
<1>3. ASSUME NEW c \in Clients, ClientEnds(c)
      PROVE  Life!Next \/ Places' = Places
  <2> DEFINE S == {r \in Requests : ~ ToClientKept(r)}
  <2>1. ASSUME NEW r \in Requests, r \in S
        PROVE  Place(r) = Life!Answered /\ Place(r)' = <<"over">>
    <3>1. Where(to_client, r) = {c} /\ Where(to_client', r) = {}
      BY <1>3, <2>1 DEF ClientEnds
    <3>2. r \in sent' /\ Place(r) = Life!Answered
      BY <1>3, <3>1, PlaceOf DEF ClientEnds, Life!Answered
    <3>3. Nowhere(r)'
      BY <1>3, <3>1 DEF ClientEnds, CopiesInv, Apart, FrontKept, ToWorkerKept,
                        BackKept, Nowhere
    <3>4. QED
      BY <3>2, <3>3, NextPlaceOf
  <2>2. ASSUME NEW r \in Requests, r \notin S
        PROVE  Place(r)' = Place(r)
    BY <1>3, <2>2, KeptPlace DEF ClientEnds, Kept
  <2>3. Life!Answered \in {Life!Queued, Life!Answered}
                            \cup {Life!Given(w) : w \in Workers}
    OBVIOUS
  <2> HIDE DEF S
  <2>4. S \in SUBSET Requests
    BY DEF S
  <2>5. QED
    BY <2>1, <2>2, <2>3, <2>4, FinishPlaces
<1>4. ASSUME NEW w \in Workers, WorkerEnds(w)
      PROVE  Life!Next \/ Places' = Places
  <2> DEFINE S == {r \in Requests : ~ ToWorkerKept(r)}
  <2>1. ASSUME NEW r \in Requests, r \in S
        PROVE  Place(r) = Life!Given(w) /\ Place(r)' = <<"over">>
    <3>1. Where(to_worker, r) = {w} /\ Where(to_worker', r) = {}
      BY <1>4, <2>1 DEF WorkerEnds
    <3>2. r \in sent' /\ Place(r) = Life!Given(w)
      BY <1>4, <3>1, PlaceOf DEF WorkerEnds, Life!Given
    <3>3. Nowhere(r)'
      BY <1>4, <3>1 DEF WorkerEnds, CopiesInv, Apart, FrontKept, ToClientKept,
                        BackKept, Nowhere
    <3>4. QED
      BY <3>2, <3>3, NextPlaceOf
  <2>2. ASSUME NEW r \in Requests, r \notin S
        PROVE  Place(r)' = Place(r)
    BY <1>4, <2>2, KeptPlace DEF WorkerEnds, Kept
  <2>3. Life!Given(w) \in {Life!Queued, Life!Answered}
                            \cup {Life!Given(v) : v \in Workers}
    OBVIOUS
  <2>4. S \in SUBSET Requests
    OBVIOUS
  <2> HIDE DEF S
  <2>5. QED
    BY <2>1, <2>2, <2>3, <2>4, FinishPlaces
<1>5. CASE AllEnd
  <2>1. \A r \in Requests :
           Place(r)' = IF Place(r) = Life!Unsent THEN Life!Unsent ELSE Life!Over
    <3> SUFFICES ASSUME NEW r \in Requests
                 PROVE  Place(r)' = IF Place(r) = Life!Unsent THEN Life!Unsent
                                                              ELSE Life!Over
      OBVIOUS
    <3>1. CASE r \in sent
      <4>1. Place(r) # Life!Unsent
        BY <3>1 DEF Place, Life!Unsent
      <4>2. Place(r)' = Life!Over
        BY <1>5, <3>1, NextPlaceOf DEF AllEnd, Life!Over
      <4>3. QED
        BY <4>1, <4>2
    <3>2. CASE r \notin sent
      BY <1>5, <3>2 DEF AllEnd, Place, Life!Unsent
    <3>3. QED
      BY <3>1, <3>2
  <2>2. Life!Stop
    BY <2>1 DEF Life!Stop, Places
  <2>3. QED
    BY <2>2 DEF Life!Next
<1>6. QED
  BY <1>1, <1>2, <1>3, <1>4, <1>5 DEF LifeStep

\* The proxy implements RequestLife: a request waits, is with one worker, and
\* is answered once, or is over.
THEOREM PromiseKept == Spec => KeepsPromise
<1>1. Init => Life!Init
  BY DEF Init, Life!Init, Life!Unsent, Place
<1>2. TypeInv /\ CopiesInv /\ CopiesInv' /\ [Next]_vars => [Life!Next]_Places
  BY NextLife, StepPlaces
<1>3. QED
  BY <1>1, <1>2, AlwaysCopiesInv, Typed, PTL DEF Spec, KeepsPromise, Life!Spec, Places
=============================================================================
