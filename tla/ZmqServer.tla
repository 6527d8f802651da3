------------------------------ MODULE ZmqServer ------------------------------
(***************************************************************************)
(* The proxy: Server::Start of zmq_server.cc between its two ROUTER        *)
(* sockets, with the clients and the workers at their far ends.            *)
(*                                                                         *)
(* One iteration of the loop is the steps                                  *)
(*                                                                         *)
(*    poll -> back -> front -> beat -> rearm -> check -> poll              *)
(*                                                                         *)
(* each of which reads the clock and the sockets at a time of its own.     *)
(* Between any two of them peers send, receive, leave and come back, and   *)
(* the clock moves.                                                        *)
(*                                                                         *)
(* A client speaks to the front socket, a worker to the back socket.  A    *)
(* request is <<r>> from a DEALER client and <<"", r>> from a REQ client;  *)
(* on its way to a worker and back the client's identity is in front of    *)
(* it.  A worker's message of one frame is a heartbeat or nothing.         *)
(***************************************************************************)
EXTENDS WorkerPool, RouterSocket, FiniteSets

CONSTANTS Workers,       (* routing identities of workers                  *)
          Clients,       (* routing identities of clients                  *)
          ReqClients,    (* the clients whose socket is a REQ              *)
          Requests,      (* the payloads clients may send, each once       *)
          Owner,         (* Owner[r] is the client that may send r         *)
          MaxClock,      (* bound: the last value of the clock             *)
          ClockMayStep   (* TRUE when the time of day may be set           *)

HEARTBEAT_KEY == "HEARTBEAT"
Delimiter     == ""                   \* the empty frame of a REQ envelope
NoWorkerText  == "not have woker!"
OtherText     == "other"              \* any other single frame of a worker

ASSUME ServerAssumption ==
    /\ ReqClients \subseteq Clients
    /\ Owner \in [Requests -> Clients]
    /\ MaxClock \in Nat
    /\ ClockMayStep \in BOOLEAN
    /\ NoWorkerText \notin Requests

\* The properties that follow a request through the proxy know it by its
\* payload.  For them the payloads of requests and the two texts that workers
\* and the proxy send of their own differ; the code does not depend on it.
ASSUME PayloadAssumption == {HEARTBEAT_KEY, OtherText} \cap Requests = {}

VARIABLES clock,        (* what s_clock() reads                            *)
          pc,           (* the step of the loop that is next, or "dead"    *)
          nitems,       (* how many poll items the last poll() covered     *)
          revents,      (* POLLIN in pollitems[0] and pollitems[1]         *)
          vec_work_,    (* the table of workers                            *)
          heartbeat_at, (* when the next round of heartbeats is due        *)
          checked,      (* history: the clock the last CheckWorker read    *)
          back_q,       (* per worker, what it sent and the proxy not read *)
          front_q,      (* per client, likewise                            *)
          to_worker,    (* per worker, what the proxy sent it              *)
          to_client,    (* per client, likewise                            *)
          workers_up,   (* workers with a live connection                  *)
          clients_up,   (* clients with a live connection                  *)
          sent          (* the requests sent so far                        *)

loopVars == <<pc, nitems, revents, vec_work_, heartbeat_at, checked>>
peerVars == <<workers_up, clients_up, sent>>
vars == <<clock, loopVars, back_q, front_q, to_worker, to_client, peerVars>>

-----------------------------------------------------------------------------
(* Messages *)

RequestBody(r) == IF Owner[r] \in ReqClients THEN <<Delimiter, r>> ELSE <<r>>

FromClient == {RequestBody(r) : r \in Requests}
Addressed  == {pushmem(Owner[r], RequestBody(r)) : r \in Requests}
FromWorker == {<<HEARTBEAT_KEY>>, <<OtherText>>} \cup Addressed
ToWorker   == {<<HEARTBEAT_KEY>>} \cup Addressed
NoWorkerReply == <<Delimiter, NoWorkerText>>
ToClient   == FromClient \cup {NoWorkerReply}

Init ==
    /\ clock = 0
    /\ pc = "poll"
    /\ nitems = 0
    /\ revents = [back |-> FALSE, front |-> FALSE]
    /\ vec_work_ = {}
    /\ heartbeat_at = clock + HEARTBEAT_INTERVAL
    /\ checked = clock
    /\ back_q = [w \in Workers |-> << >>]
    /\ front_q = [c \in Clients |-> << >>]
    /\ to_worker = [w \in Workers |-> << >>]
    /\ to_client = [c \in Clients |-> << >>]
    /\ workers_up = Workers
    /\ clients_up = Clients
    /\ sent = {}

-----------------------------------------------------------------------------
(* The loop of Server::Start *)

\* Mutants: both sockets are always covered; the front socket only while no
\* worker has anything to say.
CoversBoth      == 2
CoversBackFirst == IF vec_work_ # {} /\ ~ Readable(back_q) THEN 2 ELSE 1

\* How many items poll() covers: the front socket only while there are workers.
Covered == IF vec_work_ # {} THEN 2 ELSE 1

\* poll() clears and sets the revents of the items it covers: with one item,
\* the revents of the front socket keep the value of an earlier poll.  It
\* returns when a covered socket is readable, or with none readable after its
\* timeout.
Poll ==
    /\ pc = "poll"
    /\ nitems' = Covered
    /\ revents' = [back  |-> Readable(back_q),
                   front |-> IF Covered = 2 THEN Readable(front_q)
                                            ELSE revents.front]
    /\ pc' = "back"
    /\ UNCHANGED <<clock, vec_work_, heartbeat_at, checked, back_q, front_q,
                   to_worker, to_client, peerVars>>

BackIdle ==
    /\ pc = "back"
    /\ ~ revents.back
    /\ pc' = "front"
    /\ UNCHANGED <<clock, nitems, revents, vec_work_, heartbeat_at, checked,
                   back_q, front_q, to_worker, to_client, peerVars>>

\* Receive a message of worker w on the back socket and pop the identity.
ReceiveBack(w) ==
    /\ pc = "back"
    /\ revents.back
    /\ back_q[w] # << >>
    /\ back_q' = [back_q EXCEPT ![w] = Tail(@)]
    /\ pc' = "front"

BackBody(w) == pop(RouterRecv(back_q, w))

\* Mutant: any single frame counts.
IsSingle(m) == size(m) = 1

IsHeartbeat(m) == size(m) = 1 /\ back(m) = HEARTBEAT_KEY

\* A single frame that is the heartbeat key registers or refreshes w.
BackHeartbeat(w) ==
    /\ ReceiveBack(w)
    /\ IsHeartbeat(BackBody(w))
    /\ vec_work_' = MakeNewWorker(vec_work_, w, clock)
    /\ UNCHANGED <<clock, nitems, revents, heartbeat_at, checked, front_q,
                   to_worker, to_client, peerVars>>

\* Any other single frame is dropped.
BackOther(w) ==
    /\ ReceiveBack(w)
    /\ size(BackBody(w)) = 1
    /\ ~ IsHeartbeat(BackBody(w))
    /\ UNCHANGED <<clock, nitems, revents, vec_work_, heartbeat_at, checked,
                   front_q, to_worker, to_client, peerVars>>

\* Mutants: the answer is sent but stays in the socket; only workers in the
\* table may answer.
BackReplyRepeats(w) ==
    /\ pc = "back"
    /\ revents.back
    /\ back_q[w] # << >>
    /\ size(BackBody(w)) # 1
    /\ to_client' = RouterSend(to_client, clients_up, BackBody(w))
    /\ pc' = "front"
    /\ UNCHANGED <<clock, nitems, revents, vec_work_, heartbeat_at, checked,
                   back_q, front_q, to_worker, peerVars>>
BackReplyIfRegistered(w) ==
    /\ ReceiveBack(w)
    /\ size(BackBody(w)) # 1
    /\ to_client' = IF w \in Registered(vec_work_)
                    THEN RouterSend(to_client, clients_up, BackBody(w))
                    ELSE to_client
    /\ UNCHANGED <<clock, nitems, revents, vec_work_, heartbeat_at, checked,
                   front_q, to_worker, peerVars>>

\* Anything longer goes to the front socket, registered worker or not.
BackReply(w) ==
    /\ ReceiveBack(w)
    /\ size(BackBody(w)) # 1
    /\ to_client' = RouterSend(to_client, clients_up, BackBody(w))
    /\ UNCHANGED <<clock, nitems, revents, vec_work_, heartbeat_at, checked,
                   front_q, to_worker, peerVars>>

\* Mutant: with nothing to read, straight to the next poll().
FrontIdleContinues ==
    /\ pc = "front"
    /\ ~ revents.front
    /\ pc' = "poll"
    /\ UNCHANGED <<clock, nitems, revents, vec_work_, heartbeat_at, checked,
                   back_q, front_q, to_worker, to_client, peerVars>>

FrontIdle ==
    /\ pc = "front"
    /\ ~ revents.front
    /\ pc' = "beat"
    /\ UNCHANGED <<clock, nitems, revents, vec_work_, heartbeat_at, checked,
                   back_q, front_q, to_worker, to_client, peerVars>>

\* Mutants: the message stays in the socket; another receive follows without
\* another poll().
PeekFront(c) ==
    /\ pc = "front"
    /\ revents.front
    /\ front_q[c] # << >>
    /\ front_q' = front_q
    /\ pc' = "beat"
DrainFront(c) ==
    /\ pc = "front"
    /\ revents.front
    /\ front_q[c] # << >>
    /\ front_q' = [front_q EXCEPT ![c] = Tail(@)]
    /\ pc' = "front"

\* Receive a message of client c on the front socket.  The receive is a
\* blocking one: with revents.front set and no message there, the loop waits
\* here until a client sends.
ReceiveFront(c) ==
    /\ pc = "front"
    /\ revents.front
    /\ front_q[c] # << >>
    /\ front_q' = [front_q EXCEPT ![c] = Tail(@)]
    /\ pc' = "beat"

\* GetWorker fails: the client is told, in an envelope with a delimiter.
FrontRefuse(c) ==
    /\ ReceiveFront(c)
    /\ GetWorker(vec_work_) = {}
    /\ LET identity == front(RouterRecv(front_q, c)) IN
       to_client' = RouterSend(to_client, clients_up,
                               addstr(addstr(<<identity>>, Delimiter),
                                      NoWorkerText))
    /\ UNCHANGED <<clock, nitems, revents, vec_work_, heartbeat_at, checked,
                   back_q, to_worker, peerVars>>

\* Mutants: the client's identity is popped first; only the last frame of the
\* request is taken.
ForwardedWithoutClient(c, w) == pushmem(w, pop(RouterRecv(front_q, c)))
ForwardedLastFrame(c, w) ==
    pushmem(w, addstr(<<front(RouterRecv(front_q, c))>>,
                      back(RouterRecv(front_q, c))))

\* The worker's identity goes in front of the client's.
Forwarded(c, w) == pushmem(w, RouterRecv(front_q, c))

\* GetWorker picks w.
FrontForward(c, w) ==
    /\ ReceiveFront(c)
    /\ w \in GetWorker(vec_work_)
    /\ to_worker' = RouterSend(to_worker, workers_up, Forwarded(c, w))
    /\ UNCHANGED <<clock, nitems, revents, vec_work_, heartbeat_at, checked,
                   back_q, to_client, peerVars>>

NotDue ==
    /\ pc = "beat"
    /\ ~ (clock > heartbeat_at)
    /\ pc' = "check"
    /\ UNCHANGED <<clock, nitems, revents, vec_work_, heartbeat_at, checked,
                   back_q, front_q, to_worker, to_client, peerVars>>

\* One heartbeat to every entry of the table, dead or alive.
SendHeartbeats ==
    /\ pc = "beat"
    /\ clock > heartbeat_at
    /\ to_worker' =
         [w \in Workers |->
            IF w \in Registered(vec_work_)
            THEN RouterSend(to_worker, workers_up, <<w, HEARTBEAT_KEY>>)[w]
            ELSE to_worker[w]]
    /\ pc' = "rearm"
    /\ UNCHANGED <<clock, nitems, revents, vec_work_, heartbeat_at, checked,
                   back_q, front_q, to_client, peerVars>>

\* The timer is set from a second reading of the clock.
Rearm ==
    /\ pc = "rearm"
    /\ heartbeat_at' = clock + HEARTBEAT_INTERVAL
    /\ pc' = "check"
    /\ UNCHANGED <<clock, nitems, revents, vec_work_, checked, back_q,
                   front_q, to_worker, to_client, peerVars>>

Check ==
    /\ pc = "check"
    /\ vec_work_' = CheckWorker(vec_work_, clock)
    /\ checked' = clock
    /\ pc' = "poll"
    /\ UNCHANGED <<clock, nitems, revents, heartbeat_at, back_q, front_q,
                   to_worker, to_client, peerVars>>

\* poll() throws zmq::error_t when libzmq reports an error, an interrupted call
\* for instance.
PollThrows == pc = "poll"

\* So do the receives, and the sends of an answer, a refusal, a request and a
\* heartbeat, which follow when the message has left its queue.
SocketThrows ==
    \/ pc = "back" /\ revents.back
    \/ pc = "front" /\ revents.front
    \/ pc = "beat" /\ clock > heartbeat_at /\ vec_work_ # {}

\* Nothing catches the exception.  The process ends, its connections with it,
\* and all that was read, that waits to be read or that is on its way to a
\* peer is lost.
Throw ==
    /\ PollThrows \/ SocketThrows
    /\ pc' = "dead"
    /\ workers_up' = {} /\ clients_up' = {}
    /\ back_q' = [w \in Workers |-> << >>]
    /\ front_q' = [c \in Clients |-> << >>]
    /\ to_worker' = [w \in Workers |-> << >>]
    /\ to_client' = [c \in Clients |-> << >>]
    /\ UNCHANGED <<clock, nitems, revents, vec_work_, heartbeat_at, checked,
                   sent>>

Back  == BackIdle \/ \E w \in Workers : BackHeartbeat(w) \/ BackOther(w)
                                                         \/ BackReply(w)
Front == FrontIdle \/ \E c \in Clients : \/ FrontRefuse(c)
                                         \/ \E w \in Workers : FrontForward(c, w)
Beat  == NotDue \/ SendHeartbeats \/ Rearm

Server == Poll \/ Back \/ Front \/ Beat \/ Check

-----------------------------------------------------------------------------
(* The clock, the clients and the workers *)

Tick ==
    /\ clock < MaxClock
    /\ clock' = clock + 1
    /\ UNCHANGED <<loopVars, back_q, front_q, to_worker, to_client, peerVars>>

\* gettimeofday() follows the time of day, which may be set.
StepClock ==
    /\ ClockMayStep
    /\ clock' \in 0 .. MaxClock
    /\ UNCHANGED <<loopVars, back_q, front_q, to_worker, to_client, peerVars>>

ClientSend(r) ==
    /\ r \notin sent
    /\ Owner[r] \in clients_up
    /\ HasRoom(front_q, Owner[r])
    /\ front_q' = [front_q EXCEPT ![Owner[r]] = Append(@, RequestBody(r))]
    /\ sent' = sent \cup {r}
    /\ UNCHANGED <<clock, loopVars, back_q, to_worker, to_client, workers_up,
                   clients_up>>

ClientRecv(c) ==
    /\ to_client[c] # << >>
    /\ to_client' = [to_client EXCEPT ![c] = Tail(@)]
    /\ UNCHANGED <<clock, loopVars, back_q, front_q, to_worker, peerVars>>

\* What a client had sent stays readable; what was on its way to it is lost.
ClientDown(c) ==
    /\ c \in clients_up
    /\ clients_up' = clients_up \ {c}
    /\ to_client' = [to_client EXCEPT ![c] = << >>]
    /\ UNCHANGED <<clock, loopVars, back_q, front_q, to_worker, workers_up,
                   sent>>

WorkerSend(w, m) ==
    /\ w \in workers_up
    /\ HasRoom(back_q, w)
    /\ back_q' = [back_q EXCEPT ![w] = Append(@, m)]

WorkerBeat(w) ==
    /\ WorkerSend(w, <<HEARTBEAT_KEY>>)
    /\ UNCHANGED <<clock, loopVars, front_q, to_worker, to_client, peerVars>>

WorkerOther(w) ==
    /\ WorkerSend(w, <<OtherText>>)
    /\ UNCHANGED <<clock, loopVars, front_q, to_worker, to_client, peerVars>>

\* A worker answers a request with the request's own frames, and only reads
\* a heartbeat of the proxy.
WorkerServe(w) ==
    /\ to_worker[w] # << >>
    /\ to_worker' = [to_worker EXCEPT ![w] = Tail(@)]
    /\ IF Head(to_worker[w]) = <<HEARTBEAT_KEY>>
       THEN UNCHANGED back_q
       ELSE WorkerSend(w, Head(to_worker[w]))
    /\ UNCHANGED <<clock, loopVars, front_q, to_client, peerVars>>

\* The proxy is not told: the entry of w, if any, stays in the table.
WorkerDown(w) ==
    /\ w \in workers_up
    /\ workers_up' = workers_up \ {w}
    /\ to_worker' = [to_worker EXCEPT ![w] = << >>]
    /\ UNCHANGED <<clock, loopVars, back_q, front_q, to_client, clients_up,
                   sent>>

\* A worker that sets its identity comes back under the same one.
WorkerUp(w) ==
    /\ w \notin workers_up
    /\ workers_up' = workers_up \cup {w}
    /\ UNCHANGED <<clock, loopVars, back_q, front_q, to_worker, to_client,
                   clients_up, sent>>

Peers ==
    \/ \E r \in Requests : ClientSend(r)
    \/ \E c \in Clients : ClientRecv(c) \/ ClientDown(c)
    \/ \E w \in Workers : \/ WorkerBeat(w) \/ WorkerOther(w) \/ WorkerServe(w)
                          \/ WorkerDown(w) \/ WorkerUp(w)

\* Nothing in the repository starts the process again.
Gone == pc = "dead" /\ UNCHANGED vars

Live == pc # "dead" /\ (Tick \/ StepClock \/ Peers)

Next == Server \/ Throw \/ Live \/ Gone

Spec == Init /\ [][Next]_vars

-----------------------------------------------------------------------------
(* Fairness.  The loop's thread runs: a step that stays possible is taken.  *)
(* A ROUTER reads its peers in turn, so a peer with a message waiting is    *)
(* read if the socket is read again and again.  Peers, the clock and errors *)
(* owe nothing.                                                             *)

BackFrom(w)  == BackHeartbeat(w) \/ BackOther(w) \/ BackReply(w)
FrontFrom(c) == FrontRefuse(c) \/ \E w \in Workers : FrontForward(c, w)

Fairness ==
    /\ WF_vars(Server)
    /\ \A w \in Workers : SF_vars(BackFrom(w))
    /\ \A c \in Clients : SF_vars(FrontFrom(c))

FairSpec == Spec /\ Fairness

-----------------------------------------------------------------------------
(* Safety *)

\* Type invariant: the queues hold only messages their peers can send or be
\* sent, and the table only entries of workers.
TypeOK ==
    /\ clock \in 0 .. MaxClock
    /\ pc \in {"poll", "back", "front", "beat", "rearm", "check", "dead"}
    /\ nitems \in 0 .. 2
    /\ revents \in [back : BOOLEAN, front : BOOLEAN]
    /\ vec_work_ \subseteq Entry(Workers)
    /\ heartbeat_at \in Int
    /\ checked \in 0 .. MaxClock
    /\ back_q \in [Workers -> Seq(FromWorker)]
    /\ front_q \in [Clients -> Seq(FromClient)]
    /\ to_worker \in [Workers -> Seq(ToWorker)]
    /\ to_client \in [Clients -> Seq(ToClient)]
    /\ workers_up \subseteq Workers
    /\ clients_up \subseteq Clients
    /\ sent \subseteq Requests

\* However heartbeats, removals and requests interleave, the table never has
\* two entries for one identity (the search of MakeNewWorker): a worker is
\* not picked with a double chance nor kept by an entry nobody refreshes.
UniqueIdentity ==
    \A d, e \in vec_work_ : d.identity = e.identity => d = e

\* A blocking receive on a socket that the last poll() covered and reported
\* readable finds a message there, whatever happened since.
FreshReceiveNeverBlocks ==
    /\ pc = "back" /\ revents.back => Readable(back_q)
    /\ pc = "front" /\ revents.front /\ nitems = 2 => Readable(front_q)

\* The loop waits inside the receive on the front socket for a client.
WaitsForClient == pc = "front" /\ revents.front /\ ~ Readable(front_q)

\* The answer "not have woker!" can only be sent on the strength of a POLLIN
\* left over from an earlier poll(): after a poll() that covered the front
\* socket the table is not empty when GetWorker looks, since between the two
\* workers are only added.
RefusalMeansStaleFlag ==
    pc = "front" /\ revents.front /\ GetWorker(vec_work_) = {} => nitems = 1

\* With a clock that is never set back: every worker in the table, so every
\* worker a request is handed to, had not expired when CheckWorker last ran,
\* and none is promised more than one lifetime from now.
ExpiryWindow ==
    ~ ClockMayStep =>
        \A e \in vec_work_ : checked <= e.expiry /\ e.expiry <= clock + Lifetime

\* The peers of a socket in whose pipe a message carries request r, and the
\* positions of the pipes with such a message: the user's data is the last
\* frame.
Where(pipes, r) ==
    {p \in DOMAIN pipes : \E i \in DOMAIN pipes[p] : back(pipes[p][i]) = r}

Positions(pipes, r) ==
    UNION {{p} \X {i \in DOMAIN pipes[p] : back(pipes[p][i]) = r} :
              p \in DOMAIN pipes}

Copies(r) ==
    {<<"front", x>> : x \in Positions(front_q, r)} \cup
    {<<"worker", x>> : x \in Positions(to_worker, r)} \cup
    {<<"back", x>> : x \in Positions(back_q, r)} \cup
    {<<"client", x>> : x \in Positions(to_client, r)}

\* A request or its answer is in at most one place: no message is forwarded
\* twice, answered twice, or both forwarded and kept, and nothing appears
\* that no client sent.
AtMostOneCopy ==
    \A r \in Requests :
        /\ \A x, y \in Copies(r) : x = y
        /\ Copies(r) # {} => r \in sent

\* What a client gets is the answer to a request of its own in the envelope
\* its socket uses, or the refusal: popping the worker's identity, and the
\* identity frames pushed on the way, never leave a client with another
\* client's answer.
RightClient ==
    \A c \in Clients : \A i \in DOMAIN to_client[c] :
        \/ to_client[c][i] = NoWorkerReply
        \/ \E r \in sent : Owner[r] = c /\ to_client[c][i] = RequestBody(r)

-----------------------------------------------------------------------------
(* What a step may never do *)

\* An entry appears or gets a new expiry only when the loop handles a
\* heartbeat of that very worker: its answers and its other messages do not
\* keep it in the table, and no other worker's heartbeat does.
OnlyHeartbeatsRefresh ==
    [][\A e \in vec_work_' \ vec_work_ :
          /\ back_q[e.identity] # << >>
          /\ Head(back_q[e.identity]) = <<HEARTBEAT_KEY>>
          /\ back_q'[e.identity] = Tail(back_q[e.identity])]_vars

\* There is no retry and no buffer in the proxy, so requests do get lost, but
\* only in these ways: an exception ends the process and every request in it;
\* the client has the answer or left; the worker left with the request in its
\* pipe; the request was refused, or handed to a worker in the table that is
\* gone or does not keep up; the answer came for a client that is gone or does
\* not read.  While the process lives, no other message, expiry, error branch
\* or stale flag makes one vanish.
LossesHaveACause ==
    [][\A r \in Requests : Copies(r) # {} /\ Copies(r)' = {} =>
          \/ pc' = "dead"
          \/ Where(to_client, r) # {}
          \/ Where(to_worker, r) # {} /\ workers_up' # workers_up
          \/ /\ Where(front_q, r) # {}
             /\ \/ vec_work_ = {}
                \/ \E w \in Registered(vec_work_) :
                      w \notin workers_up \/ ~ HasRoom(to_worker, w)
          \/ /\ Where(back_q, r) # {}
             /\ Owner[r] \notin clients_up \/ ~ HasRoom(to_client, Owner[r])]_vars

-----------------------------------------------------------------------------
(* The promise about requests *)

\* The workers in whose pipes, one way or the other, request r is.
Holders(r) == Where(to_worker, r) \cup Where(back_q, r)

\* place[r] of RequestLife as the queues show it.
Place(r) ==
    IF r \notin sent THEN <<"unsent">>
    ELSE IF Where(front_q, r) # {} THEN <<"queued">>
    ELSE IF Where(to_client, r) # {} THEN <<"answered">>
    ELSE IF Holders(r) # {} THEN <<"given", CHOOSE w \in Holders(r) : TRUE>>
    ELSE <<"over">>

Life == INSTANCE RequestLife WITH place <- [r \in Requests |-> Place(r)]

\* The proxy implements the promise of RequestLife: through every crossing of
\* connections, expiries and stale flags a request only ever moves forward.
KeepsPromise == Life!Spec

-----------------------------------------------------------------------------
(* Liveness *)

Dead == pc = "dead"

Expired(w) == \E e \in vec_work_ : e.identity = w /\ clock > e.expiry

\* An expired worker is removed or heard from, unless the process dies or
\* the loop waits for a client.
ExpiredLeavesUnlessWaiting ==
    \A w \in Workers : Expired(w) ~> (~ Expired(w) \/ WaitsForClient \/ Dead)

\* Heartbeats that are due are sent, with the same two exceptions.
DueHeartbeatsSent ==
    (clock > heartbeat_at)
        ~> (clock <= heartbeat_at \/ WaitsForClient \/ Dead)

\* While poll() finds a worker in the table again and again, no client's
\* queue is passed over for good: its next request is read.
RequestsAreRead ==
    []<>(pc = "poll" /\ vec_work_ # {}) =>
        \A r \in Requests :
            (Where(front_q, r) # {}) ~> (Where(front_q, r) = {})

\* "remove expiry worker" (zmq_server.cc:114): an expired worker is removed
\* or heard from as long as the process lives.
ExpiredLeaves ==
    \A w \in Workers : Expired(w) ~> (~ Expired(w) \/ Dead)
=============================================================================
