----------------------------- MODULE WorkerPool -----------------------------
(***************************************************************************)
(* The proxy's table of workers, Server::vec_work_, and the three member   *)
(* functions that read and write it (zmq_server.cc).                       *)
(*                                                                         *)
(* An entry pairs a worker's routing identity with the time at which it    *)
(* expires.  The order of the entries only decides which of them rand()    *)
(* hits, and rand() may hit any, so the table is the SET of its entries.   *)
(*                                                                         *)
(* s_clock() truncates the time of day to whole seconds and counts them in *)
(* milliseconds: every time in the program is a multiple of 1000.  A time  *)
(* here is that value divided by 1000, and HEARTBEAT_INTERVAL likewise.    *)
(***************************************************************************)
EXTENDS Integers

CONSTANTS HEARTBEAT_INTERVAL,  (* 1 in the code: 1000 ms                   *)
          HEARTBEAT_LIVENESS   (* 3 in the code                            *)

ASSUME HeartbeatAssumption ==
    /\ HEARTBEAT_INTERVAL \in Nat \ {0}
    /\ HEARTBEAT_LIVENESS \in Nat \ {0}

\* How long a worker stays in the table after its last heartbeat.
Lifetime == HEARTBEAT_INTERVAL * HEARTBEAT_LIVENESS

Entry(Ids) == [identity : Ids, expiry : Int]

Registered(vec) == {e.identity : e \in vec}

\* Mutants: no search for an entry of the worker; a heartbeat adds a lifetime
\* to the expiry there is; or leaves it.
MakeNewWorkerPushes(vec, id, now) ==
    vec \cup {[identity |-> id, expiry |-> now + Lifetime]}
MakeNewWorkerExtends(vec, id, now) ==
    IF id \in Registered(vec)
    THEN {IF e.identity = id THEN [e EXCEPT !.expiry = @ + Lifetime] ELSE e :
             e \in vec}
    ELSE vec \cup {[identity |-> id, expiry |-> now + Lifetime]}

MakeNewWorkerKeeps(vec, id, now) ==
    IF id \in Registered(vec) THEN vec
    ELSE vec \cup {[identity |-> id, expiry |-> now + Lifetime]}

\* The first heartbeat of a worker adds an entry, a later one only moves the
\* expiry of the entry that carries its identity.
MakeNewWorker(vec, id, now) ==
    IF id \in Registered(vec)
    THEN {IF e.identity = id THEN [e EXCEPT !.expiry = now + Lifetime] ELSE e :
             e \in vec}
    ELSE vec \cup {[identity |-> id, expiry |-> now + Lifetime]}

\* The identities GetWorker may return; it returns -1 when there is none.
GetWorker(vec) == Registered(vec)

\* Mutants: at its expiry; an interval too late.
CheckWorkerEager(vec, now) == {e \in vec : ~ (now >= e.expiry)}
CheckWorkerLate(vec, now) == {e \in vec : ~ (now > e.expiry + HEARTBEAT_INTERVAL)}

\* An entry goes when the clock has passed its expiry, not when it reaches it.
CheckWorker(vec, now) == {e \in vec : ~ (now > e.expiry)}
=============================================================================
