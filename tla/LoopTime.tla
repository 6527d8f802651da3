------------------------------ MODULE LoopTime ------------------------------
(***************************************************************************)
(* How long things take in Server::Start of zmq_server.cc: the time under  *)
(* s_clock() in parts of a second, the passes of the loop with what they   *)
(* may take, and one worker w among the traffic on the back socket.        *)
(*                                                                         *)
(* ZmqServer has every step of a pass and no durations; here the front     *)
(* socket, which no timer depends on, only ends a poll() and takes its     *)
(* part of a pass.  The wait inside its receive on a stale flag is not     *)
(* part of this model.                                                     *)
(***************************************************************************)
EXTENDS WorkerPool, Sequences

CONSTANTS w,          (* the identity of the worker                        *)
          Wrap,       (* seconds after which tv_sec * 1000 wraps           *)
          PassTime,   (* what a pass takes at most after poll() returned   *)
          BeatTime,   (* a steady worker sends a heartbeat that often      *)
          Backlog,    (* messages ahead of a heartbeat in the back socket  *)
          Starts,     (* times at which the proxy may be started           *)
          MaxTime     (* bound: the last moment                            *)

\* HEARTBEAT_INTERVAL is one second: the unit of time is a part of it.
Second == HEARTBEAT_INTERVAL

ASSUME TimeAssumption ==
    /\ Second \in Nat \ {0}
    /\ Wrap \in Nat \ {0, 1}
    /\ {PassTime, BeatTime, Backlog, MaxTime} \subseteq Nat
    /\ Starts \subseteq 0 .. MaxTime

VARIABLES now,          (* the time of day                                 *)
          pc,           (* the step of the loop that is next               *)
          until,        (* when poll() times out, or the pass must be over *)
          vec_work_,    (* the table of workers                            *)
          heartbeat_at, (* when the next round of heartbeats is due        *)
          back_q,       (* what is waiting in the back socket              *)
          beat_by,      (* w sends its next heartbeat by then              *)
          steady,       (* w is alive                                      *)
          round_at,     (* history: the last round of heartbeats           *)
          handled_at,   (* history: w's last heartbeat was handled then    *)
          fell_at       (* history: s_clock() last fell then               *)

tableVars == <<vec_work_, handled_at>>
roundVars == <<heartbeat_at, round_at>>
peerVars  == <<back_q, beat_by, steady>>
vars == <<now, pc, until, tableVars, roundVars, peerVars, fell_at>>

\* tv_sec*1000, in units: the part of a second is dropped, and the product is
\* a long, which is 32 bits wide in the MinGW build.
SClock(t) == ((t \div Second) % Wrap) * Second

Never == -1

Init ==
    /\ now \in Starts
    /\ pc = "poll"
    /\ until = now + Second
    /\ vec_work_ = {}
    /\ heartbeat_at = SClock(now) + HEARTBEAT_INTERVAL
    /\ back_q = << >>
    /\ beat_by = now + BeatTime
    /\ steady = TRUE
    /\ round_at = now
    /\ handled_at = Never
    /\ fell_at = Never

-----------------------------------------------------------------------------
(* A pass of the loop *)

\* poll() returns when the back socket is readable, after an interval, or at
\* any time because of the front socket, which it covers while w is in the
\* table.
Poll ==
    /\ pc = "poll"
    /\ back_q # << >> \/ vec_work_ # {} \/ now = until
    /\ pc' = "back"
    /\ until' = now + PassTime
    /\ UNCHANGED <<now, tableVars, roundVars, peerVars, fell_at>>

BackIdle ==
    /\ pc = "back"
    /\ back_q = << >>
    /\ pc' = "beat"
    /\ UNCHANGED <<now, until, tableVars, roundVars, peerVars, fell_at>>

\* One message per pass.
Back ==
    /\ pc = "back"
    /\ back_q # << >>
    /\ back_q' = Tail(back_q)
    /\ IF Head(back_q) = "heartbeat"
       THEN /\ vec_work_' = MakeNewWorker(vec_work_, w, SClock(now))
            /\ handled_at' = now
       ELSE UNCHANGED tableVars
    /\ pc' = "beat"
    /\ UNCHANGED <<now, until, roundVars, beat_by, steady, fell_at>>

NotDue ==
    /\ pc = "beat"
    /\ ~ (SClock(now) > heartbeat_at)
    /\ pc' = "check"
    /\ UNCHANGED <<now, until, tableVars, roundVars, peerVars, fell_at>>

SendHeartbeats ==
    /\ pc = "beat"
    /\ SClock(now) > heartbeat_at
    /\ round_at' = now
    /\ pc' = "rearm"
    /\ UNCHANGED <<now, until, tableVars, heartbeat_at, peerVars, fell_at>>

\* Mutants: the timer runs on from when it was due; it is set a lifetime ahead.
RearmFromDue ==
    /\ pc = "rearm"
    /\ heartbeat_at' = heartbeat_at + HEARTBEAT_INTERVAL
    /\ pc' = "check"
    /\ UNCHANGED <<now, until, tableVars, round_at, peerVars, fell_at>>

RearmLifetime ==
    /\ pc = "rearm"
    /\ heartbeat_at' = SClock(now) + Lifetime
    /\ pc' = "check"
    /\ UNCHANGED <<now, until, tableVars, round_at, peerVars, fell_at>>

Rearm ==
    /\ pc = "rearm"
    /\ heartbeat_at' = SClock(now) + HEARTBEAT_INTERVAL
    /\ pc' = "check"
    /\ UNCHANGED <<now, until, tableVars, round_at, peerVars, fell_at>>

Check ==
    /\ pc = "check"
    /\ vec_work_' = CheckWorker(vec_work_, SClock(now))
    /\ pc' = "poll"
    /\ until' = now + Second
    /\ UNCHANGED <<now, handled_at, roundVars, peerVars, fell_at>>

Loop == Poll \/ BackIdle \/ Back \/ NotDue \/ SendHeartbeats \/ Rearm \/ Check

-----------------------------------------------------------------------------
(* Time, the worker and the others on the back socket *)

\* Time does not pass the end of a wait, nor of a pass, nor the moment a
\* living worker sends.  poll() does not wait on a readable socket.
Tick ==
    /\ now < until /\ now < MaxTime
    /\ pc = "poll" => back_q = << >>
    /\ steady => now < beat_by
    /\ now' = now + 1
    /\ fell_at' = IF SClock(now') < SClock(now) THEN now' ELSE fell_at
    /\ UNCHANGED <<pc, until, tableVars, roundVars, peerVars>>

WorkerBeat ==
    /\ steady
    /\ Len(back_q) <= Backlog
    /\ back_q' = Append(back_q, "heartbeat")
    /\ beat_by' = now + BeatTime
    /\ UNCHANGED <<now, pc, until, tableVars, roundVars, steady, fell_at>>

WorkerDown ==
    /\ steady
    /\ steady' = FALSE
    /\ UNCHANGED <<now, pc, until, tableVars, roundVars, back_q, beat_by, fell_at>>

OtherSend ==
    /\ Len(back_q) < Backlog
    /\ back_q' = Append(back_q, "other")
    /\ UNCHANGED <<now, pc, until, tableVars, roundVars, beat_by, steady, fell_at>>

\* The bound on time is reached.
TimeUp == now = MaxTime /\ UNCHANGED vars

Next == Loop \/ Tick \/ WorkerBeat \/ WorkerDown \/ OtherSend \/ TimeUp

Spec == Init /\ [][Next]_vars

-----------------------------------------------------------------------------

\* Rounds of heartbeats are more than a second apart, though the timer is set
\* to one second: the clock counts whole seconds and must pass the timer.  A
\* worker is not flooded when passes are short.
RoundsApart ==
    [][round_at' # round_at => now - round_at > Second]_vars

\* Rounds keep coming: the next one is due two seconds after the last at the
\* latest and may wait for a poll() and the passes around it.  Only a clock
\* that fell since leaves the timer far ahead and the workers without a
\* heartbeat, until the clock has come back to it.
RoundsKeepUp ==
    round_at > fell_at => now - round_at < 3 * Second + 3 * PassTime

\* A worker is removed only when its last heartbeat that was handled is more
\* than a lifetime ago, by the time of day and not only by s_clock().
StaysLifetime ==
    [][Registered(vec_work_') # Registered(vec_work_) /\ vec_work_ # {} =>
          now - handled_at > Lifetime]_vars

\* And it is in the table no longer than that, the second the clock drops, a
\* second poll() may wait and a pass; again unless the clock fell since.
LeavesInTime ==
    vec_work_ # {} /\ handled_at > fell_at =>
        now - handled_at < Lifetime + 2 * Second + PassTime

\* Only a heartbeat that was handled counts, one message is read per pass, and
\* a heartbeat may be queued behind others.  A worker that goes on sending is
\* never removed if the passes it takes to reach its heartbeat fit into the
\* lifetime together with the time between two heartbeats.
SteadyStays ==
    steady /\ handled_at # Never
    /\ BeatTime + (Backlog + 1) * PassTime <= Lifetime
        => w \in Registered(vec_work_)
=============================================================================
