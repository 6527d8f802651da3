--------------------------- MODULE LoopTimeProofs ---------------------------
(***************************************************************************)
(* What holds of the loop's timers for any interval, lifetime, wrap of the *)
(* clock and length of a pass, although s_clock() drops the part of a      *)
(* second and falls when it wraps.                                         *)
(*                                                                         *)
(* Lower bounds, rounds more than a second apart and a lifetime in the     *)
(* table, need from which reading a timer and an expiry were computed      *)
(* (Inv).  Upper bounds, rounds that keep up and silent workers that       *)
(* leave, also need when the wait or the pass that runs is over (PassInv)  *)
(* and that a clock that has not fallen counted every second (ClockInv).   *)
(* That a steady worker is never removed needs a bound on the pass that    *)
(* reads its next heartbeat, from where that waits in the queue (BeatDue). *)
(***************************************************************************)
EXTENDS LoopTime, WorkerPoolProofs, SequenceTheorems

\* The division of the clock into seconds.
LEMMA Seconds ==
    ASSUME NEW t \in Nat
    PROVE  /\ t \div Second \in Nat
           /\ Second * (t \div Second) <= t
           /\ t < Second * (t \div Second) + Second
  BY HeartbeatAssumption, SMTT(30) DEF Second

\* A count that wraps falls behind, it never runs ahead.
LEMMA WrapFallsBehind ==
    ASSUME NEW a \in Nat, NEW b \in Nat, a <= b
    PROVE  /\ a % Wrap \in Nat /\ b % Wrap \in Nat
           /\ (b % Wrap) - (a % Wrap) <= b - a
  BY TimeAssumption, SMTT(30)

\* Between two readings that differ by more than n seconds more than n seconds
\* have passed: two roundings down lose less than the one second they gain.
LEMMA ReadingsApart ==
    ASSUME NEW s \in Nat, NEW t \in Nat, s <= t, NEW n \in Nat,
           SClock(t) > SClock(s) + n * Second
    PROVE  t - s > n * Second
<1> DEFINE a == s \div Second
           b == t \div Second
           p == a % Wrap
           q == b % Wrap
<1>1. Second \in Nat /\ Second > 0
  BY HeartbeatAssumption DEF Second
<1>2. /\ a \in Nat /\ Second * a <= s /\ s < Second * a + Second
      /\ b \in Nat /\ Second * b <= t /\ t < Second * b + Second
  BY Seconds
<1> HIDE DEF a, b
<1>3. a <= b
  <2>1. SUFFICES ASSUME b + 1 <= a PROVE FALSE
    BY <1>2
  <2>2. Second * (b + 1) <= Second * a
    BY <1>1, <1>2, <2>1, SMTT(30)
  <2>3. Second * (b + 1) = Second * b + Second
    BY <1>1, <1>2
  <2>4. QED
    BY <1>1, <1>2, <2>2, <2>3
<1>4. p \in Nat /\ q \in Nat /\ q - p <= b - a
  BY <1>2, <1>3, WrapFallsBehind
<1>5. SClock(s) = p * Second /\ SClock(t) = q * Second
  BY DEF SClock, a, b
<1> HIDE DEF p, q
<1>6. q > p + n
  <2>1. SUFFICES ASSUME q <= p + n PROVE FALSE
    BY <1>4
  <2>2. q * Second <= (p + n) * Second
    BY <1>1, <1>4, <2>1, SMTT(30)
  <2>3. (p + n) * Second = p * Second + n * Second
    BY <1>1, <1>4
  <2>4. QED
    BY <1>1, <1>4, <1>5, <2>2, <2>3
<1>7. b >= a + n + 1
  BY <1>2, <1>4, <1>6
<1>8. Second * b >= Second * (a + n + 1)
  BY <1>1, <1>2, <1>7, SMTT(30)
<1>9. Second * (a + n + 1) = Second * a + n * Second + Second
  BY <1>1, <1>2, SMTT(30)
<1>10. QED
  <2>1. Second * a \in Nat /\ Second * b \in Nat /\ n * Second \in Nat
    BY <1>1, <1>2
  <2>2. QED
    BY <1>1, <1>2, <1>8, <1>9, <2>1

-----------------------------------------------------------------------------
(* The passes of the loop *)

\* The wait and the pass are over in their time.
PassOK ==
    /\ now \in Nat /\ until \in Nat /\ now <= until
    /\ pc \in {"poll", "back", "beat", "rearm", "check"}
    /\ pc # "poll" => until <= now + PassTime

\* What waits in the back socket, and when w sends.
QueueOK ==
    /\ back_q \in Seq({"heartbeat", "other"})
    /\ Len(back_q) <= Backlog + 1
    /\ beat_by \in Nat
    /\ beat_by <= now + BeatTime
    /\ steady => now <= beat_by

PassInv == PassOK /\ QueueOK

\* The parameters are numbers.
LEMMA Numbers ==
    /\ Second \in Nat \ {0} /\ PassTime \in Nat /\ BeatTime \in Nat
    /\ Backlog \in Nat /\ Lifetime \in Nat \ {0}
    /\ HEARTBEAT_INTERVAL = Second
  BY HeartbeatAssumption, TimeAssumption, LifetimeType DEF Second

\* PassInv holds at the start,
LEMMA InitPass == Init => PassInv
<1> SUFFICES ASSUME Init PROVE PassInv
  OBVIOUS
<1>1. now \in Nat
  BY TimeAssumption DEF Init
<1>2. PassOK
  BY <1>1, Numbers DEF Init, PassOK
<1>3. QueueOK
  BY <1>1, Numbers DEF Init, QueueOK
<1>4. QED
  BY <1>2, <1>3 DEF PassInv

\* and every step keeps it.
LEMMA NextPass == PassInv /\ [Next]_vars => PassInv'
<1> SUFFICES ASSUME PassInv, [Next]_vars PROVE PassInv'
  OBVIOUS
<1> USE Numbers
<1>0. PassOK /\ QueueOK
  BY DEF PassInv
<1>1. CASE Tick
  <2>1. PassOK'
    BY <1>0, <1>1 DEF Tick, PassOK
  <2>2. QueueOK'
    BY <1>0, <1>1 DEF Tick, PassOK, QueueOK, peerVars
  <2>3. QED
    BY <2>1, <2>2 DEF PassInv
<1>2. CASE Poll \/ BackIdle \/ NotDue \/ SendHeartbeats \/ Rearm \/ Check
  <2>1. PassOK'
    BY <1>0, <1>2 DEF Poll, BackIdle, NotDue, SendHeartbeats, Rearm, Check, PassOK
  <2>2. now' = now /\ UNCHANGED peerVars
    BY <1>2 DEF Poll, BackIdle, NotDue, SendHeartbeats, Rearm, Check
  <2>3. QED
    BY <1>0, <2>1, <2>2 DEF PassInv, QueueOK, peerVars
<1>3. CASE Back
  <2>1. PassOK'
    BY <1>0, <1>3 DEF Back, PassOK
  <2>2. /\ back_q' \in Seq({"heartbeat", "other"})
        /\ Len(back_q') = Len(back_q) - 1
    BY <1>0, <1>3, HeadTailProperties DEF Back, QueueOK
  <2>3. QueueOK'
    BY <1>0, <1>3, <2>2 DEF Back, QueueOK
  <2>4. QED
    BY <2>1, <2>3 DEF PassInv
<1>4. CASE WorkerBeat \/ WorkerDown \/ OtherSend
  <2>1. PassOK' /\ now' = now /\ now \in Nat
    BY <1>0, <1>4 DEF WorkerBeat, WorkerDown, OtherSend, PassOK
  <2>2. WorkerBeat => QueueOK'
    BY <1>0, <2>1, AppendProperties DEF WorkerBeat, QueueOK
  <2>3. WorkerDown => QueueOK'
    BY <1>0, <2>1 DEF WorkerDown, QueueOK
  <2>4. OtherSend => QueueOK'
    BY <1>0, <2>1, AppendProperties DEF OtherSend, QueueOK
  <2>5. QED
    BY <1>4, <2>1, <2>2, <2>3, <2>4 DEF PassInv
<1>5. CASE TimeUp \/ UNCHANGED vars
  BY <1>0, <1>5 DEF TimeUp, vars, peerVars, PassInv, PassOK, QueueOK
<1>6. QED
  BY <1>1, <1>2, <1>3, <1>4, <1>5 DEF Next, Loop

-----------------------------------------------------------------------------
(* The timer and the table *)

\* A round is over with its pass; otherwise the timer was set an interval
\* ahead of a reading in the pass of the last round.
TimerSet ==
    /\ pc = "rearm" => until <= round_at + PassTime
    /\ pc # "rearm" => \E t \in Nat : /\ round_at <= t /\ t <= now
                                      /\ t <= round_at + PassTime
                                      /\ heartbeat_at = SClock(t) + HEARTBEAT_INTERVAL

\* The entry of w, if there is one, was written when its last heartbeat was
\* handled.
EntryOfLastBeat ==
    \/ vec_work_ = {}
    \/ /\ handled_at \in 0 .. now
       /\ vec_work_ = {[identity |-> w, expiry |-> SClock(handled_at) + Lifetime]}

Inv == /\ now \in Nat
       /\ round_at \in 0 .. now
       /\ TimerSet
       /\ EntryOfLastBeat

\* At the start the timer is an interval ahead and the table empty.
LEMMA InitInv == Init => Inv
<1> SUFFICES ASSUME Init PROVE Inv
  OBVIOUS
<1>1. now \in Nat /\ round_at = now /\ now <= round_at + PassTime
  BY TimeAssumption DEF Init
<1>2. TimerSet
  BY <1>1 DEF Init, TimerSet
<1>3. QED
  BY <1>1, <1>2 DEF Init, Inv, EntryOfLastBeat

\* Time only passes.
LEMMA TimePasses ==
    ASSUME Inv, now' \in Nat, now <= now',
           UNCHANGED <<pc, until, roundVars, tableVars>>
    PROVE  Inv'
<1>1. /\ now' \in Nat /\ now <= now' /\ pc' = pc /\ round_at' = round_at
      /\ heartbeat_at' = heartbeat_at /\ vec_work_' = vec_work_ /\ until' = until
      /\ handled_at' = handled_at /\ now \in Nat /\ round_at \in 0 .. now
  BY DEF roundVars, tableVars, Inv
<1>2. TimerSet'
  <2>1. SUFFICES ASSUME pc # "rearm"
                 PROVE  \E t \in Nat : /\ round_at <= t /\ t <= now'
                                       /\ t <= round_at + PassTime
                                       /\ heartbeat_at = SClock(t) + HEARTBEAT_INTERVAL
    BY <1>1 DEF Inv, TimerSet
  <2>2. PICK t \in Nat : /\ round_at <= t /\ t <= now
                         /\ t <= round_at + PassTime
                         /\ heartbeat_at = SClock(t) + HEARTBEAT_INTERVAL
    BY <2>1 DEF Inv, TimerSet
  <2>3. t <= now'
    BY <1>1, <2>2
  <2>4. QED
    BY <2>2, <2>3
<1>3. EntryOfLastBeat'
  <2>1. handled_at \in 0 .. now => handled_at \in 0 .. now'
    BY <1>1
  <2>2. QED
    BY <1>1, <2>1 DEF Inv, EntryOfLastBeat
<1>4. QED
  BY <1>1, <1>2, <1>3 DEF Inv

\* What a heartbeat that is handled now does to the table.
LEMMA BackEntry ==
    ASSUME Inv
    PROVE  MakeNewWorker(vec_work_, w, SClock(now)) =
              {[identity |-> w, expiry |-> SClock(now) + Lifetime]}
<1>1. CASE vec_work_ = {}
  BY <1>1 DEF MakeNewWorker, Registered
<1>2. CASE vec_work_ # {}
  <2> DEFINE d == [identity |-> w, expiry |-> SClock(handled_at) + Lifetime]
             e == [identity |-> w, expiry |-> SClock(now) + Lifetime]
  <2>1. vec_work_ = {d} /\ d.identity = w
    BY <1>2 DEF Inv, EntryOfLastBeat
  <2>2. [d EXCEPT !.expiry = SClock(now) + Lifetime] = e
    OBVIOUS
  <2> HIDE DEF d
  <2>3. w \in Registered(vec_work_)
    BY <2>1 DEF Registered
  <2>4. QED
    BY <2>1, <2>2, <2>3 DEF MakeNewWorker
<1>3. QED
  BY <1>1, <1>2

\* Every step keeps the invariant.
LEMMA NextInv == PassInv /\ Inv /\ [Next]_vars => Inv'
<1> SUFFICES ASSUME PassInv, Inv, [Next]_vars PROVE Inv'
  OBVIOUS
<1>1. now \in Nat /\ round_at \in 0 .. now
  BY DEF Inv
<1>2. CASE Tick
  BY <1>1, <1>2, TimePasses DEF Tick, tableVars, roundVars
<1>3. CASE WorkerBeat \/ WorkerDown \/ OtherSend \/ TimeUp
  BY <1>1, <1>3, TimePasses
     DEF WorkerBeat, WorkerDown, OtherSend, TimeUp, vars, tableVars, roundVars
<1>4. CASE Poll \/ BackIdle \/ NotDue
  <2>1. /\ now' = now /\ UNCHANGED <<tableVars, roundVars>>
        /\ pc # "rearm" /\ pc' # "rearm"
    BY <1>4 DEF Poll, BackIdle, NotDue
  <2>2. QED
    BY <2>1 DEF Inv, TimerSet, EntryOfLastBeat, tableVars, roundVars
<1>5. CASE Back
  <2>1. /\ now' = now /\ round_at' = round_at /\ heartbeat_at' = heartbeat_at
        /\ pc # "rearm" /\ pc' # "rearm"
    BY <1>5 DEF Back, roundVars
  <2>2. TimerSet' /\ now' \in Nat /\ round_at' \in 0 .. now'
    BY <2>1 DEF Inv, TimerSet
  <2>3. EntryOfLastBeat'
    <3>1. CASE /\ vec_work_' = MakeNewWorker(vec_work_, w, SClock(now))
               /\ handled_at' = now
      BY <1>1, <2>1, <3>1, BackEntry DEF EntryOfLastBeat
    <3>2. CASE UNCHANGED tableVars
      BY <2>1, <3>2 DEF Inv, EntryOfLastBeat, tableVars
    <3>3. QED
      BY <1>5, <3>1, <3>2 DEF Back
  <2>4. QED
    BY <2>2, <2>3 DEF Inv
<1>6. CASE SendHeartbeats
  <2>1. until' <= now + PassTime /\ pc' = "rearm" /\ round_at' = now /\ now' = now
    BY <1>6 DEF SendHeartbeats, PassInv, PassOK
  <2>2. QED
    BY <1>1, <1>6, <2>1 DEF SendHeartbeats, Inv, TimerSet, EntryOfLastBeat, tableVars
<1>7. CASE Rearm
  <2>1. /\ now' = now /\ round_at' = round_at /\ UNCHANGED tableVars
        /\ heartbeat_at' = SClock(now) + HEARTBEAT_INTERVAL
        /\ pc' = "check"
    BY <1>7 DEF Rearm
  <2>0. now <= round_at + PassTime
    BY <1>1, <1>7, Numbers DEF Rearm, Inv, TimerSet, PassInv, PassOK
  <2>2. TimerSet'
    BY <1>1, <2>0, <2>1 DEF TimerSet
  <2>3. QED
    BY <1>1, <2>1, <2>2 DEF Inv, EntryOfLastBeat, tableVars
<1>8. CASE Check
  <2>1. /\ now' = now /\ UNCHANGED roundVars /\ handled_at' = handled_at
        /\ pc # "rearm" /\ pc' # "rearm"
        /\ vec_work_' \subseteq vec_work_
    BY <1>8 DEF Check, CheckWorker
  <2>2. TimerSet' /\ now' \in Nat /\ round_at' \in 0 .. now'
    BY <2>1 DEF Inv, TimerSet, roundVars
  <2>3. vec_work_' = {} \/ vec_work_' = vec_work_
    BY <2>1 DEF Inv, EntryOfLastBeat
  <2>4. EntryOfLastBeat'
    BY <2>1, <2>3 DEF Inv, EntryOfLastBeat
  <2>5. QED
    BY <2>2, <2>4 DEF Inv
<1>9. CASE UNCHANGED vars
  BY <1>1, <1>9, TimePasses DEF vars, tableVars, roundVars
<1>10. QED
  BY <1>2, <1>3, <1>4, <1>5, <1>6, <1>7, <1>8, <1>9 DEF Next, Loop

\* The invariant of the timers.
THEOREM TimersCorrect == Spec => [](PassInv /\ Inv)
  BY InitPass, NextPass, InitInv, NextInv, PTL DEF Spec

-----------------------------------------------------------------------------

\* Rounds of heartbeats are more than an interval apart, whatever the interval
\* and the wrap of the clock: the loop never floods the workers.
THEOREM HeartbeatsApart == Spec => RoundsApart
<1>1. ASSUME Inv, Next, round_at' # round_at
      PROVE  now - round_at > Second
  <2>1. SendHeartbeats
    BY <1>1 DEF Next, Loop, Poll, BackIdle, Back, NotDue, Rearm, Check, Tick,
       WorkerBeat, WorkerDown, OtherSend, TimeUp, vars, roundVars
  <2>2. pc # "rearm" /\ SClock(now) > heartbeat_at
    BY <2>1 DEF SendHeartbeats
  <2>3. PICK t \in Nat : /\ round_at <= t /\ t <= now
                         /\ heartbeat_at = SClock(t) + HEARTBEAT_INTERVAL
    BY <1>1, <2>2 DEF Inv, TimerSet
  <2>4. HEARTBEAT_INTERVAL = 1 * Second /\ Second \in Nat
    BY HeartbeatAssumption DEF Second
  <2>5. now - t > 1 * Second
    BY <1>1, <2>2, <2>3, <2>4, ReadingsApart DEF Inv
  <2>6. QED
    BY <1>1, <2>3, <2>4, <2>5 DEF Inv
<1>2. Inv /\ [Next]_vars => [round_at' # round_at => now - round_at > Second]_vars
  BY <1>1
<1>3. QED
  BY <1>2, TimersCorrect, PTL DEF Spec, RoundsApart

\* A worker is removed only when more than a lifetime has passed since its
\* last heartbeat that was handled, for any interval and liveness.
THEOREM WorkersStayALifetime == Spec => StaysLifetime
<1> DEFINE A == Registered(vec_work_') # Registered(vec_work_) /\ vec_work_ # {}
                   => now - handled_at > Lifetime
<1>1. ASSUME Inv, Next, Registered(vec_work_') # Registered(vec_work_),
             vec_work_ # {}
      PROVE  now - handled_at > Lifetime
  <2> DEFINE d == [identity |-> w, expiry |-> SClock(handled_at) + Lifetime]
  <2>1. vec_work_ = {d} /\ handled_at \in 0 .. now /\ now \in Nat
    BY <1>1 DEF Inv, EntryOfLastBeat
  <2>2. Check
    <3>1. CASE Back
      <4>1. CASE vec_work_' = MakeNewWorker(vec_work_, w, SClock(now))
        <5>1. Registered(vec_work_') = {w}
          <6>1. vec_work_' = {[identity |-> w, expiry |-> SClock(now) + Lifetime]}
            BY <1>1, <4>1, BackEntry
          <6>2. QED
            BY <6>1 DEF Registered
        <5>2. Registered(vec_work_) = {w}
          BY <2>1 DEF Registered
        <5>3. QED
          BY <1>1, <5>1, <5>2
      <4>2. CASE UNCHANGED tableVars
        BY <1>1, <4>2 DEF tableVars
      <4>3. QED
        BY <3>1, <4>1, <4>2 DEF Back
    <3>2. QED
      BY <1>1, <3>1 DEF Next, Loop, Poll, BackIdle, NotDue, SendHeartbeats, Rearm,
         Tick, WorkerBeat, WorkerDown, OtherSend, TimeUp, vars, tableVars
  <2>3. SClock(now) > d.expiry
    <3>1. vec_work_' = CheckWorker(vec_work_, SClock(now))
      BY <2>2 DEF Check
    <3>2. CASE ~ (SClock(now) > d.expiry)
      <4>1. vec_work_' = vec_work_
        BY <2>1, <3>1, <3>2 DEF CheckWorker
      <4>2. QED
        BY <1>1, <4>1
    <3>3. QED
      BY <3>2
  <2>4. SClock(now) > SClock(handled_at) + HEARTBEAT_LIVENESS * Second
    <3>1. Lifetime = HEARTBEAT_LIVENESS * Second
      BY HeartbeatAssumption DEF Lifetime, Second
    <3>2. QED
      BY <2>3, <3>1
  <2>5. now - handled_at > HEARTBEAT_LIVENESS * Second
    <3>1. handled_at \in Nat /\ handled_at <= now /\ HEARTBEAT_LIVENESS \in Nat
      BY <2>1, HeartbeatAssumption
    <3>2. QED
      BY <2>1, <2>4, <3>1, ReadingsApart
  <2>6. Lifetime = HEARTBEAT_LIVENESS * Second
    BY HeartbeatAssumption DEF Lifetime, Second
  <2>7. QED
    BY <2>5, <2>6
<1>2. Inv /\ [Next]_vars => [A]_vars
  BY <1>1
<1>3. QED
  BY <1>2, TimersCorrect, PTL DEF Spec, StaysLifetime

-----------------------------------------------------------------------------
(* A clock that does not fall *)

\* From s to t the clock counted every second.
Counted(s, t) ==
    SClock(t) - SClock(s) = Second * (t \div Second) - Second * (s \div Second)

\* One more moment is one more second, or none.
LEMMA NextSecond ==
    ASSUME NEW t \in Nat
    PROVE  (t + 1) \div Second \in {t \div Second, (t \div Second) + 1}
<1> DEFINE a == t \div Second
           b == (t + 1) \div Second
<1>1. /\ Second \in Nat /\ Second > 0
      /\ a \in Nat /\ Second * a <= t /\ t < Second * a + Second
      /\ b \in Nat /\ Second * b <= t + 1 /\ t + 1 < Second * b + Second
  BY Numbers, Seconds
<1> HIDE DEF a, b
<1>2. a <= b
  <2>1. SUFFICES ASSUME b + 1 <= a PROVE FALSE
    BY <1>1
  <2>2. Second * (b + 1) <= Second * a
    BY <1>1, <2>1, SMTT(30)
  <2>3. Second * (b + 1) = Second * b + Second
    BY <1>1
  <2>4. QED
    BY <1>1, <2>2, <2>3
<1>3. b <= a + 1
  <2>1. SUFFICES ASSUME a + 2 <= b PROVE FALSE
    BY <1>1
  <2>2. Second * (a + 2) <= Second * b
    BY <1>1, <2>1, SMTT(30)
  <2>3. Second * (a + 2) = Second * a + Second + Second
    BY <1>1
  <2>4. QED
    BY <1>1, <2>2, <2>3
<1>4. QED
  BY <1>1, <1>2, <1>3 DEF a, b

\* The count of seconds goes up by one, or wraps to nothing.
LEMMA NextCount ==
    ASSUME NEW a \in Nat
    PROVE  /\ a % Wrap \in Nat
           /\ (a + 1) % Wrap \in {0, (a % Wrap) + 1}
           /\ (a + 1) % Wrap = 0 => a % Wrap > 0
  BY TimeAssumption, SMTT(30)

\* What s_clock() says is a number.
LEMMA Readings ==
    ASSUME NEW t \in Nat
    PROVE  SClock(t) \in Int /\ Second * (t \div Second) \in Int
<1>1. Second \in Nat /\ t \div Second \in Nat
  BY Numbers, Seconds
<1>2. (t \div Second) % Wrap \in Nat
  BY <1>1, NextCount
<1>3. QED
  BY <1>1, <1>2 DEF SClock

\* A clock that does not fall from one moment to the next counts it.
LEMMA CountsOn ==
    ASSUME NEW t \in Nat, ~ (SClock(t + 1) < SClock(t))
    PROVE  Counted(t, t + 1)
<1> DEFINE a == t \div Second
           b == (t + 1) \div Second
           p == a % Wrap
           q == b % Wrap
<1>1. /\ Second \in Nat /\ Second > 0 /\ a \in Nat /\ b \in {a, a + 1}
  BY Numbers, Seconds, NextSecond
<1>2. SClock(t) = p * Second /\ SClock(t + 1) = q * Second
  BY DEF SClock
<1>3. CASE b = a
  <2>1. SClock(t + 1) = SClock(t) /\ SClock(t) \in Int
    BY <1>2, <1>3, Readings
  <2>2. Second * a \in Int
    BY <1>1
  <2>3. QED
    BY <1>3, <2>1, <2>2 DEF Counted
<1>4. CASE b = a + 1
  <2> HIDE DEF a
  <2>1. p \in Nat /\ q \in {0, p + 1} /\ (q = 0 => p > 0)
    BY <1>1, <1>4, NextCount
  <2> HIDE DEF p, q
  <2>2. q = p + 1
    <3>1. SUFFICES ASSUME q = 0, p >= 1 PROVE FALSE
      BY <2>1
    <3>2. p * Second >= 1 * Second
      BY <1>1, <2>1, <3>1, SMTT(30)
    <3>3. QED
      BY <1>1, <1>2, <2>1, <3>1, <3>2
  <2>3. q * Second = p * Second + Second
    BY <1>1, <2>1, <2>2
  <2>4. Second * (a + 1) = Second * a + Second
    BY <1>1
  <2>5. p * Second \in Int /\ Second * a \in Int
    BY <1>1, <2>1
  <2>6. QED
    BY <1>1, <1>2, <1>4, <2>3, <2>4, <2>5 DEF Counted, a, b
<1>5. QED
  BY <1>1, <1>3, <1>4

\* What is counted adds up.
LEMMA CountedOn ==
    ASSUME NEW r \in Nat, NEW s \in Nat, NEW t \in Nat,
           Counted(r, s), Counted(s, t)
    PROVE  Counted(r, t)
<1>1. \A x \in Nat : SClock(x) \in Int /\ Second * (x \div Second) \in Int
  BY Readings
<1>2. QED
  BY <1>1 DEF Counted

\* Readings at most n seconds apart were taken less than n + 1 seconds apart,
\* if the clock counted all of them.
LEMMA ReadingsClose ==
    ASSUME NEW s \in Nat, NEW t \in Nat, Counted(s, t), NEW n \in Int,
           ~ (SClock(t) > SClock(s) + n)
    PROVE  t - s < n + Second
<1>1. /\ Second \in Nat
      /\ Second * (s \div Second) \in Int /\ Second * (s \div Second) <= s
      /\ Second * (t \div Second) \in Int /\ t < Second * (t \div Second) + Second
  BY Numbers, Seconds
<1>2. SClock(s) \in Int /\ SClock(t) \in Int
  BY Readings
<1>3. QED
  BY <1>1, <1>2 DEF Counted

\* The clock counted every moment from b on, since it last fell.
CountedSince(b) ==
    \A t \in Nat : b <= t /\ fell_at <= t /\ t <= now => Counted(t, now)

\* It did so from the last round on, and from the last heartbeat of w on.
ClockInv ==
    /\ fell_at \in Int /\ fell_at <= now
    /\ handled_at \in Int
    /\ CountedSince(round_at)
    /\ handled_at # Never => CountedSince(handled_at)

\* A moment counts itself.
LEMMA CountedNow ==
    ASSUME NEW t \in Nat
    PROVE  Counted(t, t)
  BY Readings DEF Counted

\* From now on there is only this moment.
LEMMA SinceNow ==
    ASSUME now \in Nat
    PROVE  CountedSince(now)
<1> SUFFICES ASSUME NEW t \in Nat, now <= t, t <= now
             PROVE  Counted(t, now)
  BY DEF CountedSince
<1>1. t = now
  OBVIOUS
<1>2. QED
  BY <1>1, CountedNow

\* A tick counts one moment more, or the clock fell.
LEMMA SinceTick ==
    ASSUME PassInv, ClockInv, Tick, NEW b \in Int, CountedSince(b)
    PROVE  \A t \in Nat : b <= t /\ fell_at' <= t /\ t <= now' => Counted(t, now')
<1>1. /\ now \in Nat /\ now' = now + 1 /\ fell_at \in Int /\ fell_at <= now
      /\ fell_at' = IF SClock(now') < SClock(now) THEN now' ELSE fell_at
  BY DEF PassInv, PassOK, ClockInv, Tick
<1> SUFFICES ASSUME NEW t \in Nat, b <= t, fell_at' <= t, t <= now'
             PROVE  Counted(t, now')
  OBVIOUS
<1>2. CASE t = now'
  BY <1>2, CountedNow
<1>3. CASE t # now'
  <2>1. t <= now
    BY <1>1, <1>3
  <2>2. ~ (SClock(now') < SClock(now)) /\ fell_at <= t
    BY <1>1, <2>1
  <2>3. Counted(t, now)
    BY <2>1, <2>2 DEF CountedSince
  <2>4. Counted(now, now + 1)
    BY <1>1, <2>2, CountsOn
  <2>5. QED
    BY <1>1, <2>3, <2>4, CountedOn
<1>4. QED
  BY <1>2, <1>3

\* ClockInv holds at the start,
LEMMA InitClock == Init => ClockInv
<1> SUFFICES ASSUME Init PROVE ClockInv
  OBVIOUS
<1>1. now \in Nat /\ fell_at = -1 /\ handled_at = -1 /\ round_at = now
  BY TimeAssumption DEF Init, Never
<1>2. CountedSince(now)
  BY <1>1, SinceNow
<1>3. QED
  BY <1>1, <1>2 DEF ClockInv, Never

\* and every step keeps it.
LEMMA NextClock == PassInv /\ Inv /\ ClockInv /\ [Next]_vars => ClockInv'
<1> SUFFICES ASSUME PassInv, Inv, ClockInv, [Next]_vars PROVE ClockInv'
  OBVIOUS
<1>1. /\ now \in Nat /\ fell_at \in Int /\ fell_at <= now /\ handled_at \in Int
      /\ round_at \in Int
  BY DEF PassInv, PassOK, ClockInv, Inv
<1>2. CASE Tick
  <2>1. /\ now' = now + 1 /\ handled_at' = handled_at /\ round_at' = round_at
        /\ fell_at' \in {fell_at, now'}
    BY <1>2 DEF Tick, tableVars, roundVars
  <2>2. CountedSince(round_at)'
    BY <1>1, <1>2, <2>1, SinceTick DEF ClockInv, CountedSince
  <2>3. handled_at' # Never => CountedSince(handled_at)'
    BY <1>1, <1>2, <2>1, SinceTick DEF ClockInv, CountedSince
  <2>4. QED
    BY <1>1, <2>1, <2>2, <2>3 DEF ClockInv
<1>3. CASE SendHeartbeats
  <2>1. /\ now' = now /\ fell_at' = fell_at /\ handled_at' = handled_at
        /\ round_at' = now
    BY <1>3 DEF SendHeartbeats, tableVars
  <2>2. CountedSince(now)
    BY <1>1, SinceNow
  <2>3. QED
    BY <1>1, <2>1, <2>2 DEF ClockInv, CountedSince
<1>4. CASE Back
  <2>1. /\ now' = now /\ fell_at' = fell_at /\ round_at' = round_at
        /\ handled_at' \in {now, handled_at}
    BY <1>4 DEF Back, tableVars, roundVars
  <2>2. CountedSince(now)
    BY <1>1, SinceNow
  <2>3. QED
    BY <1>1, <2>1, <2>2 DEF ClockInv, CountedSince
<1>5. CASE ~ Tick /\ ~ SendHeartbeats /\ ~ Back
  <2>1. UNCHANGED <<now, fell_at, round_at, handled_at>>
    BY <1>5 DEF Next, Loop, Poll, BackIdle, NotDue, Rearm, Check, WorkerBeat,
       WorkerDown, OtherSend, TimeUp, vars, roundVars, tableVars
  <2>2. QED
    BY <2>1 DEF ClockInv, CountedSince
<1>6. QED
  BY <1>2, <1>3, <1>4, <1>5

-----------------------------------------------------------------------------
(* Rounds keep up *)

\* How late a wait or a pass may end after the last round.
RoundDue ==
    round_at > fell_at =>
        /\ pc = "poll" => until - round_at < 3 * Second + 2 * PassTime
        /\ pc \in {"back", "beat"} => until - round_at < 3 * Second + 3 * PassTime
        /\ pc = "check" => until - round_at < 2 * Second + 2 * PassTime

\* A timer that is not due was set less than two seconds ago.
LEMMA NotDueYet ==
    ASSUME PassInv, Inv, ClockInv, NotDue, round_at > fell_at
    PROVE  now - round_at < 2 * Second + PassTime
<1>1. pc # "rearm" /\ ~ (SClock(now) > heartbeat_at)
  BY DEF NotDue
<1>2. PICK t \in Nat : /\ round_at <= t /\ t <= now
                       /\ t <= round_at + PassTime
                       /\ heartbeat_at = SClock(t) + HEARTBEAT_INTERVAL
  BY <1>1 DEF Inv, TimerSet
<1>3. now \in Nat /\ round_at \in Int /\ fell_at \in Int
  BY DEF PassInv, PassOK, Inv, ClockInv
<1>4. Counted(t, now)
  BY <1>2, <1>3 DEF ClockInv, CountedSince
<1>5. Second \in Int /\ ~ (SClock(now) > SClock(t) + Second)
  BY <1>1, <1>2, Numbers
<1>6. now - t < Second + Second
  BY <1>2, <1>3, <1>4, <1>5, ReadingsClose
<1>7. QED
  BY <1>2, <1>3, <1>6, Numbers

\* RoundDue is inductive.
LEMMA NextRound ==
    PassInv /\ Inv /\ ClockInv /\ RoundDue /\ [Next]_vars => RoundDue'
<1> SUFFICES ASSUME PassInv, Inv, ClockInv, RoundDue, [Next]_vars PROVE RoundDue'
  OBVIOUS
<1>1. /\ now \in Nat /\ until \in Nat /\ now <= until
      /\ pc # "poll" => until <= now + PassTime
      /\ round_at \in Int /\ round_at <= now /\ fell_at \in Int
      /\ Second \in Nat \ {0} /\ PassTime \in Nat
  BY Numbers DEF PassInv, PassOK, Inv, ClockInv
<1>2. CASE Tick
  <2>1. /\ UNCHANGED <<pc, until, round_at>> /\ now' = now + 1
        /\ fell_at' \in {fell_at, now'}
    BY <1>2 DEF Tick, roundVars
  <2>2. QED
    BY <1>1, <2>1 DEF RoundDue
<1>3. CASE Poll
  BY <1>1, <1>3 DEF Poll, roundVars, RoundDue
<1>4. CASE BackIdle \/ Back
  BY <1>4 DEF BackIdle, Back, roundVars, RoundDue
<1>5. CASE NotDue
  <2>1. /\ pc = "beat" /\ pc' = "check" /\ UNCHANGED <<until, round_at, fell_at>>
    BY <1>5 DEF NotDue, roundVars
  <2>2. round_at > fell_at => now - round_at < 2 * Second + PassTime
    BY <1>5, NotDueYet
  <2>3. QED
    BY <1>1, <2>1, <2>2 DEF RoundDue
<1>6. CASE SendHeartbeats
  BY <1>6 DEF SendHeartbeats, RoundDue
<1>7. CASE Rearm
  <2>1. /\ pc = "rearm" /\ pc' = "check" /\ UNCHANGED <<until, round_at, fell_at>>
    BY <1>7 DEF Rearm
  <2>2. until <= round_at + PassTime
    BY <2>1 DEF Inv, TimerSet
  <2>3. QED
    BY <1>1, <2>1, <2>2 DEF RoundDue
<1>8. CASE Check
  BY <1>1, <1>8 DEF Check, roundVars, RoundDue
<1>9. CASE WorkerBeat \/ WorkerDown \/ OtherSend \/ TimeUp \/ UNCHANGED vars
  BY <1>9 DEF WorkerBeat, WorkerDown, OtherSend, TimeUp, vars, roundVars, RoundDue
<1>10. QED
  BY <1>2, <1>3, <1>4, <1>5, <1>6, <1>7, <1>8, <1>9 DEF Next, Loop

\* The workers get heartbeats again and again while the clock does not fall,
\* whatever the interval and however long a pass takes.
THEOREM HeartbeatsKeepUp == Spec => []RoundsKeepUp
<1>1. Init => RoundDue
  <2> SUFFICES ASSUME Init PROVE RoundDue
    OBVIOUS
  <2>1. now \in Nat /\ pc = "poll" /\ until = now + Second /\ round_at = now
    BY TimeAssumption DEF Init
  <2>2. QED
    BY <2>1, Numbers DEF RoundDue
<1>2. PassInv /\ Inv /\ ClockInv /\ RoundDue => RoundsKeepUp
  <2> SUFFICES ASSUME PassInv, Inv, ClockInv, RoundDue, round_at > fell_at
               PROVE  now - round_at < 3 * Second + 3 * PassTime
    BY DEF RoundsKeepUp
  <2>1. /\ now \in Nat /\ until \in Nat /\ now <= until /\ round_at \in Int
        /\ pc \in {"poll", "back", "beat", "rearm", "check"}
        /\ pc = "rearm" => until <= round_at + PassTime
    BY DEF PassInv, PassOK, Inv, TimerSet
  <2>2. QED
    BY <2>1, Numbers DEF RoundDue
<1>3. QED
  BY <1>1, <1>2, NextRound, InitClock, NextClock, TimersCorrect, PTL DEF Spec

-----------------------------------------------------------------------------
(* A silent worker leaves in time *)

\* How late a wait or a pass may end after the last heartbeat of a worker that
\* is in the table.
EntryDue ==
    vec_work_ # {} /\ handled_at > fell_at =>
        /\ pc = "poll" => until - handled_at < Lifetime + 2 * Second
        /\ pc # "poll" => until - handled_at < Lifetime + 2 * Second + PassTime

\* A worker that stays had its last heartbeat handled less than a lifetime and
\* a second ago.
LEMMA NotExpiredYet ==
    ASSUME PassInv, Inv, ClockInv, Check, vec_work_' # {}, handled_at > fell_at
    PROVE  now - handled_at < Lifetime + Second
<1> DEFINE d == [identity |-> w, expiry |-> SClock(handled_at) + Lifetime]
<1>1. vec_work_' = CheckWorker(vec_work_, SClock(now))
  BY DEF Check
<1>2. vec_work_ = {d} /\ handled_at \in Nat /\ handled_at <= now
  BY <1>1 DEF Inv, EntryOfLastBeat, CheckWorker
<1>3. ~ (SClock(now) > SClock(handled_at) + Lifetime)
  BY <1>1, <1>2 DEF CheckWorker
<1>4. now \in Nat /\ fell_at \in Int /\ handled_at # Never
  BY <1>2 DEF PassInv, PassOK, ClockInv, Never
<1>5. Counted(handled_at, now)
  BY <1>2, <1>4 DEF ClockInv, CountedSince
<1>6. Lifetime \in Int
  BY Numbers
<1>7. QED
  BY <1>2, <1>3, <1>4, <1>5, <1>6, ReadingsClose

\* EntryDue is inductive.
LEMMA NextEntry ==
    PassInv /\ Inv /\ ClockInv /\ EntryDue /\ [Next]_vars => EntryDue'
<1> SUFFICES ASSUME PassInv, Inv, ClockInv, EntryDue, [Next]_vars PROVE EntryDue'
  OBVIOUS
<1>1. /\ now \in Nat /\ until \in Nat /\ now <= until
      /\ pc # "poll" => until <= now + PassTime
      /\ handled_at \in Int /\ fell_at \in Int
      /\ Second \in Nat \ {0} /\ PassTime \in Nat /\ Lifetime \in Nat \ {0}
  BY Numbers DEF PassInv, PassOK, Inv, ClockInv
<1>2. CASE Tick
  <2>1. /\ UNCHANGED <<pc, until, handled_at, vec_work_>> /\ now' = now + 1
        /\ fell_at' \in {fell_at, now'}
    BY <1>2 DEF Tick, tableVars
  <2>2. vec_work_ # {} => handled_at <= now
    BY DEF Inv, EntryOfLastBeat
  <2>3. QED
    BY <1>1, <2>1, <2>2 DEF EntryDue
<1>3. CASE Poll
  BY <1>1, <1>3 DEF Poll, tableVars, EntryDue
<1>4. CASE Back
  <2>1. /\ pc = "back" /\ pc' = "beat" /\ UNCHANGED <<now, until, fell_at>>
        /\ handled_at' = now \/ UNCHANGED <<handled_at, vec_work_>>
    BY <1>4 DEF Back, tableVars
  <2>2. QED
    BY <1>1, <2>1 DEF EntryDue
<1>5. CASE Check
  <2>1. /\ pc' = "poll" /\ until' = now + Second /\ UNCHANGED <<handled_at, fell_at>>
    BY <1>5 DEF Check
  <2>2. vec_work_' # {} /\ handled_at > fell_at => now - handled_at < Lifetime + Second
    BY <1>5, NotExpiredYet
  <2>3. QED
    BY <1>1, <2>1, <2>2 DEF EntryDue
<1>6. CASE BackIdle \/ NotDue \/ SendHeartbeats \/ Rearm
  BY <1>6 DEF BackIdle, NotDue, SendHeartbeats, Rearm, tableVars, EntryDue
<1>7. CASE WorkerBeat \/ WorkerDown \/ OtherSend \/ TimeUp \/ UNCHANGED vars
  BY <1>7 DEF WorkerBeat, WorkerDown, OtherSend, TimeUp, vars, tableVars, EntryDue
<1>8. QED
  BY <1>2, <1>3, <1>4, <1>5, <1>6, <1>7 DEF Next, Loop

\* A worker that fell silent leaves the table within two seconds and a pass
\* of its expiry while the clock does not fall.
THEOREM SilentWorkersLeave == Spec => []LeavesInTime
<1>1. Init => EntryDue
  BY DEF Init, EntryDue
<1>2. PassInv /\ ClockInv /\ EntryDue => LeavesInTime
  <2> SUFFICES ASSUME PassInv, ClockInv, EntryDue, vec_work_ # {}, handled_at > fell_at
               PROVE  now - handled_at < Lifetime + 2 * Second + PassTime
    BY DEF LeavesInTime
  <2>1. now \in Nat /\ until \in Nat /\ now <= until /\ handled_at \in Int
    BY DEF PassInv, PassOK, ClockInv
  <2>2. QED
    BY <2>1, Numbers DEF EntryDue
<1>3. QED
  BY <1>1, <1>2, NextEntry, InitClock, NextClock, TimersCorrect, PTL DEF Spec

-----------------------------------------------------------------------------
(* A steady worker stays *)

\* Where heartbeats wait in the back socket.
Beats(queue) == {k \in 1 .. Len(queue) : queue[k] = "heartbeat"}

\* The pass in which the k-th message is read begins within the lifetime of
\* the entry of w.
ReachedInTime(k) ==
    /\ pc = "poll" => now + k * PassTime <= handled_at + Lifetime + PassTime
    /\ pc = "back" => until + k * PassTime <= handled_at + Lifetime + 2 * PassTime
    /\ pc \in {"beat", "rearm", "check"} =>
          until + k * PassTime <= handled_at + Lifetime + PassTime

\* A heartbeat is under way, or w sends one in time.
BeatUnderWay ==
    \/ \E k \in Beats(back_q) : ReachedInTime(k)
    \/ Beats(back_q) = {} /\ beat_by <= handled_at + BeatTime

\* The condition of SteadyStays.
PassesFit == BeatTime + (Backlog + 1) * PassTime <= Lifetime

BeatDue ==
    steady /\ handled_at # Never /\ PassesFit => vec_work_ # {} /\ BeatUnderWay

\* The time some passes take.
LEMMA Passes ==
    ASSUME NEW k \in Nat
    PROVE  /\ k * PassTime \in Nat
           /\ (k + 1) * PassTime = k * PassTime + PassTime
           /\ k >= 1 => PassTime <= k * PassTime
           /\ k <= Backlog + 1 => k * PassTime <= (Backlog + 1) * PassTime
<1>1. PassTime \in Nat /\ Backlog \in Nat
  BY Numbers
<1>2. k >= 1 => PassTime <= k * PassTime
  BY <1>1, SMTT(30)
<1>3. k <= Backlog + 1 => k * PassTime <= (Backlog + 1) * PassTime
  BY <1>1, SMTT(30)
<1>4. QED
  BY <1>1, <1>2, <1>3

\* What is left of the queue when a message is read,
LEMMA BeatsOfTail ==
    ASSUME NEW S, NEW queue \in Seq(S), queue # << >>
    PROVE  /\ Head(queue) # "heartbeat" =>
                 \A k \in Beats(queue) : k - 1 \in Beats(Tail(queue))
           /\ Beats(queue) = {} => Beats(Tail(queue)) = {}
           /\ \A k \in Beats(Tail(queue)) : k \in Nat /\ k <= Len(queue) - 1
<1>1. /\ Len(queue) \in Nat /\ Len(Tail(queue)) = Len(queue) - 1
      /\ Head(queue) = queue[1]
      /\ \A i \in 1 .. Len(Tail(queue)) : Tail(queue)[i] = queue[i + 1]
  BY HeadTailProperties, LenProperties
<1>2. ASSUME NEW k \in Beats(queue), Head(queue) # "heartbeat"
      PROVE  k - 1 \in Beats(Tail(queue))
  <2>1. k \in 1 .. Len(queue) /\ queue[k] = "heartbeat" /\ k # 1
    BY <1>1, <1>2 DEF Beats
  <2>2. k - 1 \in 1 .. Len(Tail(queue)) /\ (k - 1) + 1 = k
    BY <1>1, <2>1
  <2>3. Tail(queue)[k - 1] = "heartbeat"
    BY <1>1, <2>1, <2>2
  <2>4. QED
    BY <2>2, <2>3 DEF Beats
<1>3. ASSUME NEW k \in Beats(Tail(queue))
      PROVE  k \in Nat /\ k <= Len(queue) - 1 /\ k + 1 \in Beats(queue)
  BY <1>1 DEF Beats
<1>4. QED
  BY <1>2, <1>3

\* and when one is added.
LEMMA BeatsOfAppend ==
    ASSUME NEW S, NEW queue \in Seq(S), NEW m \in S
    PROVE  /\ \A k \in Beats(queue) : k \in Beats(Append(queue, m))
           /\ m # "heartbeat" => Beats(Append(queue, m)) = Beats(queue)
           /\ m = "heartbeat" => Len(queue) + 1 \in Beats(Append(queue, m))
  BY AppendProperties, LenProperties DEF Beats

\* A heartbeat under way arrives before the entry of its worker has expired.
LEMMA NotExpired ==
    ASSUME PassInv, Inv, Check, steady, PassesFit, vec_work_ # {}, BeatUnderWay
    PROVE  now - handled_at <= Lifetime
<1>1. /\ now \in Nat /\ until \in Nat /\ now <= until /\ now <= beat_by
      /\ beat_by \in Nat /\ handled_at \in Nat /\ pc = "check"
      /\ PassTime \in Nat /\ BeatTime \in Nat /\ Backlog \in Nat /\ Lifetime \in Nat
  BY Numbers DEF PassInv, PassOK, QueueOK, Check, Inv, EntryOfLastBeat
<1>2. ASSUME NEW k \in Beats(back_q), ReachedInTime(k)
      PROVE  now - handled_at <= Lifetime
  <2>1. k \in Nat /\ k >= 1
    BY DEF Beats
  <2>2. k * PassTime \in Nat /\ PassTime <= k * PassTime
    BY <2>1, Passes
  <2>3. until + k * PassTime <= handled_at + Lifetime + PassTime
    BY <1>1, <1>2 DEF ReachedInTime
  <2>4. QED
    BY <1>1, <2>2, <2>3
<1>3. ASSUME beat_by <= handled_at + BeatTime
      PROVE  now - handled_at <= Lifetime
  <2>1. Backlog + 1 \in Nat
    BY <1>1
  <2>2. (Backlog + 1) * PassTime \in Nat
    BY <2>1, Passes
  <2>3. QED
    BY <1>1, <1>3, <2>2 DEF PassesFit
<1>4. QED
  BY <1>2, <1>3 DEF BeatUnderWay

\* So the entry stays.
LEMMA EntryStays ==
    ASSUME PassInv, Inv, Check, vec_work_ # {}, now - handled_at <= Lifetime
    PROVE  vec_work_' = vec_work_
<1> DEFINE d == [identity |-> w, expiry |-> SClock(handled_at) + Lifetime]
<1>1. vec_work_ = {d} /\ handled_at \in Nat /\ handled_at <= now /\ now \in Nat
  BY DEF Inv, EntryOfLastBeat
<1>2. Lifetime = HEARTBEAT_LIVENESS * Second /\ HEARTBEAT_LIVENESS \in Nat
  BY HeartbeatAssumption DEF Lifetime, Second
<1>3. ~ (SClock(now) > SClock(handled_at) + HEARTBEAT_LIVENESS * Second)
  BY <1>1, <1>2, Numbers, ReadingsApart
<1>4. ~ (SClock(now) > d.expiry)
  BY <1>2, <1>3
<1> HIDE DEF d
<1>5. CheckWorker(vec_work_, SClock(now)) = vec_work_
  BY <1>1, <1>4 DEF CheckWorker
<1>6. QED
  BY <1>5 DEF Check

\* A heartbeat that is sent when none is under way is in time.
LEMMA SentInTime ==
    ASSUME PassInv, steady, PassesFit, handled_at \in Int,
           beat_by <= handled_at + BeatTime, NEW k \in Nat, k <= Backlog + 1
    PROVE  ReachedInTime(k)
<1>1. /\ now \in Nat /\ until \in Nat /\ now <= beat_by /\ beat_by \in Nat
      /\ pc # "poll" => until <= now + PassTime
      /\ PassTime \in Nat /\ BeatTime \in Nat /\ Backlog \in Nat /\ Lifetime \in Nat
  BY Numbers DEF PassInv, PassOK, QueueOK
<1>2. k * PassTime \in Nat /\ k * PassTime <= (Backlog + 1) * PassTime
  BY Passes
<1>3. (Backlog + 1) * PassTime \in Nat
  <2>1. Backlog + 1 \in Nat
    BY <1>1
  <2>2. QED
    BY <2>1, Passes
<1>4. now + k * PassTime <= handled_at + Lifetime
  BY <1>1, <1>2, <1>3 DEF PassesFit
<1>5. QED
  BY <1>1, <1>2, <1>4 DEF ReachedInTime

\* Reading a message leaves a heartbeat under way.
LEMMA BackBeat ==
    ASSUME PassInv, Inv, BeatDue, Back
    PROVE  BeatDue'
<1> SUFFICES ASSUME steady', handled_at' # Never, PassesFit
             PROVE  vec_work_' # {} /\ BeatUnderWay'
  BY DEF BeatDue, PassesFit
<1>1. /\ steady /\ pc = "back" /\ pc' = "beat" /\ back_q # << >>
      /\ back_q' = Tail(back_q) /\ UNCHANGED <<now, until, beat_by>>
  BY DEF Back
<1>2. /\ now \in Nat /\ until \in Nat /\ until <= now + PassTime
      /\ beat_by \in Nat /\ beat_by <= now + BeatTime
      /\ back_q \in Seq({"heartbeat", "other"})
      /\ Len(back_q) <= Backlog + 1 /\ Len(back_q) \in Nat
      /\ PassTime \in Nat /\ BeatTime \in Nat /\ Backlog \in Nat /\ Lifetime \in Nat
  BY <1>1, Numbers, LenProperties DEF PassInv, PassOK, QueueOK
<1>3. CASE Head(back_q) = "heartbeat"
  <2>1. vec_work_' # {} /\ handled_at' = now
    BY <1>3, MakeNewWorkerNotEmpty DEF Back
  <2>2. ASSUME NEW k \in Beats(back_q')
        PROVE  ReachedInTime(k)'
    <3>1. k \in Nat /\ k <= Backlog
      BY <1>1, <1>2, <2>2, BeatsOfTail
    <3>2. /\ k * PassTime \in Nat /\ k + 1 \in Nat
          /\ (k + 1) * PassTime = k * PassTime + PassTime
          /\ (k + 1) * PassTime <= (Backlog + 1) * PassTime
      BY <1>2, <3>1, Passes
    <3>3. (Backlog + 1) * PassTime \in Nat
      <4>1. Backlog + 1 \in Nat
        BY <1>2
      <4>2. QED
        BY <4>1, Passes
    <3>4. until + k * PassTime <= now + Lifetime + PassTime
      BY <1>2, <3>2, <3>3 DEF PassesFit
    <3>5. QED
      BY <1>1, <2>1, <3>4 DEF ReachedInTime
  <2>3. QED
    BY <1>1, <1>2, <2>1, <2>2 DEF BeatUnderWay
<1>4. CASE Head(back_q) # "heartbeat"
  <2>1. vec_work_' = vec_work_ /\ handled_at' = handled_at
    BY <1>4 DEF Back, tableVars
  <2>2. vec_work_ # {} /\ BeatUnderWay
    BY <1>1, <2>1 DEF BeatDue
  <2>3. handled_at \in Nat
    BY <2>2 DEF Inv, EntryOfLastBeat
  <2>4. ASSUME NEW k \in Beats(back_q), ReachedInTime(k)
        PROVE  \E l \in Beats(back_q') : ReachedInTime(l)'
    <3> DEFINE l == k - 1
    <3>1. l \in Beats(back_q')
      BY <1>1, <1>2, <1>4, BeatsOfTail
    <3>2. l \in Nat /\ l + 1 = k
      BY <1>2 DEF Beats
    <3> HIDE DEF l
    <3>3. l * PassTime \in Nat /\ k * PassTime = l * PassTime + PassTime
      BY <3>2, Passes
    <3>4. until + k * PassTime <= handled_at + Lifetime + 2 * PassTime
      BY <1>1, <2>4 DEF ReachedInTime
    <3>5. until + l * PassTime <= handled_at + Lifetime + PassTime
      BY <1>2, <2>3, <3>3, <3>4
    <3>6. ReachedInTime(l)'
      BY <1>1, <2>1, <3>5 DEF ReachedInTime
    <3>7. QED
      BY <3>1, <3>6
  <2>5. Beats(back_q) = {} => Beats(back_q') = {}
    BY <1>1, <1>2, BeatsOfTail
  <2>6. BeatUnderWay'
    <3>1. CASE \E k \in Beats(back_q) : ReachedInTime(k)
      BY <2>4, <3>1 DEF BeatUnderWay
    <3>2. CASE Beats(back_q) = {} /\ beat_by <= handled_at + BeatTime
      BY <1>1, <2>1, <2>5, <3>2 DEF BeatUnderWay
    <3>3. QED
      BY <2>2, <3>1, <3>2 DEF BeatUnderWay
  <2>7. QED
    BY <2>1, <2>2, <2>6
<1>5. QED
  BY <1>3, <1>4

\* A message that is added does not delay one that waits.
LEMMA QueuedBeat ==
    ASSUME PassInv, Inv, BeatDue, WorkerBeat \/ OtherSend
    PROVE  BeatDue'
<1> SUFFICES ASSUME steady', handled_at' # Never, PassesFit
             PROVE  vec_work_' # {} /\ BeatUnderWay'
  BY DEF BeatDue, PassesFit
<1>1. /\ steady /\ UNCHANGED <<now, pc, until, vec_work_, handled_at>>
  BY DEF WorkerBeat, OtherSend, tableVars
<1>2. vec_work_ # {} /\ BeatUnderWay
  BY <1>1 DEF BeatDue
<1>3. handled_at \in Nat
  BY <1>2 DEF Inv, EntryOfLastBeat
<1>4. back_q \in Seq({"heartbeat", "other"}) /\ Len(back_q) \in Nat /\ Backlog \in Nat
  BY Numbers, LenProperties DEF PassInv, QueueOK
<1>5. \A k \in Beats(back_q) : k \in Beats(back_q')
  <2>1. PICK m \in {"heartbeat", "other"} : back_q' = Append(back_q, m)
    BY DEF WorkerBeat, OtherSend
  <2>2. QED
    BY <1>4, <2>1, BeatsOfAppend
<1>6. \A k : ReachedInTime(k) => ReachedInTime(k)'
  BY <1>1 DEF ReachedInTime
<1>7. CASE \E k \in Beats(back_q) : ReachedInTime(k)
  BY <1>1, <1>2, <1>5, <1>6, <1>7 DEF BeatUnderWay
<1>8. CASE Beats(back_q) = {} /\ beat_by <= handled_at + BeatTime
  <2>1. CASE OtherSend
    <3>1. Beats(back_q') = {} /\ beat_by' = beat_by
      BY <1>4, <1>8, <2>1, BeatsOfAppend DEF OtherSend
    <3>2. QED
      BY <1>1, <1>2, <1>8, <3>1 DEF BeatUnderWay
  <2>2. CASE WorkerBeat
    <3> DEFINE k == Len(back_q) + 1
    <3>1. k \in Beats(back_q')
      BY <1>4, <2>2, BeatsOfAppend DEF WorkerBeat
    <3>2. k \in Nat /\ k <= Backlog + 1
      BY <1>4, <2>2 DEF WorkerBeat
    <3> HIDE DEF k
    <3>3. ReachedInTime(k)
      BY <1>1, <1>3, <1>8, <3>2, SentInTime
    <3>4. QED
      BY <1>1, <1>2, <1>6, <3>1, <3>3 DEF BeatUnderWay
  <2>3. QED
    BY <2>1, <2>2
<1>9. QED
  BY <1>2, <1>7, <1>8 DEF BeatUnderWay

\* A check finds the entry of a steady worker alive.
LEMMA CheckBeat ==
    ASSUME PassInv, Inv, BeatDue, Check
    PROVE  BeatDue'
<1> SUFFICES ASSUME steady', handled_at' # Never, PassesFit
             PROVE  vec_work_' # {} /\ BeatUnderWay'
  BY DEF BeatDue, PassesFit
<1>1. /\ steady /\ pc = "check" /\ pc' = "poll"
      /\ UNCHANGED <<now, handled_at, back_q, beat_by>>
  BY DEF Check, peerVars
<1>2. vec_work_ # {} /\ BeatUnderWay
  BY <1>1 DEF BeatDue
<1>3. vec_work_' # {}
  BY <1>1, <1>2, NotExpired, EntryStays
<1>4. /\ handled_at \in Nat /\ now \in Nat /\ until \in Nat /\ now <= until
      /\ PassTime \in Nat /\ Lifetime \in Nat
  BY <1>2, Numbers DEF Inv, EntryOfLastBeat, PassInv, PassOK
<1>5. ASSUME NEW k \in Beats(back_q), ReachedInTime(k)
      PROVE  ReachedInTime(k)'
  <2>1. k \in Nat
    BY DEF Beats
  <2>2. k * PassTime \in Nat
    BY <2>1, Passes
  <2>3. until + k * PassTime <= handled_at + Lifetime + PassTime
    BY <1>1, <1>5 DEF ReachedInTime
  <2>4. now + k * PassTime <= handled_at + Lifetime + PassTime
    BY <1>4, <2>2, <2>3
  <2>5. QED
    BY <1>1, <2>4 DEF ReachedInTime
<1>6. BeatUnderWay'
  BY <1>1, <1>2, <1>5 DEF BeatUnderWay
<1>7. QED
  BY <1>3, <1>6

\* BeatDue is inductive.
LEMMA NextBeat == PassInv /\ Inv /\ BeatDue /\ [Next]_vars => BeatDue'
<1> SUFFICES ASSUME PassInv, Inv, BeatDue, [Next]_vars PROVE BeatDue'
  OBVIOUS
<1>1. CASE Tick
  <2>1. /\ UNCHANGED <<pc, until, vec_work_, handled_at, back_q, beat_by, steady>>
        /\ pc = "poll" => back_q = << >>
    BY <1>1 DEF Tick, tableVars, peerVars
  <2>2. back_q = << >> => Beats(back_q) = {}
    BY DEF Beats
  <2>3. \A k \in Beats(back_q) : ReachedInTime(k) => ReachedInTime(k)'
    BY <2>1, <2>2 DEF ReachedInTime
  <2>4. BeatUnderWay => BeatUnderWay'
    BY <2>1, <2>3 DEF BeatUnderWay
  <2>5. QED
    BY <2>1, <2>4 DEF BeatDue, PassesFit
<1>2. CASE Poll
  <2>1. /\ UNCHANGED <<vec_work_, handled_at, back_q, beat_by, steady>>
        /\ pc = "poll" /\ pc' = "back" /\ until' = now + PassTime
    BY <1>2 DEF Poll, tableVars, peerVars
  <2>2. ASSUME vec_work_ # {}, NEW k \in Beats(back_q), ReachedInTime(k)
        PROVE  ReachedInTime(k)'
    <3>1. /\ handled_at \in Nat /\ now \in Nat /\ PassTime \in Nat /\ Lifetime \in Nat
      BY <2>2, Numbers DEF Inv, EntryOfLastBeat, PassInv, PassOK
    <3>2. k \in Nat
      BY DEF Beats
    <3>3. k * PassTime \in Nat
      BY <3>2, Passes
    <3>4. now + k * PassTime <= handled_at + Lifetime + PassTime
      BY <2>1, <2>2 DEF ReachedInTime
    <3>5. (now + PassTime) + k * PassTime <= handled_at + Lifetime + 2 * PassTime
      BY <3>1, <3>3, <3>4
    <3>6. QED
      BY <2>1, <3>5 DEF ReachedInTime
  <2>3. vec_work_ # {} /\ BeatUnderWay => BeatUnderWay'
    BY <2>1, <2>2 DEF BeatUnderWay
  <2>4. QED
    BY <2>1, <2>3 DEF BeatDue, PassesFit
<1>3. CASE BackIdle \/ NotDue \/ SendHeartbeats \/ Rearm
  <2>1. /\ UNCHANGED <<now, until, vec_work_, handled_at, back_q, beat_by, steady>>
        /\ pc' \in {"beat", "rearm", "check"}
        /\ pc \in {"beat", "rearm"} \/ back_q = << >>
    BY <1>3 DEF BackIdle, NotDue, SendHeartbeats, Rearm, tableVars, peerVars
  <2>2. back_q = << >> => Beats(back_q) = {}
    BY DEF Beats
  <2>3. \A k \in Beats(back_q) : ReachedInTime(k) => ReachedInTime(k)'
    BY <2>1, <2>2 DEF ReachedInTime
  <2>4. BeatUnderWay => BeatUnderWay'
    BY <2>1, <2>3 DEF BeatUnderWay
  <2>5. QED
    BY <2>1, <2>4 DEF BeatDue, PassesFit
<1>4. CASE WorkerDown
  BY <1>4 DEF WorkerDown, BeatDue
<1>5. CASE TimeUp \/ UNCHANGED vars
  <2>1. UNCHANGED <<now, pc, until, vec_work_, handled_at, back_q, beat_by, steady>>
    BY <1>5 DEF TimeUp, vars, tableVars, peerVars
  <2>2. QED
    BY <2>1 DEF BeatDue, PassesFit, BeatUnderWay, ReachedInTime
<1>6. QED
  BY <1>1, <1>2, <1>3, <1>4, <1>5, BackBeat, QueuedBeat, CheckBeat DEF Next, Loop

\* A worker that sends its heartbeats in time is never removed, for every
\* interval, liveness, length of a pass and backlog that fit together.
THEOREM SteadyWorkersStay == Spec => []SteadyStays
<1>1. Init => BeatDue
  BY DEF Init, BeatDue
<1>2. Inv /\ BeatDue => SteadyStays
  <2> SUFFICES ASSUME Inv, BeatDue, steady, handled_at # Never, PassesFit
               PROVE  w \in Registered(vec_work_)
    BY DEF SteadyStays, PassesFit
  <2> DEFINE d == [identity |-> w, expiry |-> SClock(handled_at) + Lifetime]
  <2>1. vec_work_ = {d} /\ d.identity = w
    BY DEF BeatDue, Inv, EntryOfLastBeat
  <2> HIDE DEF d
  <2>2. QED
    BY <2>1 DEF Registered
<1>3. QED
  BY <1>1, <1>2, NextBeat, TimersCorrect, PTL DEF Spec
=============================================================================
