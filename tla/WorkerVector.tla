---------------------------- MODULE WorkerVector ----------------------------
(***************************************************************************)
(* The loops of MakeNewWorker, GetWorker and CheckWorker (zmq_server.cc)   *)
(* over std::vector<worker>, one pass through a loop body per step.  The   *)
(* clock may move in any direction between two steps.                      *)
(*                                                                         *)
(* it is the iterator of the loop as an index: 1 is begin(), Len(vec) + 1  *)
(* is end(), and 0 is the position before begin() that "erase(itor) - 1"   *)
(* yields when the first entry is erased, where the loop's itor++ follows  *)
(* at once.                                                                *)
(***************************************************************************)
EXTENDS WorkerPool, Sequences

CONSTANTS Ids,        (* routing identities                                *)
          MaxClock    (* bound: the last value of the clock                *)

ASSUME VectorAssumption == MaxClock \in Nat

VARIABLES clock,      (* what s_clock() reads                              *)
          vec,        (* vec_work_                                         *)
          pc,         (* "idle", or the function that runs                 *)
          it,         (* its iterator                                      *)
          id,         (* the argument of MakeNewWorker                     *)
          now         (* CheckWorker's local copy of the clock             *)

vars == <<clock, vec, pc, it, id, now>>

begin == 1
end   == Len(vec) + 1

NewEntry(i) == [identity |-> i, expiry |-> clock + Lifetime]

Erase(s, i) == [j \in 1 .. Len(s) - 1 |-> IF j < i THEN s[j] ELSE s[j + 1]]

Init ==
    /\ clock = 0
    /\ vec = << >>
    /\ pc = "idle"
    /\ it = begin
    /\ id \in Ids
    /\ now = clock

CallMake(i) ==
    /\ pc = "idle"
    /\ pc' = "make"
    /\ id' = i
    /\ it' = begin
    /\ UNCHANGED <<clock, vec, now>>

\* Mutant: the loop without its it++.
MakeStays ==
    /\ pc = "make"
    /\ it < end
    /\ vec[it].identity # id
    /\ UNCHANGED vars

MakeAdvance ==
    /\ pc = "make"
    /\ it < end
    /\ vec[it].identity # id
    /\ it' = it + 1
    /\ UNCHANGED <<clock, vec, pc, id, now>>

\* Mutant: no break, and found stays false.
MakeUpdateGoesOn ==
    /\ pc = "make"
    /\ it < end
    /\ vec[it].identity = id
    /\ vec' = [vec EXCEPT ![it].expiry = clock + Lifetime]
    /\ it' = it + 1
    /\ UNCHANGED <<clock, pc, id, now>>

\* Found: move its expiry and break.
MakeUpdate ==
    /\ pc = "make"
    /\ it < end
    /\ vec[it].identity = id
    /\ vec' = [vec EXCEPT ![it].expiry = clock + Lifetime]
    /\ pc' = "idle"
    /\ UNCHANGED <<clock, it, id, now>>

\* Not found: push a new entry at the back.
MakePush ==
    /\ pc = "make"
    /\ it = end
    /\ vec' = Append(vec, NewEntry(id))
    /\ pc' = "idle"
    /\ UNCHANGED <<clock, it, id, now>>

CallCheck ==
    /\ pc = "idle"
    /\ pc' = "check"
    /\ now' = clock
    /\ it' = begin
    /\ UNCHANGED <<clock, vec, id>>

\* Mutants: itor = erase(itor) - 1 and on without itor++; itor = erase(itor),
\* then itor++.
CheckEraseBefore ==
    /\ pc = "check"
    /\ it < end
    /\ now > vec[it].expiry
    /\ vec' = Erase(vec, it)
    /\ it' = it - 1
    /\ UNCHANGED <<clock, pc, id, now>>
CheckEraseAfter ==
    /\ pc = "check"
    /\ it < end
    /\ now > vec[it].expiry
    /\ vec' = Erase(vec, it)
    /\ it' = it + 1
    /\ UNCHANGED <<clock, pc, id, now>>

\* itor = erase(itor) - 1, then the loop's itor++.
CheckErase ==
    /\ pc = "check"
    /\ it < end
    /\ now > vec[it].expiry
    /\ vec' = Erase(vec, it)
    /\ it' = (it - 1) + 1
    /\ UNCHANGED <<clock, pc, id, now>>

CheckAdvance ==
    /\ pc = "check"
    /\ it < end
    /\ ~ (now > vec[it].expiry)
    /\ it' = it + 1
    /\ UNCHANGED <<clock, vec, pc, id, now>>

CheckReturn ==
    /\ pc = "check"
    /\ ~ (it < end)
    /\ pc' = "idle"
    /\ UNCHANGED <<clock, vec, it, id, now>>

\* gettimeofday() between any two steps.
SetClock ==
    /\ clock' \in 0 .. MaxClock
    /\ UNCHANGED <<vec, pc, it, id, now>>

Next ==
    \/ \E i \in Ids : CallMake(i)
    \/ MakeAdvance \/ MakeUpdate \/ MakePush
    \/ CallCheck \/ CheckErase \/ CheckAdvance \/ CheckReturn
    \/ SetClock

Spec == Init /\ [][Next]_vars

FairSpec == Spec /\ WF_vars(MakeAdvance \/ MakeUpdate \/ MakePush)
                 /\ WF_vars(CheckErase \/ CheckAdvance \/ CheckReturn)

-----------------------------------------------------------------------------

TypeOK ==
    /\ clock \in 0 .. MaxClock
    /\ vec \in Seq(Entry(Ids))
    /\ pc \in {"idle", "make", "check"}
    /\ it \in 1 .. Len(vec) + 1
    /\ id \in Ids
    /\ now \in 0 .. MaxClock

\* No two positions carry one identity, in the middle of the loops included:
\* the search of MakeNewWorker sees every entry that CheckWorker has left.
NoDuplicates ==
    \A i, j \in 1 .. Len(vec) : vec[i].identity = vec[j].identity => i = j

\* Erasing while iterating skips no entry: what lies behind the iterator of
\* CheckWorker has not expired, so at the end of its loop nothing has.
NothingSkipped ==
    pc = "check" => \A i \in 1 .. Len(vec) : i < it => ~ (now > vec[i].expiry)

\* The loops end: every call returns.
CallsReturn == [](pc # "idle" => <>(pc = "idle"))

-----------------------------------------------------------------------------
(* The vector implements the table: MakeNewWorker takes effect when it      *)
(* writes, CheckWorker when it reads the clock.                             *)

Entries(s) == {s[i] : i \in 1 .. Len(s)}

Table == IF pc = "check" THEN CheckWorker(Entries(vec), now) ELSE Entries(vec)

\* Each step of the loops is one of the two operations of WorkerPool on the
\* set of entries, or leaves it alone; in particular CheckWorker as a whole
\* removes exactly the expired entries, whatever the order they are in.
ImplementsPool ==
    /\ Table = {}
    /\ [][\/ \E i \in Ids : Table' = MakeNewWorker(Table, i, clock)
          \/ Table' = CheckWorker(Table, clock)]_Table
=============================================================================
