-------------------------- MODULE WorkerPoolProofs --------------------------
(***************************************************************************)
(* Lemmas about the operations on the table of workers.                    *)
(***************************************************************************)
EXTENDS WorkerPool, TLAPS

\* The lifetime of a worker is a positive number of seconds.
LEMMA LifetimeType == Lifetime \in Nat \ {0}
<1>1. \A i, l \in Nat \ {0} : i * l \in Nat \ {0}
  OBVIOUS
<1>2. QED
  BY <1>1, HeartbeatAssumption DEF Lifetime

\* No two entries carry one identity.
OneEntryEach(vec) == \A d, e \in vec : d.identity = e.identity => d = e

\* What MakeNewWorker returns: entries again, id among them with the expiry
\* counted from now, every other entry as it was, and one entry per identity
\* if that was so before.
LEMMA MakeNewWorkerProperties ==
    ASSUME NEW Ids, NEW vec, vec \subseteq Entry(Ids), NEW id \in Ids,
           NEW now \in Int
    PROVE  /\ MakeNewWorker(vec, id, now) \subseteq Entry(Ids)
           /\ \A e \in MakeNewWorker(vec, id, now) :
                 IF e.identity = id THEN e.expiry = now + Lifetime ELSE e \in vec
           /\ OneEntryEach(vec) => OneEntryEach(MakeNewWorker(vec, id, now))
<1> DEFINE mine   == [identity |-> id, expiry |-> now + Lifetime]
           others == {e \in vec : e.identity # id}
<1>1. mine \in Entry(Ids) /\ mine.identity = id /\ mine.expiry = now + Lifetime
  BY LifetimeType DEF Entry
<1>2. MakeNewWorker(vec, id, now) = others \cup {mine}
  <2>1. \A e \in vec : e.identity = id => [e EXCEPT !.expiry = now + Lifetime] = mine
    BY DEF Entry
  <2>2. CASE id \in Registered(vec)
    <3>1. PICK e \in vec : e.identity = id
      BY <2>2 DEF Registered
    <3>2. MakeNewWorker(vec, id, now) =
            {IF d.identity = id THEN mine ELSE d : d \in vec}
      BY <2>1, <2>2 DEF MakeNewWorker
    <3>3. QED
      BY <3>1, <3>2
  <2>3. CASE id \notin Registered(vec)
    <3>1. others = vec
      BY <2>3 DEF Registered
    <3>2. QED
      BY <2>3, <3>1 DEF MakeNewWorker
  <2>4. QED
    BY <2>2, <2>3
<1> HIDE DEF mine
<1>3. \A e \in others \cup {mine} :
         /\ e \in Entry(Ids)
         /\ IF e.identity = id THEN e = mine ELSE e \in vec
  BY <1>1
<1>4. OneEntryEach(vec) => OneEntryEach(others \cup {mine})
  BY <1>1 DEF OneEntryEach
<1>5. QED
  BY <1>1, <1>2, <1>3, <1>4

\* After a heartbeat the table is not empty.
LEMMA MakeNewWorkerNotEmpty ==
    ASSUME NEW vec, NEW id, NEW now
    PROVE  MakeNewWorker(vec, id, now) # {}
<1>1. CASE id \in Registered(vec)
  <2>1. PICK e \in vec : e.identity = id
    BY <1>1 DEF Registered
  <2>2. QED
    BY <1>1, <2>1 DEF MakeNewWorker
<1>2. CASE id \notin Registered(vec)
  BY <1>2 DEF MakeNewWorker
<1>3. QED
  BY <1>1, <1>2

\* CheckWorker only removes, and leaves nothing that the clock has passed.
LEMMA CheckWorkerProperties ==
    ASSUME NEW vec, NEW now \in Int, \A e \in vec : e.expiry \in Int
    PROVE  /\ CheckWorker(vec, now) \subseteq vec
           /\ \A e \in CheckWorker(vec, now) : now <= e.expiry
  BY DEF CheckWorker

\* GetWorker finds nobody only in an empty table.
LEMMA GetWorkerEmpty ==
    ASSUME NEW vec
    PROVE  GetWorker(vec) = {} <=> vec = {}
  BY DEF GetWorker, Registered
=============================================================================
