------------------------- MODULE WorkerVectorProofs -------------------------
(***************************************************************************)
(* The loops over std::vector<worker> keep one entry per identity and skip *)
(* nothing, for any identities, any number of entries and any clock.       *)
(*                                                                         *)
(* NoDuplicates is not inductive: MakePush keeps it because the search has *)
(* seen every entry before the iterator, which Searched says.              *)
(***************************************************************************)
EXTENDS WorkerVector, WorkerPoolProofs

\* What MakeNewWorker's loop has passed is not the identity it looks for.
Searched ==
    pc = "make" => \A i \in 1 .. Len(vec) : i < it => vec[i].identity # id

Inv == TypeOK /\ NoDuplicates /\ Searched /\ NothingSkipped

\* Erasing position i moves what lies behind it up by one.
LEMMA EraseProperties ==
    ASSUME NEW S, NEW s \in Seq(S), NEW i \in 1 .. Len(s)
    PROVE  /\ Erase(s, i) \in Seq(S)
           /\ Len(Erase(s, i)) = Len(s) - 1
           /\ \A j \in 1 .. Len(s) - 1 :
                 Erase(s, i)[j] = IF j < i THEN s[j] ELSE s[j + 1]
<1>1. Len(s) \in Nat /\ Len(s) - 1 \in Nat
  OBVIOUS
<1>2. \A j \in 1 .. Len(s) - 1 : j \in 1 .. Len(s) /\ j + 1 \in 1 .. Len(s)
  BY <1>1
<1>3. \A j \in 1 .. Len(s) : s[j] \in S
  OBVIOUS
<1>4. Erase(s, i) \in [1 .. Len(s) - 1 -> S]
  BY <1>2, <1>3 DEF Erase
<1>5. Erase(s, i) \in Seq(S) /\ Len(Erase(s, i)) = Len(s) - 1
  BY <1>1, <1>4
<1>6. QED
  BY <1>5 DEF Erase

\* Moving the expiry of one entry leaves the identities as they were.
LEMMA UpdateProperties ==
    ASSUME NEW S, NEW s \in Seq(Entry(S)), NEW i \in 1 .. Len(s), NEW t \in Int
    PROVE  LET u == [s EXCEPT ![i].expiry = t] IN
           /\ u \in Seq(Entry(S))
           /\ Len(u) = Len(s)
           /\ \A j \in 1 .. Len(s) : u[j].identity = s[j].identity
<1> DEFINE u == [s EXCEPT ![i].expiry = t]
<1>1. \A j \in 1 .. Len(s) : s[j] \in Entry(S)
  OBVIOUS
<1>2. \A e \in Entry(S) : /\ [e EXCEPT !.expiry = t] \in Entry(S)
                          /\ [e EXCEPT !.expiry = t].identity = e.identity
  BY DEF Entry
<1>3. u = [s EXCEPT ![i] = [s[i] EXCEPT !.expiry = t]]
  OBVIOUS
<1>4. \A j \in 1 .. Len(s) :
         u[j] = IF j = i THEN [s[i] EXCEPT !.expiry = t] ELSE s[j]
  BY <1>3
<1>5. u \in [1 .. Len(s) -> Entry(S)]
  <2>1. DOMAIN u = 1 .. Len(s)
    OBVIOUS
  <2>2. \A j \in 1 .. Len(s) : u[j] \in Entry(S)
    BY <1>1, <1>2, <1>4
  <2>3. u = [j \in DOMAIN u |-> u[j]]
    OBVIOUS
  <2> HIDE DEF u
  <2>4. QED
    BY <2>1, <2>2, <2>3
<1>6. Len(s) \in Nat
  OBVIOUS
<1>7. \A j \in 1 .. Len(s) : u[j].identity = s[j].identity
  BY <1>1, <1>2, <1>4
<1> HIDE DEF u
<1>8. u \in Seq(Entry(S)) /\ Len(u) = Len(s)
  BY <1>5, <1>6
<1>9. QED
  BY <1>7, <1>8 DEF u

-----------------------------------------------------------------------------

\* At the start there is no entry.
LEMMA InitInv == Init => Inv
  BY VectorAssumption
     DEF Init, Inv, TypeOK, NoDuplicates, Searched, NothingSkipped, begin

\* Every step keeps the invariant.
LEMMA NextInv == Inv /\ [Next]_vars => Inv'
<1> SUFFICES ASSUME Inv, [Next]_vars
             PROVE  Inv'
  OBVIOUS
<1> USE DEF Inv
<1>0. Len(vec) \in Nat /\ clock \in Int /\ it \in Nat
  BY VectorAssumption DEF TypeOK
<1>1. ASSUME NEW i \in Ids, CallMake(i)
      PROVE  Inv'
  BY <1>0, <1>1 DEF CallMake, TypeOK, NoDuplicates, Searched, NothingSkipped, begin
<1>2. CASE MakeAdvance
  BY <1>0, <1>2
     DEF MakeAdvance, TypeOK, NoDuplicates, Searched, NothingSkipped, end
<1>3. CASE MakeUpdate
  <2>1. it \in 1 .. Len(vec) /\ clock + Lifetime \in Int
    BY <1>0, <1>3, LifetimeType DEF MakeUpdate, end, TypeOK
  <2>2. /\ vec' \in Seq(Entry(Ids))
        /\ Len(vec') = Len(vec)
        /\ \A j \in 1 .. Len(vec) : vec'[j].identity = vec[j].identity
    BY <1>3, <2>1, UpdateProperties DEF MakeUpdate, TypeOK
  <2>3. TypeOK'
    BY <1>3, <2>2 DEF MakeUpdate, TypeOK
  <2>4. NoDuplicates'
    BY <2>2 DEF NoDuplicates
  <2>5. QED
    BY <1>3, <2>3, <2>4 DEF MakeUpdate, Searched, NothingSkipped
<1>4. CASE MakePush
  <2>1. NewEntry(id) \in Entry(Ids) /\ NewEntry(id).identity = id
    BY <1>0, LifetimeType DEF NewEntry, Entry, TypeOK
  <2>2. /\ vec' \in Seq(Entry(Ids))
        /\ Len(vec') = Len(vec) + 1
        /\ \A j \in 1 .. Len(vec') :
              vec'[j] = IF j <= Len(vec) THEN vec[j] ELSE NewEntry(id)
    BY <1>4, <2>1 DEF MakePush, TypeOK
  <2>3. TypeOK'
    BY <1>0, <1>4, <2>2 DEF MakePush, TypeOK, end
  <2>4. \A j \in 1 .. Len(vec) : vec[j].identity # id
    BY <1>0, <1>4 DEF MakePush, end, Searched
  <2>5. NoDuplicates'
    <3>1. SUFFICES ASSUME NEW i \in 1 .. Len(vec'), NEW j \in 1 .. Len(vec'),
                          vec'[i].identity = vec'[j].identity
                   PROVE  i = j
      BY DEF NoDuplicates
    <3>2. CASE i <= Len(vec) /\ j <= Len(vec)
      BY <1>0, <2>2, <3>1, <3>2 DEF NoDuplicates
    <3>3. CASE ~ (i <= Len(vec)) /\ j <= Len(vec)
      BY <1>0, <2>1, <2>2, <2>4, <3>1, <3>3
    <3>4. CASE i <= Len(vec) /\ ~ (j <= Len(vec))
      BY <1>0, <2>1, <2>2, <2>4, <3>1, <3>4
    <3>5. CASE ~ (i <= Len(vec)) /\ ~ (j <= Len(vec))
      BY <1>0, <2>2, <3>5
    <3>6. QED
      BY <3>2, <3>3, <3>4, <3>5
  <2>6. QED
    BY <1>4, <2>3, <2>5 DEF MakePush, Searched, NothingSkipped
<1>5. CASE CallCheck
  BY <1>0, <1>5 DEF CallCheck, TypeOK, NoDuplicates, Searched, NothingSkipped, begin
<1>6. CASE CheckErase
  <2>1. it \in 1 .. Len(vec) /\ it' = it /\ pc' = "check" /\ now' = now
    BY <1>0, <1>6 DEF CheckErase, end, TypeOK
  <2>2. /\ vec' \in Seq(Entry(Ids))
        /\ Len(vec') = Len(vec) - 1
        /\ \A j \in 1 .. Len(vec) - 1 :
              vec'[j] = IF j < it THEN vec[j] ELSE vec[j + 1]
    BY <1>6, <2>1, EraseProperties, ZenonT(60) DEF CheckErase, TypeOK
  <2>3. TypeOK'
    BY <1>0, <1>6, <2>1, <2>2 DEF CheckErase, TypeOK
  <2>4. NoDuplicates'
    <3>1. SUFFICES ASSUME NEW i \in 1 .. Len(vec'), NEW j \in 1 .. Len(vec'),
                          vec'[i].identity = vec'[j].identity
                   PROVE  i = j
      BY DEF NoDuplicates
    <3> DEFINE old(k) == IF k < it THEN k ELSE k + 1
    <3>2. old(i) \in 1 .. Len(vec) /\ old(j) \in 1 .. Len(vec)
      BY <1>0, <2>2
    <3>3. vec'[i] = vec[old(i)] /\ vec'[j] = vec[old(j)]
      BY <1>0, <2>2
    <3>4. old(i) = old(j)
      BY <3>1, <3>2, <3>3 DEF NoDuplicates
    <3>5. QED
      BY <1>0, <2>2, <3>4
  <2>5. NothingSkipped'
    BY <1>0, <1>6, <2>1, <2>2 DEF CheckErase, NothingSkipped
  <2>6. QED
    BY <2>1, <2>3, <2>4, <2>5 DEF Searched
<1>7. CASE CheckAdvance
  BY <1>0, <1>7
     DEF CheckAdvance, TypeOK, NoDuplicates, Searched, NothingSkipped, end
<1>8. CASE CheckReturn
  BY <1>8 DEF CheckReturn, TypeOK, NoDuplicates, Searched, NothingSkipped
<1>9. CASE SetClock
  BY <1>9 DEF SetClock, TypeOK, NoDuplicates, Searched, NothingSkipped
<1>10. CASE UNCHANGED vars
  BY <1>10 DEF vars, TypeOK, NoDuplicates, Searched, NothingSkipped
<1>11. QED
  BY <1>1, <1>2, <1>3, <1>4, <1>5, <1>6, <1>7, <1>8, <1>9, <1>10 DEF Next

\* The invariant of the loops.
THEOREM LoopsCorrect == Spec => []Inv
  BY InitInv, NextInv, PTL DEF Spec

\* The iterator stays between begin() and end() and the entries are entries.
THEOREM VectorTyped == Spec => []TypeOK
  BY LoopsCorrect, PTL DEF Inv

\* vec_work_ never has two entries for one worker, in the middle of a loop
\* included, for any number of workers and whatever the clock does.
THEOREM VectorHasNoDuplicates == Spec => []NoDuplicates
  BY LoopsCorrect, PTL DEF Inv

\* CheckWorker's loop, which erases while it iterates, leaves nothing behind
\* its iterator that has expired.
THEOREM EraseSkipsNothing == Spec => []NothingSkipped
  BY LoopsCorrect, PTL DEF Inv

-----------------------------------------------------------------------------
(* Each step of the loops is an operation on the set of entries, or none.   *)

AbstractStep ==
    \/ \E i \in Ids : Table' = MakeNewWorker(Table, i, clock)
    \/ Table' = CheckWorker(Table, clock)
    \/ Table' = Table

\* The entry whose expiry MakeNewWorker's loop moves is the only one of that
\* identity: the vector then holds what MakeNewWorker makes of the set.
LEMMA UpdateImplements == Inv /\ MakeUpdate => AbstractStep
<1> SUFFICES ASSUME Inv, MakeUpdate PROVE AbstractStep
  OBVIOUS
<1> DEFINE t     == clock + Lifetime
           mk(e) == [e EXCEPT !.expiry = t]
<1>1. /\ it \in 1 .. Len(vec) /\ vec[it].identity = id /\ id \in Ids
      /\ pc = "make" /\ pc' = "idle" /\ Len(vec) \in Nat
  BY DEF Inv, MakeUpdate, end, TypeOK
<1>2. /\ Len(vec') = Len(vec)
      /\ \A j \in 1 .. Len(vec) : vec'[j] = IF j = it THEN mk(vec[it]) ELSE vec[j]
  <2>1. vec \in [1 .. Len(vec) -> Entry(Ids)] /\ vec \in Seq(Entry(Ids))
    BY DEF Inv, TypeOK
  <2>2. vec' = [vec EXCEPT ![it] = mk(vec[it])]
    BY DEF MakeUpdate
  <2>3. Len(vec') = Len(vec)
    <3>1. t \in Int
      BY LifetimeType, VectorAssumption DEF Inv, TypeOK
    <3>2. QED
      BY <1>1, <2>1, <3>1, UpdateProperties DEF MakeUpdate
  <2>4. QED
    BY <2>1, <2>2, <2>3
<1>3. \A j \in 1 .. Len(vec) : vec[j].identity = id <=> j = it
  BY <1>1 DEF Inv, NoDuplicates
<1>4. \A j \in 1 .. Len(vec) :
         vec'[j] = IF vec[j].identity = id THEN mk(vec[j]) ELSE vec[j]
  BY <1>2, <1>3
<1>5. Table = Entries(vec) /\ Table' = Entries(vec')
  BY <1>1 DEF Table
<1>6. id \in Registered(Entries(vec))
  BY <1>1 DEF Registered, Entries
<1>7. Entries(vec') = {IF e.identity = id THEN mk(e) ELSE e : e \in Entries(vec)}
  <2> HIDE DEF mk
  <2>1. QED
    BY <1>2, <1>4 DEF Entries
<1>8. Table' = MakeNewWorker(Table, id, clock)
  BY <1>5, <1>6, <1>7 DEF MakeNewWorker
<1>9. QED
  BY <1>1, <1>8 DEF AbstractStep

\* The search has seen no entry of the identity it pushes.
LEMMA PushImplements == Inv /\ MakePush => AbstractStep
<1> SUFFICES ASSUME Inv, MakePush PROVE AbstractStep
  OBVIOUS
<1> DEFINE new == NewEntry(id)
<1>1. /\ it = Len(vec) + 1 /\ id \in Ids /\ Len(vec) \in Nat
      /\ pc = "make" /\ pc' = "idle"
  BY DEF Inv, MakePush, end, TypeOK
<1>2. /\ Len(vec') = Len(vec) + 1
      /\ \A j \in 1 .. Len(vec) : vec'[j] = vec[j]
      /\ vec'[Len(vec) + 1] = new
  <2>1. vec \in Seq(Entry(Ids)) /\ new \in Entry(Ids)
    BY LifetimeType, VectorAssumption DEF Inv, TypeOK, NewEntry, Entry
  <2> HIDE DEF new
  <2>2. vec' = Append(vec, new)
    BY DEF MakePush, new
  <2>3. QED
    BY <2>1, <2>2
<1> HIDE DEF new
<1>3. Entries(vec') = Entries(vec) \cup {new}
  <2>1. \A j \in 1 .. Len(vec') : j \in 1 .. Len(vec) \/ j = Len(vec) + 1
    BY <1>1, <1>2
  <2>2. \A j \in 1 .. Len(vec) : j \in 1 .. Len(vec')
    BY <1>1, <1>2
  <2>3. Len(vec) + 1 \in 1 .. Len(vec')
    BY <1>1, <1>2
  <2>4. Entries(vec') \subseteq Entries(vec) \cup {new}
    BY <1>2, <2>1 DEF Entries
  <2>5. Entries(vec) \cup {new} \subseteq Entries(vec')
    BY <1>2, <2>2, <2>3 DEF Entries
  <2>6. QED
    BY <2>4, <2>5
<1>4. id \notin Registered(Entries(vec))
  <2>1. \A j \in 1 .. Len(vec) : vec[j].identity # id
    BY <1>1 DEF Inv, Searched
  <2>2. QED
    BY <2>1 DEF Registered, Entries
<1>5. Table = Entries(vec) /\ Table' = Entries(vec')
  BY <1>1 DEF Table
<1>6. Table' = MakeNewWorker(Table, id, clock)
  BY <1>3, <1>4, <1>5 DEF MakeNewWorker, new, NewEntry
<1>7. QED
  BY <1>1, <1>6 DEF AbstractStep

\* What CheckWorker's loop erases is gone from the table since the call.
LEMMA EraseImplements == Inv /\ CheckErase => Table' = Table
<1> SUFFICES ASSUME Inv, CheckErase PROVE Table' = Table
  OBVIOUS
<1>1. /\ it \in 1 .. Len(vec) /\ now > vec[it].expiry /\ Len(vec) \in Nat
      /\ pc = "check" /\ pc' = "check" /\ now' = now
  BY DEF Inv, CheckErase, end, TypeOK
<1>2. /\ Len(vec') = Len(vec) - 1
      /\ \A j \in 1 .. Len(vec) - 1 :
            vec'[j] = IF j < it THEN vec[j] ELSE vec[j + 1]
  BY <1>1, EraseProperties DEF CheckErase, Inv, TypeOK
<1>3. Entries(vec') \subseteq Entries(vec)
  BY <1>1, <1>2 DEF Entries
<1>4. \A e \in Entries(vec) : e # vec[it] => e \in Entries(vec')
  <2>1. SUFFICES ASSUME NEW j \in 1 .. Len(vec), j # it
                 PROVE  vec[j] \in Entries(vec')
    BY DEF Entries
  <2> DEFINE k == IF j < it THEN j ELSE j - 1
  <2>2. k \in 1 .. Len(vec') /\ vec'[k] = vec[j]
    BY <1>1, <1>2, <2>1
  <2>3. QED
    BY <2>2 DEF Entries
<1>5. CheckWorker(Entries(vec'), now) = CheckWorker(Entries(vec), now)
  BY <1>1, <1>3, <1>4 DEF CheckWorker
<1>6. QED
  BY <1>1, <1>5 DEF Table

\* At the end of its loop the vector holds what CheckWorker keeps.
LEMMA ReturnImplements == Inv /\ CheckReturn => Table' = Table
<1> SUFFICES ASSUME Inv, CheckReturn PROVE Table' = Table
  OBVIOUS
<1>1. /\ pc = "check" /\ pc' = "idle" /\ vec' = vec
      /\ \A i \in 1 .. Len(vec) : i < it
  BY DEF Inv, CheckReturn, end, TypeOK
<1>2. \A e \in Entries(vec) : ~ (now > e.expiry)
  BY <1>1 DEF Entries, Inv, NothingSkipped
<1>3. CheckWorker(Entries(vec), now) = Entries(vec)
  BY <1>2 DEF CheckWorker
<1>4. QED
  BY <1>1, <1>3 DEF Table

\* Every step of a loop is one operation of WorkerPool on the table, or none.
LEMMA StepImplements == Inv /\ [Next]_vars => AbstractStep
<1> SUFFICES ASSUME Inv, [Next]_vars PROVE AbstractStep
  OBVIOUS
<1>1. ASSUME NEW i \in Ids, CallMake(i) PROVE AbstractStep
  BY <1>1 DEF CallMake, Table, AbstractStep
<1>2. CASE MakeAdvance
  BY <1>2 DEF MakeAdvance, Table, AbstractStep
<1>3. CASE CallCheck
  BY <1>3 DEF CallCheck, Table, AbstractStep
<1>4. CASE CheckAdvance
  BY <1>4 DEF CheckAdvance, Table, AbstractStep
<1>5. CASE SetClock
  BY <1>5 DEF SetClock, Table, AbstractStep
<1>6. CASE UNCHANGED vars
  BY <1>6 DEF vars, Table, AbstractStep
<1>7. QED
  BY <1>1, <1>2, <1>3, <1>4, <1>5, <1>6, UpdateImplements, PushImplements,
     EraseImplements, ReturnImplements DEF Next, AbstractStep

\* The vector and its loops implement the table of WorkerPool: MakeNewWorker
\* takes effect where its loop writes, CheckWorker where it reads the clock,
\* and no other step changes the table.
THEOREM VectorImplementsPool == Spec => ImplementsPool
<1>1. Init => Table = {}
  BY DEF Init, Table, Entries
<1>2. Inv /\ [Next]_vars =>
         [\/ \E i \in Ids : Table' = MakeNewWorker(Table, i, clock)
          \/ Table' = CheckWorker(Table, clock)]_Table
  BY StepImplements DEF AbstractStep
<1>3. QED
  BY <1>1, <1>2, LoopsCorrect, PTL DEF Spec, ImplementsPool
=============================================================================
