------------------------- MODULE MessageOwnerProofs -------------------------
(***************************************************************************)
(* The contents of messages are freed once, and shared only by copy(), for *)
(* any finite number of messages and any number of contents.               *)
(*                                                                         *)
(* The argument counts: a step writes one handle or two, so the number of  *)
(* handles that hold a value changes by what was there and what comes, and *)
(* libzmq's count of references changes with it.                           *)
(***************************************************************************)
EXTENDS MessageOwner, FiniteSetTheorems, TLAPS

Values == Contents \cup {Absent, Closed, Inline}

Count(m, b) == Cardinality(Holders(m, b))

\* 1 for what holds, so that the counting reads as a sum.
One(x, b) == IF x = b THEN 1 ELSE 0

Typed ==
    /\ msg \in [Handles -> Values]
    /\ refs \in [Contents -> Int]
    /\ freed \in [Contents -> Int]
    /\ made \subseteq Contents
    /\ copied \subseteq Contents

\* Nobody refers to contents that were not made.
NoneBeforeMade == \A b \in Contents \ made : Count(msg, b) = 0

Inv == Typed /\ FreedOnce /\ NoneBeforeMade /\ SharedOnlyByCopy

-----------------------------------------------------------------------------
(* Counting *)

\* m with v at handle h.
Put(m, h, v) == [m EXCEPT ![h] = v]

\* The handles that hold a value are finitely many, and none if the count is 0.
LEMMA CountType ==
    ASSUME NEW m, NEW b
    PROVE  /\ Count(m, b) \in Nat
           /\ IsFiniteSet(Holders(m, b))
           /\ \A h \in Handles : m[h] = b => Count(m, b) >= 1
<1>1. IsFiniteSet(Holders(m, b))
  BY OwnerAssumption, FS_Subset DEF Holders
<1>2. Count(m, b) \in Nat
  BY <1>1, FS_CardinalityType DEF Count
<1>3. Count(m, b) = 0 => Holders(m, b) = {}
  BY <1>1, FS_EmptySet DEF Count
<1>4. ASSUME NEW h \in Handles, m[h] = b PROVE Count(m, b) >= 1
  <2>1. h \in Holders(m, b)
    BY <1>4 DEF Holders
  <2>2. QED
    BY <1>2, <1>3, <2>1
<1>5. QED
  BY <1>1, <1>2, <1>4

\* What one handle held is counted once less, what it gets once more.
LEMMA CountOne ==
    ASSUME NEW m \in [Handles -> Values], NEW h \in Handles, NEW v \in Values
    PROVE  /\ Put(m, h, v) \in [Handles -> Values]
           /\ \A g \in Handles : Put(m, h, v)[g] = IF g = h THEN v ELSE m[g]
           /\ \A b : Count(Put(m, h, v), b) =
                       Count(m, b) - One(m[h], b) + One(v, b)
<1> DEFINE n == Put(m, h, v)
<1>1. n \in [Handles -> Values] /\ \A g \in Handles : n[g] = IF g = h THEN v ELSE m[g]
  BY DEF Put
<1> HIDE DEF n
<1>2. ASSUME NEW b PROVE Count(n, b) = Count(m, b) - One(m[h], b) + One(v, b)
  <2>1. Holders(n, b) = IF v = b THEN Holders(m, b) \cup {h} ELSE Holders(m, b) \ {h}
    BY <1>1 DEF Holders
  <2>2. h \in Holders(m, b) <=> m[h] = b
    BY DEF Holders
  <2>3. IsFiniteSet(Holders(m, b)) /\ Cardinality(Holders(m, b)) \in Nat
    BY CountType DEF Count
  <2>4. /\ Cardinality(Holders(m, b) \cup {h}) =
              IF m[h] = b THEN Cardinality(Holders(m, b))
                          ELSE Cardinality(Holders(m, b)) + 1
        /\ Cardinality(Holders(m, b) \ {h}) =
              IF m[h] = b THEN Cardinality(Holders(m, b)) - 1
                          ELSE Cardinality(Holders(m, b))
    BY <2>2, <2>3, FS_AddElement, FS_RemoveElement
  <2>5. QED
    BY <2>1, <2>3, <2>4 DEF Count, One
<1>3. QED
  BY <1>1, <1>2 DEF n

\* n is m with u at handle g and v at handle h, and counted accordingly.
Written(n, m, g, u, h, v) ==
    /\ n \in [Handles -> Values]
    /\ \A k \in Handles : n[k] = IF k = h THEN v ELSE IF k = g THEN u ELSE m[k]
    /\ \A b : Count(n, b) = Count(m, b) - One(m[g], b) - One(m[h], b)
                                        + One(u, b) + One(v, b)

\* The same for two handles that are written in one step.
LEMMA CountTwo ==
    ASSUME NEW m \in [Handles -> Values], NEW g \in Handles, NEW h \in Handles,
           g # h, NEW u \in Values, NEW v \in Values
    PROVE  Written(Put(Put(m, g, u), h, v), m, g, u, h, v)
<1> DEFINE l == Put(m, g, u)
           n == Put(l, h, v)
<1>1. /\ l \in [Handles -> Values]
      /\ \A k \in Handles : l[k] = IF k = g THEN u ELSE m[k]
      /\ \A b : Count(l, b) = Count(m, b) - One(m[g], b) + One(u, b)
  BY CountOne
<1> HIDE DEF l
<1>2. /\ n \in [Handles -> Values]
      /\ \A k \in Handles : n[k] = IF k = h THEN v ELSE l[k]
      /\ \A b : Count(n, b) = Count(l, b) - One(l[h], b) + One(v, b)
  BY <1>1, CountOne, ZenonT(60)
<1>3. l[h] = m[h]
  BY <1>1
<1>4. ASSUME NEW b
      PROVE  Count(n, b) = Count(m, b) - One(m[g], b) - One(m[h], b)
                                       + One(u, b) + One(v, b)
  <2>1. Count(m, b) \in Nat
    BY CountType
  <2>2. /\ Count(l, b) = Count(m, b) - One(m[g], b) + One(u, b)
        /\ Count(n, b) = Count(l, b) - One(m[h], b) + One(v, b)
    BY <1>1, <1>2, <1>3
  <2> HIDE DEF n
  <2>3. QED
    BY <2>1, <2>2 DEF One
<1>5. QED
  BY <1>1, <1>2, <1>4 DEF l, Written

-----------------------------------------------------------------------------
(* libzmq's counts *)

\* After a step that closes x and leaves everything else in as many handles
\* as before, the counts of references and of frees are right again.
LEMMA CloseCounts ==
    ASSUME Typed, FreedOnce, NoneBeforeMade,
           NEW x \in Values, NEW h \in Handles, msg[h] = x,
           Close(x), made' = made,
           \A b \in Contents : Count(msg', b) = Count(msg, b) - One(x, b)
    PROVE  /\ refs' \in [Contents -> Int]
           /\ freed' \in [Contents -> Int]
           /\ FreedOnce'
           /\ NoneBeforeMade'
<1>1. refs' \in [Contents -> Int] /\ freed' \in [Contents -> Int]
  BY DEF Close, Dropped, Typed
<1>2. ASSUME NEW b \in Contents
      PROVE  /\ refs'[b] = Count(msg', b)
             /\ freed'[b] = IF b \in made' /\ refs'[b] = 0 THEN 1 ELSE 0
             /\ b \notin made' => Count(msg', b) = 0
  <2>1. /\ refs[b] = Count(msg, b)
        /\ freed[b] = IF b \in made /\ refs[b] = 0 THEN 1 ELSE 0
        /\ b \notin made => Count(msg, b) = 0
    BY DEF FreedOnce, NoneBeforeMade, Count
  <2>2. Count(msg, b) \in Nat /\ (x = b => Count(msg, b) >= 1)
    BY CountType
  <2>3. CASE x = b
    <3>1. refs'[b] = refs[b] - 1 /\ Count(msg', b) = Count(msg, b) - 1
      BY <2>3 DEF Close, Dropped, Typed, One
    <3>2. freed'[b] = IF refs[b] = 1 THEN freed[b] + 1 ELSE freed[b]
      BY <2>3 DEF Close, Typed
    <3>3. QED
      BY <2>1, <2>2, <2>3, <3>1, <3>2
  <2>4. CASE x # b
    <3>1. refs'[b] = refs[b] /\ freed'[b] = freed[b]
      BY <2>4 DEF Close, Dropped, Typed
    <3>2. Count(msg', b) = Count(msg, b)
      BY <2>2, <2>4 DEF One
    <3>3. QED
      BY <2>1, <2>2, <3>1, <3>2
  <2>5. QED
    BY <2>3, <2>4
<1>3. QED
  BY <1>1, <1>2 DEF FreedOnce, NoneBeforeMade, Count

\* A step that leaves the references and moves messages about.
LEMMA MoveCounts ==
    ASSUME FreedOnce, NoneBeforeMade,
           UNCHANGED <<refs, freed, made>>,
           \A b \in Contents : Count(msg', b) = Count(msg, b)
    PROVE  FreedOnce' /\ NoneBeforeMade'
  BY DEF FreedOnce, NoneBeforeMade, Count

\* New contents b at handle h.
LEMMA FillCounts ==
    ASSUME Typed, FreedOnce, NoneBeforeMade,
           NEW h \in Handles, NEW b \in Contents, Fill(h, b)
    PROVE  /\ msg' \in [Handles -> Values]
           /\ refs' \in [Contents -> Int]
           /\ freed' \in [Contents -> Int]
           /\ made' \subseteq Contents
           /\ FreedOnce'
           /\ NoneBeforeMade'
<1>0. refs' \in [Contents -> Int] /\ freed' \in [Contents -> Int]
  <2>1. Dropped(msg[h]) \in [Contents -> Int]
    BY DEF Dropped, Typed
  <2>2. refs' \in [Contents -> Int]
    BY <2>1 DEF Fill
  <2>3. freed' \in [Contents -> Int]
    BY DEF Fill, Typed
  <2>4. QED
    BY <2>2, <2>3
<1>1. made' = made \cup {b} /\ b \notin made /\ msg' = Put(msg, h, b)
  BY DEF Fill, Put
<1>2. msg[h] \in Values /\ b \in Values
  BY DEF Typed, Values
<1>3. /\ msg' \in [Handles -> Values]
      /\ \A c : Count(msg', c) = Count(msg, c) - One(msg[h], c) + One(b, c)
  BY <1>1, <1>2, CountOne DEF Typed
<1>4. ASSUME NEW c \in Contents
      PROVE  /\ refs'[c] = Count(msg', c)
             /\ freed'[c] = IF c \in made' /\ refs'[c] = 0 THEN 1 ELSE 0
             /\ c \notin made' => Count(msg', c) = 0
  <2>1. /\ refs[c] = Count(msg, c)
        /\ freed[c] = IF c \in made /\ refs[c] = 0 THEN 1 ELSE 0
        /\ c \notin made => Count(msg, c) = 0
    BY DEF FreedOnce, NoneBeforeMade, Count
  <2>2. Count(msg, c) \in Nat /\ (msg[h] = c => Count(msg, c) >= 1)
    BY CountType
  <2>3. Count(msg', c) = Count(msg, c) - One(msg[h], c) + One(b, c)
    BY <1>3
  <2>4. CASE c = b
    <3>1. Count(msg, c) = 0 /\ msg[h] # c
      BY <1>1, <2>1, <2>2, <2>4
    <3>2. refs'[c] = 1 /\ freed'[c] = freed[c]
      BY <2>4, <3>1 DEF Fill, Dropped, Typed
    <3>3. QED
      BY <1>1, <2>1, <2>3, <2>4, <3>1, <3>2 DEF One
  <2>5. CASE c # b /\ msg[h] = c
    <3>1. /\ refs'[c] = refs[c] - 1
          /\ freed'[c] = IF refs[c] = 1 THEN freed[c] + 1 ELSE freed[c]
      BY <2>5 DEF Fill, Dropped, Typed
    <3>2. Count(msg', c) = Count(msg, c) - 1
      BY <2>2, <2>3, <2>5 DEF One
    <3>3. QED
      BY <1>1, <2>1, <2>2, <2>5, <3>1, <3>2
  <2>6. CASE c # b /\ msg[h] # c
    <3>1. refs'[c] = refs[c] /\ freed'[c] = freed[c]
      BY <2>6 DEF Fill, Dropped, Typed
    <3>2. Count(msg', c) = Count(msg, c)
      BY <2>2, <2>3, <2>6 DEF One
    <3>3. QED
      BY <1>1, <2>1, <2>2, <2>6, <3>1, <3>2
  <2>7. QED
    BY <2>4, <2>5, <2>6
<1>5. QED
  BY <1>0, <1>1, <1>3, <1>4 DEF FreedOnce, NoneBeforeMade, Count, Typed

-----------------------------------------------------------------------------
(* The invariant, by what a step does to the handles *)

NoContents == {Absent, Closed, Inline}

\* A handle is closed and gets something without contents.
LEMMA ClosePut ==
    ASSUME Inv, NEW h \in Handles, NEW v \in NoContents,
           Close(msg[h]), msg' = Put(msg, h, v), UNCHANGED <<made, copied>>
    PROVE  Inv'
<1>1. /\ msg[h] \in Values /\ v \in Values
      /\ \A b \in Contents : One(v, b) = 0
  BY OwnerAssumption DEF Inv, Typed, NoContents, Values, One
<1>2. /\ msg' \in [Handles -> Values]
      /\ \A g \in Handles : msg'[g] = IF g = h THEN v ELSE msg[g]
      /\ \A b : Count(msg', b) = Count(msg, b) - One(msg[h], b) + One(v, b)
  BY <1>1, CountOne DEF Inv, Typed
<1>3. \A b \in Contents : Count(msg', b) = Count(msg, b) - One(msg[h], b)
  BY <1>1, <1>2, CountType DEF One
<1>4. /\ refs' \in [Contents -> Int] /\ freed' \in [Contents -> Int]
      /\ FreedOnce' /\ NoneBeforeMade'
  BY <1>1, <1>3, CloseCounts DEF Inv
<1>5. SharedOnlyByCopy'
  BY <1>2, OwnerAssumption DEF Inv, SharedOnlyByCopy, NoContents
<1>6. QED
  BY <1>2, <1>4, <1>5 DEF Inv, Typed

\* Handle g is closed and takes what h holds, h gets something without
\* contents.
LEMMA MovePut ==
    ASSUME Inv, NEW g \in Handles, NEW h \in Handles, g # h, NEW v \in NoContents,
           Close(msg[g]), msg' = Put(Put(msg, g, msg[h]), h, v),
           UNCHANGED <<made, copied>>
    PROVE  Inv'
<1>1. /\ msg[g] \in Values /\ msg[h] \in Values /\ v \in Values
      /\ \A b \in Contents : One(v, b) = 0
  BY OwnerAssumption DEF Inv, Typed, NoContents, Values, One
<1>2. /\ msg' \in [Handles -> Values]
      /\ \A k \in Handles : msg'[k] = IF k = h THEN v
                                      ELSE IF k = g THEN msg[h] ELSE msg[k]
      /\ \A b : Count(msg', b) = Count(msg, b) - One(msg[g], b) - One(msg[h], b)
                                               + One(msg[h], b) + One(v, b)
  <2>1. msg \in [Handles -> Values]
    BY DEF Inv, Typed
  <2>2. Written(msg', msg, g, msg[h], h, v)
    BY <1>1, <2>1, CountTwo
  <2>3. QED
    BY <2>2 DEF Written
<1>3. \A b \in Contents : Count(msg', b) = Count(msg, b) - One(msg[g], b)
  BY <1>1, <1>2, CountType DEF One
<1>4. /\ refs' \in [Contents -> Int] /\ freed' \in [Contents -> Int]
      /\ FreedOnce' /\ NoneBeforeMade'
  BY <1>1, <1>3, CloseCounts DEF Inv
<1>5. SharedOnlyByCopy'
  BY <1>2, OwnerAssumption DEF Inv, SharedOnlyByCopy, NoContents
<1>6. QED
  BY <1>2, <1>4, <1>5 DEF Inv, Typed

\* Two handles swap what they hold.
LEMMA SwapPut ==
    ASSUME Inv, NEW g \in Handles, NEW h \in Handles, g # h,
           msg' = Put(Put(msg, g, msg[h]), h, msg[g]),
           UNCHANGED <<refs, freed, made, copied>>
    PROVE  Inv'
<1>1. msg[g] \in Values /\ msg[h] \in Values
  BY DEF Inv, Typed
<1>2. /\ msg' \in [Handles -> Values]
      /\ \A k \in Handles : msg'[k] = IF k = h THEN msg[g]
                                      ELSE IF k = g THEN msg[h] ELSE msg[k]
      /\ \A b : Count(msg', b) = Count(msg, b) - One(msg[g], b) - One(msg[h], b)
                                               + One(msg[h], b) + One(msg[g], b)
  <2>1. msg \in [Handles -> Values]
    BY DEF Inv, Typed
  <2>2. Written(msg', msg, g, msg[h], h, msg[g])
    BY <1>1, <2>1, CountTwo
  <2>3. QED
    BY <2>2 DEF Written
<1>3. \A b \in Contents : Count(msg', b) = Count(msg, b)
  BY <1>2, CountType DEF One
<1>4. FreedOnce' /\ NoneBeforeMade'
  BY <1>3, MoveCounts DEF Inv
<1>5. SharedOnlyByCopy'
  BY <1>2 DEF Inv, SharedOnlyByCopy
<1>6. QED
  BY <1>2, <1>4, <1>5 DEF Inv, Typed

\* New contents are nobody else's.
LEMMA FillPut ==
    ASSUME Inv, NEW h \in Handles, NEW b \in Contents, Fill(h, b), UNCHANGED copied
    PROVE  Inv'
<1>1. /\ msg' \in [Handles -> Values] /\ refs' \in [Contents -> Int]
      /\ freed' \in [Contents -> Int] /\ made' \subseteq Contents
      /\ FreedOnce' /\ NoneBeforeMade'
  BY FillCounts DEF Inv
<1>2. \A g \in Handles : msg'[g] = IF g = h THEN b ELSE msg[g]
  BY DEF Fill, Inv, Typed
<1>3. \A g \in Handles : msg[g] # b
  <2>1. Count(msg, b) = 0
    BY DEF Fill, Inv, NoneBeforeMade
  <2>2. QED
    BY <2>1, CountType
<1>4. SharedOnlyByCopy'
  BY <1>2, <1>3 DEF Inv, SharedOnlyByCopy
<1>5. QED
  BY <1>1, <1>4 DEF Inv, Typed

\* copy() adds one reference to what it copies, after it has closed.
LEMMA CopyPut ==
    ASSUME Inv, NEW g \in Handles, NEW h \in Handles, Copy(g, h)
    PROVE  Inv'
<1> DEFINE x == msg[g]
           y == msg[h]
<1>1. x \in Values /\ y \in Values
  BY DEF Inv, Typed
<1>2. /\ msg' \in [Handles -> Values]
      /\ \A k \in Handles : msg'[k] = IF k = g THEN y ELSE msg[k]
      /\ \A b : Count(msg', b) = Count(msg, b) - One(x, b) + One(y, b)
  <2>1. msg' = Put(msg, g, y)
    BY DEF Copy, Put
  <2>2. msg \in [Handles -> Values]
    BY DEF Inv, Typed
  <2> HIDE DEF y
  <2>3. LET n == Put(msg, g, y) IN
        /\ n \in [Handles -> Values]
        /\ \A k \in Handles : n[k] = IF k = g THEN y ELSE msg[k]
        /\ \A b : Count(n, b) = Count(msg, b) - One(msg[g], b) + One(y, b)
    BY <1>1, <2>2, CountOne
  <2>4. QED
    BY <2>1, <2>3
<1>3. SharedOnlyByCopy'
  <2>1. copied' = copied \cup ({y} \cap Contents)
    BY DEF Copy
  <2>2. QED
    BY <1>1, <1>2, <2>1 DEF Inv, SharedOnlyByCopy
<1>4. made' = made /\ copied' \subseteq Contents
  BY DEF Copy, Inv, Typed
<1>5. CASE x = y
  <2>1. \A b \in Contents : Count(msg', b) = Count(msg, b)
    BY <1>2, <1>5, CountType DEF One
  <2>2. UNCHANGED <<refs, freed, made>>
    BY <1>5 DEF Copy
  <2>3. FreedOnce' /\ NoneBeforeMade'
    BY <2>1, <2>2, MoveCounts DEF Inv
  <2>4. QED
    BY <1>2, <1>3, <1>4, <2>2, <2>3 DEF Inv, Typed
<1>6. CASE x # y
  <2>1. /\ freed' = IF x \in Contents /\ refs[x] = 1
                    THEN [freed EXCEPT ![x] = @ + 1] ELSE freed
        /\ refs' = IF y \in Contents THEN [Dropped(x) EXCEPT ![y] = @ + 1]
                                     ELSE Dropped(x)
    BY <1>6 DEF Copy
  <2>2. Dropped(x) \in [Contents -> Int]
    BY DEF Dropped, Inv, Typed
  <2>3. refs' \in [Contents -> Int]
    BY <2>1, <2>2
  <2>4. freed' \in [Contents -> Int]
    BY <2>1 DEF Inv, Typed
  <2>5. ASSUME NEW b \in Contents
        PROVE  /\ refs'[b] = Count(msg', b)
               /\ freed'[b] = IF b \in made' /\ refs'[b] = 0 THEN 1 ELSE 0
               /\ b \notin made' => Count(msg', b) = 0
    <3>1. /\ refs[b] = Count(msg, b)
          /\ freed[b] = IF b \in made /\ refs[b] = 0 THEN 1 ELSE 0
          /\ b \notin made => Count(msg, b) = 0
      BY DEF Inv, FreedOnce, NoneBeforeMade, Count
    <3>2. /\ Count(msg, b) \in Nat
          /\ x = b => Count(msg, b) >= 1
          /\ y = b => Count(msg, b) >= 1
      BY CountType
    <3>3. Count(msg', b) = Count(msg, b) - One(x, b) + One(y, b)
      BY <1>2
    <3>4. Dropped(x)[b] = IF x = b THEN refs[b] - 1 ELSE refs[b]
      BY DEF Dropped, Inv, Typed
    <3>5. refs'[b] = IF y = b THEN Dropped(x)[b] + 1 ELSE Dropped(x)[b]
      BY <2>1, <2>2
    <3>6. freed'[b] = IF x = b /\ refs[b] = 1 THEN freed[b] + 1 ELSE freed[b]
      BY <2>1 DEF Inv, Typed
    <3>7. CASE x = b
      BY <1>4, <1>6, <3>1, <3>2, <3>3, <3>4, <3>5, <3>6, <3>7 DEF One
    <3>8. CASE y = b
      BY <1>4, <1>6, <3>1, <3>2, <3>3, <3>4, <3>5, <3>6, <3>8 DEF One
    <3>9. CASE x # b /\ y # b
      BY <1>4, <3>1, <3>2, <3>3, <3>4, <3>5, <3>6, <3>9 DEF One
    <3>10. QED
      BY <3>7, <3>8, <3>9
  <2>6. FreedOnce' /\ NoneBeforeMade'
    BY <1>4, <2>5 DEF FreedOnce, NoneBeforeMade, Count
  <2>7. QED
    BY <1>2, <1>3, <1>4, <2>3, <2>4, <2>6 DEF Inv, Typed
<1>7. QED
  BY <1>5, <1>6

-----------------------------------------------------------------------------

\* At the start no place holds a message and nothing was made.
LEMMA InitInv == Init => Inv
<1> SUFFICES ASSUME Init PROVE Inv
  OBVIOUS
<1>1. Typed /\ SharedOnlyByCopy
  BY OwnerAssumption DEF Init, Typed, Values, SharedOnlyByCopy
<1>2. \A b \in Contents : Holders(msg, b) = {}
  BY OwnerAssumption DEF Init, Holders
<1>3. \A b \in Contents : Count(msg, b) = 0
  BY <1>2, FS_EmptySet DEF Count
<1>4. FreedOnce /\ NoneBeforeMade
  BY <1>3 DEF Init, FreedOnce, NoneBeforeMade, Count
<1>5. QED
  BY <1>1, <1>4 DEF Inv

\* Closing a place that holds nothing changes no count.
LEMMA CloseNothing ==
    ASSUME NEW v \in NoContents, UNCHANGED <<refs, freed>> PROVE Close(v)
  BY OwnerAssumption DEF NoContents, Close, Dropped

\* Calls on one object keep the invariant.
LEMMA ObjectInv == ASSUME Inv, NEW o \in Objects, Object(o) PROVE Inv'
<1>1. o \in Handles /\ \A p \in Transit : p \in Handles /\ p # o
  BY OwnerAssumption DEF Handles
<1>2. {Absent, Closed, Inline} = NoContents
  BY DEF NoContents
<1>3. ASSUME NoFill(o), UNCHANGED copied PROVE Inv'
  BY <1>1, <1>2, <1>3, ClosePut DEF NoFill, Put
<1>4. ASSUME UNCHANGED <<msg, refs, freed, made, copied>> PROVE Inv'
  BY <1>4 DEF Inv, Typed, FreedOnce, NoneBeforeMade, SharedOnlyByCopy
<1>5. CASE Construct(o)
  BY <1>3, <1>5 DEF Construct
<1>6. CASE ConstructThrows(o)
  BY <1>4, <1>6 DEF ConstructThrows
<1>7. CASE Destroy(o)
  BY <1>1, <1>2, <1>7, ClosePut DEF Destroy, Put
<1>8. CASE Rebuild(o)
  BY <1>3, <1>8 DEF Rebuild
<1>9. CASE RebuildThrows(o)
  BY <1>1, <1>2, <1>9, ClosePut DEF RebuildThrows, Put
<1>10. CASE CopyItself(o)
  BY <1>1, <1>2, <1>10, ClosePut DEF CopyItself, Put
<1>11. CASE SendFails(o)
  BY <1>4, <1>11 DEF SendFails
<1>12. CASE RecvFails(o)
  BY <1>3, <1>4, <1>12 DEF RecvFails
<1>13. CASE ClosedThrows(o)
  BY <1>4, <1>13 DEF ClosedThrows
<1>14. ASSUME NEW b \in Contents, ConstructFilled(o, b) \/ RebuildFilled(o, b)
       PROVE  Inv'
  BY <1>1, <1>14, FillPut DEF ConstructFilled, RebuildFilled
<1>15. ASSUME NEW p \in Transit, Send(o, p) PROVE Inv'
  <2>1. msg' = Put(Put(msg, p, msg[o]), o, Inline) /\ UNCHANGED <<made, copied>>
    BY <1>15 DEF Send, Put
  <2>2. Close(msg[p])
    BY <1>2, <1>15, CloseNothing DEF Send
  <2>3. QED
    BY <1>1, <1>2, <2>1, <2>2, MovePut
<1>16. ASSUME NEW p \in Transit, Recv(o, p) PROVE Inv'
  <2>1. msg' = Put(Put(msg, o, msg[p]), p, Absent) /\ UNCHANGED <<made, copied>>
    BY <1>16 DEF Recv, Put
  <2>2. Close(msg[o])
    BY <1>16 DEF Recv
  <2>3. QED
    BY <1>1, <1>2, <2>1, <2>2, MovePut
<1>17. QED
  BY <1>5, <1>6, <1>7, <1>8, <1>9, <1>10, <1>11, <1>12, <1>13, <1>14, <1>15, <1>16
     DEF Object

\* So do calls that take another object.
LEMMA PairInv ==
    ASSUME Inv, NEW o \in Objects, NEW other \in Objects, Pair(o, other) PROVE Inv'
<1>1. o \in Handles /\ other \in Handles
  BY DEF Handles
<1>2. {Absent, Closed, Inline} = NoContents
  BY DEF NoContents
<1>3. CASE MoveConstruct(o, other)
  <2>1. msg[o] = Absent /\ o # other
    BY <1>3 DEF MoveConstruct, Is
  <2>2. msg' = Put(Put(msg, o, msg[other]), other, Inline) /\ UNCHANGED <<made, copied>>
    BY <1>3 DEF MoveConstruct, Put
  <2>3. Close(msg[o])
    BY <1>2, <1>3, <2>1, CloseNothing DEF MoveConstruct
  <2>4. QED
    BY <1>1, <1>2, <2>1, <2>2, <2>3, MovePut
<1>4. CASE MoveAssign(o, other)
  <2>1. msg' = Put(Put(msg, o, msg[other]), other, msg[o])
    BY <1>4 DEF MoveAssign, Put
  <2>2. UNCHANGED <<refs, freed, made, copied>>
    BY <1>4 DEF MoveAssign
  <2>3. CASE o # other
    BY <1>1, <2>1, <2>2, <2>3, SwapPut
  <2>4. CASE o = other
    <3>1. msg' = msg
      BY <1>1, <2>1, <2>4 DEF Put, Inv, Typed
    <3>2. QED
      BY <2>2, <3>1 DEF Inv, Typed, FreedOnce, NoneBeforeMade, SharedOnlyByCopy
  <2>5. QED
    BY <2>3, <2>4
<1>5. CASE Move(o, other)
  <2>1. Close(msg[o]) /\ UNCHANGED <<made, copied>>
    BY <1>5 DEF Move
  <2>2. CASE o = other
    BY <1>1, <1>2, <1>5, <2>1, <2>2, ClosePut DEF Move, Put
  <2>3. CASE o # other
    <3>1. msg' = Put(Put(msg, o, msg[other]), other, Inline)
      BY <1>5, <2>3 DEF Move, Put
    <3>2. QED
      BY <1>1, <1>2, <2>1, <2>3, <3>1, MovePut
  <2>4. QED
    BY <2>2, <2>3
<1>6. CASE Copy(o, other)
  BY <1>1, <1>6, CopyPut
<1>7. QED
  BY <1>3, <1>4, <1>5, <1>6 DEF Pair

\* Every step keeps the invariant.
LEMMA NextInv == Inv /\ [Next]_vars => Inv'
<1> SUFFICES ASSUME Inv, [Next]_vars PROVE Inv'
  OBVIOUS
<1>1. ASSUME NEW p \in Transit, Sent(p) PROVE Inv'
  BY <1>1, ClosePut DEF Sent, Put, Handles, NoContents
<1>2. CASE UNCHANGED vars
  BY <1>2 DEF vars, Inv, Typed, FreedOnce, NoneBeforeMade, SharedOnlyByCopy
<1>3. QED
  BY <1>1, <1>2, ObjectInv, PairInv DEF Next

\* The inductive invariant.
THEOREM OwnersCorrect == Spec => []Inv
  BY InitInv, NextInv, PTL DEF Spec

\* The types; the count of references to contents never falls below zero.
THEOREM OwnersTyped == Spec => []TypeOK
<1>1. Inv => TypeOK
  BY CountType DEF Inv, Typed, FreedOnce, TypeOK, Values, Count
<1>2. QED
  BY <1>1, OwnersCorrect, PTL

\* Contents are freed once, when the last message that refers to them is gone,
\* for any number of messages and through every call that throws.
THEOREM ContentsFreedOnce == Spec => []FreedOnce
  BY OwnersCorrect, PTL DEF Inv

\* Two messages share contents only if copy() was called on them.
THEOREM SharedByCopyOnly == Spec => []SharedOnlyByCopy
  BY OwnersCorrect, PTL DEF Inv

-----------------------------------------------------------------------------
(* Closed messages *)

ClosedStep ==
    LET grows == Count(msg', Closed) > Count(msg, Closed)
        falls == Count(msg', Closed) < Count(msg, Closed)
    IN  /\ grows => \/ call'.fn = "rebuild" /\ call'.threw
                    \/ call'.fn = "copy()"
        /\ falls => call'.fn = "destroy"

\* A step that leaves as many closed messages as there were.
LEMMA SameClosed ==
    ASSUME Count(msg', Closed) = Count(msg, Closed) PROVE ClosedStep
<1>1. Count(msg, Closed) \in Nat
  BY CountType
<1>2. QED
  BY <1>1 DEF ClosedStep

\* One handle gets what is not a closed message, having held none.
LEMMA PutNotClosed ==
    ASSUME Typed, NEW h \in Handles, NEW v \in Values \ {Closed},
           msg[h] # Closed, msg' = Put(msg, h, v)
    PROVE  ClosedStep
<1>1. msg \in [Handles -> Values] /\ v \in Values
  BY DEF Typed
<1>2. Count(msg', Closed) = Count(msg, Closed) - One(msg[h], Closed) + One(v, Closed)
  BY <1>1, CountOne
<1>3. One(msg[h], Closed) = 0 /\ One(v, Closed) = 0 /\ Count(msg, Closed) \in Nat
  BY CountType DEF One
<1>4. QED
  BY <1>2, <1>3, SameClosed

\* A value goes from one handle to another, and what is left behind is as much
\* a closed message as what was there before.
LEMMA MoveClosed ==
    ASSUME Typed, NEW g \in Handles, NEW h \in Handles, g # h,
           NEW v \in Values, One(v, Closed) = One(msg[g], Closed),
           msg' = Put(Put(msg, g, msg[h]), h, v)
    PROVE  ClosedStep
<1>1. msg \in [Handles -> Values] /\ msg[h] \in Values
  BY DEF Typed
<1>2. Written(msg', msg, g, msg[h], h, v)
  BY <1>1, CountTwo
<1>3. Count(msg', Closed) =
         Count(msg, Closed) - One(msg[g], Closed) - One(msg[h], Closed)
                            + One(msg[h], Closed) + One(v, Closed)
  BY <1>2 DEF Written
<1>4. Count(msg, Closed) \in Nat
  BY CountType
<1>5. Count(msg', Closed) = Count(msg, Closed)
  BY <1>3, <1>4 DEF One
<1>6. QED
  BY <1>5, SameClosed

\* What each call on one object does to the closed messages.
LEMMA ObjectClosed == ASSUME Typed, NEW o \in Objects, Object(o) PROVE ClosedStep
<1>1. /\ o \in Handles /\ \A p \in Transit : p \in Handles /\ p # o
      /\ {Absent, Inline} \subseteq Values \ {Closed} /\ Closed \in Values
      /\ Contents \subseteq Values \ {Closed} /\ Absent # Closed
      /\ msg \in [Handles -> Values]
  BY OwnerAssumption DEF Handles, Values, Typed
<1>2. ASSUME msg[o] # Closed, NoFill(o) PROVE ClosedStep
  BY <1>1, <1>2, PutNotClosed DEF NoFill, Put
<1>3. ASSUME UNCHANGED msg PROVE ClosedStep
  BY <1>3, SameClosed
<1>4. CASE Construct(o) \/ Rebuild(o)
  BY <1>1, <1>2, <1>4 DEF Construct, Rebuild, Is, Usable
<1>5. CASE ConstructThrows(o) \/ SendFails(o) \/ ClosedThrows(o)
  BY <1>3, <1>5 DEF ConstructThrows, SendFails, ClosedThrows
<1>6. CASE Destroy(o)
  <2>1. msg' = Put(msg, o, Absent) /\ Absent \in Values /\ call'.fn = "destroy"
    BY <1>1, <1>6 DEF Destroy, Put, Returns
  <2>2. Count(msg', Closed) =
           Count(msg, Closed) - One(msg[o], Closed) + One(Absent, Closed)
    BY <1>1, <2>1, CountOne
  <2>3. Count(msg, Closed) \in Nat /\ One(Absent, Closed) = 0
    BY <1>1, CountType DEF One
  <2>4. ~ (Count(msg', Closed) > Count(msg, Closed))
    BY <2>2, <2>3 DEF One
  <2>5. QED
    BY <2>1, <2>4 DEF ClosedStep
<1>7. CASE RebuildThrows(o) \/ CopyItself(o)
  <2>1. msg' = Put(msg, o, Closed)
    BY <1>7 DEF RebuildThrows, CopyItself, Put
  <2>2. Count(msg', Closed) =
           Count(msg, Closed) - One(msg[o], Closed) + One(Closed, Closed)
    BY <1>1, <2>1, CountOne
  <2>3. Count(msg, Closed) \in Nat
    BY CountType
  <2>4. ~ (Count(msg', Closed) < Count(msg, Closed))
    BY <2>2, <2>3 DEF One
  <2>5. (call'.fn = "rebuild" /\ call'.threw) \/ call'.fn = "copy()"
    BY <1>7 DEF RebuildThrows, CopyItself, Throws, Returns
  <2>6. QED
    BY <2>4, <2>5 DEF ClosedStep
<1>8. CASE RecvFails(o)
  BY <1>2, <1>3, <1>8 DEF RecvFails, Usable
<1>9. ASSUME NEW b \in Contents, ConstructFilled(o, b) \/ RebuildFilled(o, b)
      PROVE  ClosedStep
  <2>1. msg' = Put(msg, o, b) /\ msg[o] # Closed
    BY <1>1, <1>9 DEF Put, ConstructFilled, RebuildFilled, Fill, Is, Usable
  <2>2. QED
    BY <1>1, <2>1, PutNotClosed
<1>10. ASSUME NEW p \in Transit, Send(o, p) PROVE ClosedStep
  <2>1. msg' = Put(Put(msg, p, msg[o]), o, Inline) /\ msg[p] = Absent
    BY <1>10 DEF Put, Send
  <2>2. One(Inline, Closed) = One(msg[p], Closed)
    BY <1>1, <2>1 DEF One
  <2>3. QED
    BY <1>1, <2>1, <2>2, MoveClosed
<1>11. ASSUME NEW p \in Transit, Recv(o, p) PROVE ClosedStep
  <2>1. msg' = Put(Put(msg, o, msg[p]), p, Absent) /\ msg[o] # Closed
    BY <1>11 DEF Put, Recv, Usable
  <2>2. One(Absent, Closed) = One(msg[o], Closed)
    BY <1>1, <2>1 DEF One
  <2>3. QED
    BY <1>1, <2>1, <2>2, MoveClosed
<1>12. QED
  BY <1>4, <1>5, <1>6, <1>7, <1>8, <1>9, <1>10, <1>11 DEF Object

\* And each call that takes another object.
LEMMA PairClosed ==
    ASSUME Typed, NEW o \in Objects, NEW other \in Objects, Pair(o, other)
    PROVE  ClosedStep
<1>1. /\ o \in Handles /\ other \in Handles
      /\ Inline \in Values \ {Closed} /\ Absent # Closed
      /\ msg[o] \in Values /\ msg[other] \in Values
      /\ msg \in [Handles -> Values]
  BY OwnerAssumption DEF Handles, Values, Typed
<1>2. CASE MoveConstruct(o, other)
  <2>1. /\ msg' = Put(Put(msg, o, msg[other]), other, Inline)
        /\ msg[o] = Absent /\ o # other
    BY <1>2 DEF Put, MoveConstruct, Is
  <2>2. One(Inline, Closed) = One(msg[o], Closed)
    BY <1>1, <2>1 DEF One
  <2>3. QED
    BY <1>1, <2>1, <2>2, MoveClosed
<1>3. CASE MoveAssign(o, other)
  <2>1. msg' = Put(Put(msg, o, msg[other]), other, msg[o])
    BY <1>3 DEF Put, MoveAssign
  <2>2. CASE o # other
    BY <1>1, <2>1, <2>2, MoveClosed
  <2>3. CASE o = other
    <3>1. msg' = msg
      BY <1>1, <2>1, <2>3 DEF Put
    <3>2. QED
      BY <3>1, SameClosed
  <2>4. QED
    BY <2>2, <2>3
<1>4. CASE Move(o, other)
  <2>1. msg[o] # Closed
    BY <1>4 DEF Move, Usable
  <2>2. CASE o = other
    BY <1>1, <1>4, <2>1, <2>2, PutNotClosed DEF Move, Put
  <2>3. CASE o # other
    <3>1. msg' = Put(Put(msg, o, msg[other]), other, Inline)
      BY <1>4, <2>3 DEF Move, Put
    <3>2. One(Inline, Closed) = One(msg[o], Closed)
      BY <1>1, <2>1 DEF One
    <3>3. QED
      BY <1>1, <2>3, <3>1, <3>2, MoveClosed
  <2>4. QED
    BY <2>2, <2>3
<1>5. CASE Copy(o, other)
  <2>1. /\ msg' = Put(msg, o, msg[other])
        /\ msg[o] # Closed /\ msg[other] # Closed
    BY <1>5 DEF Put, Copy, Usable
  <2>2. QED
    BY <1>1, <2>1, PutNotClosed
<1>6. QED
  BY <1>2, <1>3, <1>4, <1>5 DEF Pair

\* A closed message is not sent: send throws on it.
OpenInTransit == \A p \in Transit : msg[p] # Closed

\* Only send puts a message into the pipe.
LEMMA OpenInTransitInv == Typed /\ OpenInTransit /\ [Next]_vars => OpenInTransit'
<1> SUFFICES ASSUME Typed, OpenInTransit, [Next]_vars PROVE OpenInTransit'
  OBVIOUS
<1>1. /\ msg \in [Handles -> Values] /\ Absent # Closed
      /\ \A p \in Transit : p \in Handles /\ p \notin Objects
      /\ \A o \in Objects : o \in Handles
  BY OwnerAssumption DEF Typed, Handles
<1>2. ASSUME NEW o \in Objects, NEW v, msg' = [msg EXCEPT ![o] = v]
      PROVE  OpenInTransit'
  BY <1>1, <1>2 DEF OpenInTransit
<1>3. ASSUME NEW g \in Objects, NEW h \in Objects, NEW u, NEW v,
             msg' = [msg EXCEPT ![g] = u, ![h] = v]
      PROVE  OpenInTransit'
  BY <1>1, <1>3 DEF OpenInTransit
<1>4. CASE UNCHANGED msg
  BY <1>4 DEF OpenInTransit
<1>5. ASSUME NEW o \in Objects, Object(o) PROVE OpenInTransit'
  <2>1. CASE Construct(o) \/ Rebuild(o) \/ RecvFails(o)
    BY <1>2, <1>4, <2>1 DEF Construct, Rebuild, RecvFails, NoFill
  <2>2. CASE ConstructThrows(o) \/ SendFails(o) \/ ClosedThrows(o)
    BY <1>4, <2>2 DEF ConstructThrows, SendFails, ClosedThrows
  <2>3. CASE Destroy(o) \/ RebuildThrows(o) \/ CopyItself(o)
    BY <1>2, <2>3 DEF Destroy, RebuildThrows, CopyItself
  <2>4. ASSUME NEW b \in Contents, ConstructFilled(o, b) \/ RebuildFilled(o, b)
        PROVE  OpenInTransit'
    BY <1>2, <2>4 DEF ConstructFilled, RebuildFilled, Fill
  <2>5. ASSUME NEW p \in Transit, Send(o, p) PROVE OpenInTransit'
    BY <1>1, <2>5 DEF Send, Usable, OpenInTransit
  <2>6. ASSUME NEW p \in Transit, Recv(o, p) PROVE OpenInTransit'
    BY <1>1, <2>6 DEF Recv, OpenInTransit
  <2>7. QED
    BY <1>5, <2>1, <2>2, <2>3, <2>4, <2>5, <2>6 DEF Object
<1>6. ASSUME NEW o \in Objects, NEW other \in Objects, Pair(o, other)
      PROVE  OpenInTransit'
  <2>1. CASE MoveConstruct(o, other)
    BY <1>3, <2>1 DEF MoveConstruct
  <2>2. CASE MoveAssign(o, other)
    BY <1>3, <2>2 DEF MoveAssign
  <2>3. CASE Move(o, other)
    BY <1>2, <1>3, <2>3 DEF Move
  <2>4. CASE Copy(o, other)
    BY <1>2, <2>4 DEF Copy
  <2>5. QED
    BY <1>6, <2>1, <2>2, <2>3, <2>4 DEF Pair
<1>7. ASSUME NEW p \in Transit, Sent(p) PROVE OpenInTransit'
  BY <1>1, <1>7 DEF Sent, OpenInTransit
<1>8. CASE UNCHANGED vars
  BY <1>4, <1>8 DEF vars
<1>9. QED
  BY <1>5, <1>6, <1>7, <1>8 DEF Next

\* A message is closed only by a rebuild that throws or a copy of a message to
\* itself, and nothing but its destruction ends it.
THEOREM ClosedStaysClosed == Spec => ClosedForGood
<1>1. ASSUME Typed, OpenInTransit, NEW p \in Transit, Sent(p) PROVE ClosedStep
  <2>1. p \in Handles /\ Absent \in Values \ {Closed} /\ msg[p] # Closed
    BY <1>1, OwnerAssumption DEF Handles, Values, OpenInTransit
  <2>2. msg' = Put(msg, p, Absent)
    BY <1>1 DEF Sent, Put
  <2>3. QED
    BY <1>1, <2>1, <2>2, PutNotClosed
<1>2. Inv /\ OpenInTransit /\ [Next]_vars => [ClosedStep]_vars
  BY <1>1, ObjectClosed, PairClosed DEF Next, Inv
<1>3. [ClosedStep]_vars =>
        [LET grows == Cardinality(ClosedOnes(msg')) > Cardinality(ClosedOnes(msg))
             falls == Cardinality(ClosedOnes(msg')) < Cardinality(ClosedOnes(msg))
         IN  /\ grows => \/ call'.fn = "rebuild" /\ call'.threw
                         \/ call'.fn = "copy()"
             /\ falls => call'.fn = "destroy"]_vars
  BY DEF ClosedStep, Count, Holders, ClosedOnes
<1>4. Init => OpenInTransit
  BY OwnerAssumption DEF Init, OpenInTransit, Handles
<1>5. Inv /\ OpenInTransit /\ [Next]_vars => OpenInTransit'
  BY OpenInTransitInv DEF Inv
<1>6. Spec => []OpenInTransit
  BY <1>4, <1>5, OwnersCorrect, PTL DEF Spec
<1>7. QED
  BY <1>2, <1>3, <1>6, OwnersCorrect, PTL DEF Spec, ClosedForGood
=============================================================================
