------------------------- MODULE MultipartOpsProofs -------------------------
(***************************************************************************)
(* Messages frame by frame, for messages of any length, any number of      *)
(* sends, any high-water mark and whatever the peer does meanwhile: the    *)
(* loops of append, prepend and clone keep the order of the frames, every  *)
(* frame has one owner, recv returns whole messages except where something *)
(* failed, and the frame a send failed at is lost.                         *)
(***************************************************************************)
EXTENDS MultipartOps, SequenceTheorems, TLAPS

Typed ==
    /\ m_parts \in [Objs -> Seq(Frames)]
    /\ call \in [fn : {"none", "append", "prepend", "clone", "send"},
                 on : Own, from : Own]
    /\ wire \in Seq(Wire)
    /\ made \in Nat
    /\ before \in Seq(Frames)

\* What append and prepend keep in every turn.
Joins ==
    /\ Running("append") /\ call.on # call.from =>
          Parts(call.on) \o Parts(call.from) = before
    /\ Running("prepend") /\ call.on # call.from =>
          Parts(call.from) \o Parts(call.on) = before

\* clone() reads "msg", which nobody writes meanwhile, and has copied its
\* frames from the front.
Clones ==
    Running("clone") =>
       /\ Parts("msg") = before
       /\ size(Parts("other")) <= size(before)
       /\ \A i \in 1 .. size(Parts("other")) : Parts("other")[i] = before[i]

Inv == Typed /\ Joins /\ Clones

-----------------------------------------------------------------------------
(* Sequences *)

\* The ends of a sequence.
LEMMA Ends ==
    ASSUME NEW S, NEW s \in Seq(S), s # << >>
    PROVE  /\ Len(s) \in Nat /\ Len(s) > 0
           /\ front(s) \in S /\ back(s) \in S
           /\ pop(s) \in Seq(S) /\ Len(pop(s)) = Len(s) - 1
           /\ \A i \in 1 .. Len(s) - 1 : pop(s)[i] = s[i + 1]
           /\ remove(s) \in Seq(S) /\ Len(remove(s)) = Len(s) - 1
           /\ \A i \in 1 .. Len(s) - 1 : remove(s)[i] = s[i]
<1>1. Len(s) \in Nat /\ Len(s) > 0
  OBVIOUS
<1>2. front(s) \in S /\ back(s) \in S
  BY <1>1 DEF front, back
<1>3. /\ pop(s) \in Seq(S) /\ Len(pop(s)) = Len(s) - 1
      /\ \A i \in 1 .. Len(s) - 1 : pop(s)[i] = s[i + 1]
  BY <1>1 DEF pop
<1>4. /\ remove(s) \in Seq(S) /\ Len(remove(s)) = Len(s) - 1
      /\ \A i \in 1 .. Len(s) - 1 : remove(s)[i] = s[i]
  <2> DEFINE n == Len(s) - 1
  <2>1. n \in Nat /\ n = Len(s) - 1 /\ \A i \in 1 .. n : s[i] \in S
    BY <1>1
  <2> HIDE DEF n
  <2>2. /\ SubSeq(s, 1, n) \in Seq(S)
        /\ Len(SubSeq(s, 1, n)) = IF 1 <= n THEN n - 1 + 1 ELSE 0
        /\ \A i \in 1 .. n - 1 + 1 : SubSeq(s, 1, n)[i] = s[1 + i - 1]
    BY <2>1, SubSeqProperties
  <2>3. remove(s) = SubSeq(s, 1, n)
    BY DEF remove, n
  <2>4. \A i \in 1 .. n : i \in 1 .. n - 1 + 1 /\ 1 + i - 1 = i
    BY <2>1
  <2>5. n = IF 1 <= n THEN n - 1 + 1 ELSE 0
    BY <2>1
  <2>6. /\ remove(s) \in Seq(S)
        /\ Len(remove(s)) = n
        /\ \A i \in 1 .. n : remove(s)[i] = s[i]
    BY <2>2, <2>3, <2>4, <2>5
  <2>7. QED
    BY <2>1, <2>6
<1>5. QED
  BY <1>1, <1>2, <1>3, <1>4

\* a is c with the first frame of d at its end, and b is d without it.
Regrouped(a, b, c, d) ==
    /\ Len(a) = Len(c) + 1
    /\ Len(d) = Len(b) + 1
    /\ \A i \in 1 .. Len(c) : a[i] = c[i]
    /\ a[Len(c) + 1] = d[1]
    /\ \A i \in 1 .. Len(b) : b[i] = d[i + 1]

\* Moving the boundary between two sequences changes nothing in the whole.
LEMMA Regroup ==
    ASSUME NEW S, NEW a \in Seq(S), NEW b \in Seq(S), NEW c \in Seq(S),
           NEW d \in Seq(S), Regrouped(a, b, c, d)
    PROVE  a \o b = c \o d
<1> DEFINE l == a \o b
           r == c \o d
<1>1. Len(a) \in Nat /\ Len(b) \in Nat /\ Len(c) \in Nat /\ Len(d) \in Nat
  OBVIOUS
<1>2. /\ l \in Seq(S) /\ Len(l) = Len(a) + Len(b)
      /\ \A i \in 1 .. Len(a) + Len(b) :
            l[i] = IF i <= Len(a) THEN a[i] ELSE b[i - Len(a)]
  BY ConcatProperties
<1>3. /\ r \in Seq(S) /\ Len(r) = Len(c) + Len(d)
      /\ \A i \in 1 .. Len(c) + Len(d) :
            r[i] = IF i <= Len(c) THEN c[i] ELSE d[i - Len(c)]
  BY ConcatProperties
<1> HIDE DEF l, r
<1>4. Len(l) = Len(r)
  BY <1>1, <1>2, <1>3 DEF Regrouped
<1>5. ASSUME NEW i \in 1 .. Len(l) PROVE l[i] = r[i]
  <2>1. i \in Nat /\ i <= Len(a) + Len(b) /\ Len(a) = Len(c) + 1
    BY <1>1, <1>2 DEF Regrouped
  <2>2. CASE i <= Len(c)
    BY <1>1, <1>2, <1>3, <1>4, <2>1, <2>2, SMTT(60) DEF Regrouped
  <2>3. CASE i = Len(c) + 1
    <3>1. l[i] = a[i] /\ r[i] = d[1]
      BY <1>1, <1>2, <1>3, <1>4, <2>1, <2>3, SMTT(60)
    <3>2. QED
      BY <2>3, <3>1 DEF Regrouped
  <2>4. CASE i > Len(c) + 1
    <3>1. l[i] = b[i - Len(a)] /\ r[i] = d[i - Len(c)]
      BY <1>1, <1>2, <1>3, <1>4, <2>1, <2>4
    <3>2. i - Len(a) \in 1 .. Len(b) /\ i - Len(c) = (i - Len(a)) + 1
      BY <1>1, <2>1, <2>4
    <3>3. QED
      BY <3>1, <3>2 DEF Regrouped
  <2>5. QED
    BY <1>1, <2>1, <2>2, <2>3, <2>4
<1>6. l = r
  BY <1>2, <1>3, <1>4, <1>5, SeqEqual
<1>7. QED
  BY <1>6 DEF l, r

\* The first frame of one message may go to the end of another.
LEMMA FrontToBack ==
    ASSUME NEW S, NEW s \in Seq(S), NEW t \in Seq(S), t # << >>
    PROVE  /\ add(s, front(t)) \in Seq(S)
           /\ add(s, front(t)) \o pop(t) = s \o t
<1> DEFINE a == add(s, front(t))
           b == pop(t)
<1>1. /\ front(t) \in S /\ b \in Seq(S) /\ Len(t) \in Nat
      /\ Len(b) = Len(t) - 1
      /\ \A i \in 1 .. Len(t) - 1 : b[i] = t[i + 1]
  BY Ends
<1>2. /\ a \in Seq(S) /\ Len(a) = Len(s) + 1 /\ Len(s) \in Nat
      /\ \A i \in 1 .. Len(s) : a[i] = s[i]
      /\ a[Len(s) + 1] = t[1]
  BY <1>1 DEF add, addstr, front
<1> HIDE DEF a, b
<1>3. Regrouped(a, b, s, t)
  BY <1>1, <1>2 DEF Regrouped
<1>4. a \o b = s \o t
  BY <1>1, <1>2, <1>3, Regroup, SMTT(60)
<1>5. QED
  BY <1>2, <1>4 DEF a, b

\* The last frame of one message may go in front of another.
LEMMA BackToFront ==
    ASSUME NEW S, NEW s \in Seq(S), NEW t \in Seq(S), t # << >>
    PROVE  /\ push(s, back(t)) \in Seq(S)
           /\ remove(t) \o push(s, back(t)) = t \o s
<1> DEFINE c == remove(t)
           d == push(s, back(t))
           f == <<back(t)>>
<1>1. /\ back(t) \in S /\ c \in Seq(S) /\ Len(t) \in Nat /\ Len(t) > 0
      /\ Len(c) = Len(t) - 1
      /\ \A i \in 1 .. Len(t) - 1 : c[i] = t[i]
  BY Ends
<1>2. f \in Seq(S) /\ Len(f) = 1 /\ f[1] = t[Len(t)] /\ Len(s) \in Nat
  BY <1>1 DEF back
<1> HIDE DEF c, f
<1>3. d = f \o s
  BY DEF push, pushmem, f
<1> HIDE DEF d
<1>4. /\ d \in Seq(S) /\ Len(d) = Len(f) + Len(s)
      /\ \A i \in 1 .. Len(f) + Len(s) : d[i] = IF i <= Len(f) THEN f[i] ELSE s[i - Len(f)]
  BY <1>2, <1>3, ConcatProperties
<1>5. d[1] = t[Len(t)] /\ \A i \in 1 .. Len(s) : s[i] = d[i + 1]
  BY <1>2, <1>4
<1>6. Regrouped(t, s, c, d)
  BY <1>1, <1>2, <1>4, <1>5 DEF Regrouped
<1>7. t \o s = c \o d
  BY <1>1, <1>4, <1>6, Regroup, SMTT(60)
<1>8. QED
  BY <1>4, <1>7 DEF c, d

-----------------------------------------------------------------------------

\* At the start every message is empty and no call runs.
LEMMA InitInv == Init => Inv
<1> SUFFICES ASSUME Init PROVE Inv
  OBVIOUS
<1>1. Typed
  BY DEF Init, Typed, Idle, Own
<1>2. call.fn = "none"
  BY DEF Init, Idle
<1>3. QED
  BY <1>1, <1>2 DEF Inv, Joins, Clones, Running

\* While no call runs there is nothing to keep but the types.
LEMMA NoCall ==
    ASSUME Typed', call'.fn \in {"none", "send"} PROVE Inv'
  BY DEF Inv, Joins, Clones, Running

\* The calls of the owner that are one step.
LEMMA OneStepInv ==
    ASSUME Inv, NEW o \in Own,
           \/ Make(o) \/ Take(o) \/ Clear(o)
           \/ \E from \in Own : Move(o, from)
    PROVE  Inv'
<1>1. /\ Typed /\ o \in Objs /\ m_parts[o] \in Seq(Frames)
      /\ call.fn = "none" /\ UNCHANGED <<call, wire, before>>
  BY DEF Inv, Typed, Objs, Make, Take, Clear, Move, Running, pipeVars, history
<1>2. CASE Make(o)
  <2>1. made' \in Frames /\ made' \in Nat
    BY <1>1, <1>2, OpsAssumption DEF Make, Typed, Frames
  <2>2. push(m_parts[o], made') \in Seq(Frames) /\ add(m_parts[o], made') \in Seq(Frames)
    <3>1. <<made'>> \in Seq(Frames)
      BY <2>1
    <3>2. QED
      BY <1>1, <2>1, <3>1, ConcatProperties, AppendProperties
         DEF push, pushmem, add, addstr
  <2>3. m_parts' \in [Objs -> Seq(Frames)]
    BY <1>1, <1>2, <2>2 DEF Make, Typed
  <2>4. QED
    BY <1>1, <2>1, <2>3, NoCall DEF Typed
<1>3. CASE Take(o)
  <2>1. m_parts[o] # << >>
    BY <1>3 DEF Take, empty, Parts
  <2>2. pop(m_parts[o]) \in Seq(Frames) /\ remove(m_parts[o]) \in Seq(Frames)
    BY <1>1, <2>1, Ends
  <2>3. m_parts' \in [Objs -> Seq(Frames)] /\ made' = made
    BY <1>1, <1>3, <2>2 DEF Take, Typed
  <2>4. QED
    BY <1>1, <2>3, NoCall DEF Typed
<1>4. CASE Clear(o)
  <2>1. m_parts' \in [Objs -> Seq(Frames)] /\ made' = made
    BY <1>1, <1>4 DEF Clear, Typed
  <2>2. QED
    BY <1>1, <2>1, NoCall DEF Typed
<1>5. ASSUME NEW from \in Own, Move(o, from) PROVE Inv'
  <2>1. m_parts' \in [Objs -> Seq(Frames)] /\ made' = made
    BY <1>1, <1>5, SMTT(60) DEF Move, Typed, Parts, Objs
  <2>2. QED
    BY <1>1, <2>1, NoCall DEF Typed
<1>6. QED
  BY <1>2, <1>3, <1>4, <1>5

\* The calls that loop begin with what they are to keep.
LEMMA CallInv ==
    ASSUME Inv,
           \/ \E o, from \in Own : CallAppend(o, from) \/ CallPrepend(o, from)
           \/ CallClone \/ CallSend
    PROVE  Inv'
<1>1. Typed /\ \A o \in Own : o \in Objs /\ m_parts[o] \in Seq(Frames)
  BY DEF Inv, Typed, Objs
<1>2. "msg" \in Own /\ "other" \in Own
  BY DEF Own
<1>3. ASSUME NEW o \in Own, NEW from \in Own, CallAppend(o, from) PROVE Inv'
  <2>1. /\ UNCHANGED <<m_parts, wire, made>>
        /\ call' = [fn |-> "append", on |-> o, from |-> from]
        /\ before' = m_parts[o] \o m_parts[from]
    BY <1>3 DEF CallAppend, Call, pipeVars, Parts
  <2>2. before' \in Seq(Frames)
    BY <1>1, <2>1, ConcatProperties
  <2>3. Typed'
    BY <1>1, <2>1, <2>2 DEF Typed
  <2>4. call'.fn = "append" /\ call'.on = o /\ call'.from = from
    BY <2>1
  <2>5. Joins' /\ Clones'
    BY <2>1, <2>4 DEF Joins, Clones, Running, Parts
  <2>6. QED
    BY <2>3, <2>5 DEF Inv
<1>4. ASSUME NEW o \in Own, NEW from \in Own, CallPrepend(o, from) PROVE Inv'
  <2>1. /\ UNCHANGED <<m_parts, wire, made>>
        /\ call' = [fn |-> "prepend", on |-> o, from |-> from]
        /\ before' = m_parts[from] \o m_parts[o]
    BY <1>4 DEF CallPrepend, Call, pipeVars, Parts
  <2>2. before' \in Seq(Frames)
    BY <1>1, <2>1, ConcatProperties
  <2>3. Typed'
    BY <1>1, <2>1, <2>2 DEF Typed
  <2>4. call'.fn = "prepend" /\ call'.on = o /\ call'.from = from
    BY <2>1
  <2>5. Joins' /\ Clones'
    BY <2>1, <2>4 DEF Joins, Clones, Running, Parts
  <2>6. QED
    BY <2>3, <2>5 DEF Inv
<1>5. CASE CallClone
  <2>1. /\ UNCHANGED <<m_parts, wire, made>>
        /\ call' = [fn |-> "clone", on |-> "other", from |-> "msg"]
        /\ before' = m_parts["msg"] /\ m_parts["other"] = << >>
    BY <1>5 DEF CallClone, Call, pipeVars, Parts, empty
  <2>2. Typed'
    BY <1>1, <1>2, <2>1 DEF Typed
  <2>3. Joins' /\ Clones'
    BY <1>1, <1>2, <2>1 DEF Joins, Clones, Running, Parts, size
  <2>4. QED
    BY <2>2, <2>3 DEF Inv
<1>6. CASE CallSend
  <2>1. /\ UNCHANGED <<m_parts, wire, made, before>>
        /\ call' = [fn |-> "send", on |-> "msg", from |-> "msg"]
    BY <1>6 DEF CallSend, Call, pipeVars
  <2>2. Typed'
    BY <1>1, <1>2, <2>1 DEF Typed
  <2>3. QED
    BY <2>1, <2>2, NoCall
<1>7. QED
  BY <1>3, <1>4, <1>5, <1>6

\* The turns of append and prepend.
LEMMA ConcatInv == ASSUME Inv, AppendOne \/ PrependOne PROVE Inv'
<1> DEFINE o == call.on
           f == call.from
           s == m_parts[o]
           t == m_parts[f]
<1>1. /\ Typed /\ o \in Objs /\ f \in Objs
      /\ s \in Seq(Frames) /\ t \in Seq(Frames)
      /\ UNCHANGED <<call, wire, made, before>>
  BY DEF Inv, Typed, Objs, AppendOne, PrependOne, pipeVars, history
<1>2. t # << >>
  BY DEF AppendOne, PrependOne, Parts, empty
<1>3. call.fn \in {"append", "prepend"}
  BY DEF AppendOne, PrependOne, Running
<1>4. CASE o = f
  <2>1. pop(t) \in Seq(Frames) /\ remove(t) \in Seq(Frames)
        /\ front(t) \in Frames /\ back(t) \in Frames
    BY <1>1, <1>2, Ends
  <2>2. add(pop(t), front(t)) \in Seq(Frames) /\ push(remove(t), back(t)) \in Seq(Frames)
    <3>1. <<back(t)>> \in Seq(Frames)
      BY <2>1
    <3>2. QED
      BY <2>1, <3>1, ConcatProperties, AppendProperties
         DEF push, pushmem, add, addstr
  <2>3. m_parts' = [m_parts EXCEPT ![f] = add(pop(t), front(t))]
        \/ m_parts' = [m_parts EXCEPT ![f] = push(remove(t), back(t))]
    BY <1>1, <1>4 DEF AppendOne, PrependOne, Typed, Parts
  <2>4. Typed'
    BY <1>1, <2>2, <2>3 DEF Typed
  <2>5. QED
    BY <1>1, <1>3, <1>4, <2>4 DEF Inv, Joins, Clones, Running
<1>5. CASE o # f
  <2>1. CASE AppendOne
    <3>1. /\ m_parts' \in [Objs -> Seq(Frames)]
          /\ m_parts'[o] = add(s, front(t)) /\ m_parts'[f] = pop(t)
      <4>1. m_parts' = [[m_parts EXCEPT ![f] = pop(t)] EXCEPT ![o] = add(s, front(t))]
        BY <1>1, <1>5, <2>1 DEF AppendOne, Typed, Parts
      <4>2. pop(t) \in Seq(Frames) /\ add(s, front(t)) \in Seq(Frames)
        BY <1>1, <1>2, Ends, FrontToBack
      <4>3. QED
        BY <1>1, <1>5, <4>1, <4>2 DEF Typed
    <3>2. add(s, front(t)) \o pop(t) = s \o t
      BY <1>1, <1>2, FrontToBack
    <3>3. call.fn = "append" /\ s \o t = before
      BY <1>5, <2>1 DEF AppendOne, Running, Inv, Joins, Parts
    <3>4. Joins' /\ Clones'
      BY <1>1, <3>1, <3>2, <3>3 DEF Joins, Clones, Running, Parts
    <3>5. QED
      BY <1>1, <3>1, <3>4 DEF Inv, Typed
  <2>2. CASE PrependOne
    <3>1. /\ m_parts' \in [Objs -> Seq(Frames)]
          /\ m_parts'[o] = push(s, back(t)) /\ m_parts'[f] = remove(t)
      <4>1. m_parts' = [[m_parts EXCEPT ![f] = remove(t)] EXCEPT ![o] = push(s, back(t))]
        BY <1>1, <1>5, <2>2 DEF PrependOne, Typed, Parts
      <4>2. remove(t) \in Seq(Frames) /\ push(s, back(t)) \in Seq(Frames)
        BY <1>1, <1>2, Ends, BackToFront
      <4>3. QED
        BY <1>1, <1>5, <4>1, <4>2 DEF Typed
    <3>2. remove(t) \o push(s, back(t)) = t \o s
      BY <1>1, <1>2, BackToFront
    <3>3. call.fn = "prepend" /\ t \o s = before
      BY <1>5, <2>2 DEF PrependOne, Running, Inv, Joins, Parts
    <3>4. Joins' /\ Clones'
      BY <1>1, <3>1, <3>2, <3>3 DEF Joins, Clones, Running, Parts
    <3>5. QED
      BY <1>1, <3>1, <3>4 DEF Inv, Typed
  <2>3. QED
    BY <2>1, <2>2
<1>6. QED
  BY <1>4, <1>5

\* A turn of clone copies the next frame.
LEMMA CloneInv == ASSUME Inv, CloneOne PROVE Inv'
<1> DEFINE c == m_parts["other"]
           m == m_parts["msg"]
           n == Len(c)
<1>1. /\ Typed /\ "other" \in Objs /\ "msg" \in Objs
      /\ c \in Seq(Frames) /\ m \in Seq(Frames) /\ n \in Nat
      /\ UNCHANGED <<call, wire, made, before>>
  BY DEF Inv, Typed, Objs, Own, CloneOne, pipeVars
<1>2. /\ call.fn = "clone" /\ n < Len(m) /\ m = before
      /\ m_parts' = [m_parts EXCEPT !["other"] = Append(c, m[n + 1])]
  BY DEF CloneOne, Running, Parts, size, add, addstr, Inv, Clones
<1>3. m[n + 1] \in Frames
  BY <1>1, <1>2
<1>4. /\ Append(c, m[n + 1]) \in Seq(Frames)
      /\ Len(Append(c, m[n + 1])) = n + 1
      /\ \A i \in 1 .. n : Append(c, m[n + 1])[i] = c[i]
      /\ Append(c, m[n + 1])[n + 1] = m[n + 1]
  BY <1>1, <1>3, AppendProperties
<1>5. /\ m_parts' \in [Objs -> Seq(Frames)] /\ m_parts'["msg"] = m
      /\ m_parts'["other"] = Append(c, m[n + 1])
  BY <1>1, <1>2, <1>4 DEF Typed
<1>6. \A i \in 1 .. n : c[i] = before[i]
  BY <1>2 DEF Inv, Clones, Running, Parts, size
<1>7. Joins' /\ Clones'
  <2>1. \A i \in 1 .. n + 1 : Append(c, m[n + 1])[i] = before[i]
    BY <1>1, <1>2, <1>4, <1>6
  <2>2. n + 1 <= Len(before)
    BY <1>1, <1>2
  <2>3. Clones'
    BY <1>1, <1>2, <1>4, <1>5, <2>1, <2>2 DEF Clones, Running, Parts, size
  <2>4. Joins'
    BY <1>1, <1>2 DEF Joins, Running
  <2>5. QED
    BY <2>3, <2>4
<1>8. QED
  BY <1>1, <1>5, <1>7 DEF Inv, Typed

\* The calls return with nothing left to keep.
LEMMA ReturnInv ==
    ASSUME Inv, ConcatReturn \/ CloneReturn \/ SendReturn \/ SendFails PROVE Inv'
<1>1. /\ call' = Idle /\ before' = << >> /\ UNCHANGED <<wire, made>>
      /\ Typed
  BY DEF ConcatReturn, CloneReturn, SendReturn, SendFails, Return, pipeVars, Inv
<1>2. m_parts' \in [Objs -> Seq(Frames)]
  <2>1. CASE UNCHANGED m_parts
    BY <1>1, <2>1 DEF Typed
  <2>2. CASE SendFails
    <3>1. "msg" \in Objs /\ m_parts["msg"] \in Seq(Frames) /\ m_parts["msg"] # << >>
      BY <1>1, <2>2 DEF Typed, Objs, Own, SendFails, empty, Parts
    <3>2. pop(m_parts["msg"]) \in Seq(Frames)
      BY <3>1, Ends
    <3>3. QED
      BY <1>1, <2>2, <3>2 DEF SendFails, Typed
  <2>3. QED
    BY <2>1, <2>2 DEF ConcatReturn, CloneReturn, SendReturn
<1>3. Idle.fn = "none" /\ Idle \in [fn : {"none", "append", "prepend", "clone", "send"},
                                    on : Own, from : Own]
  BY DEF Idle, Own
<1>4. Typed'
  BY <1>1, <1>2, <1>3 DEF Typed
<1>5. QED
  BY <1>1, <1>3, <1>4, NoCall

\* send() and the peer leave the objects alone that append, prepend and clone
\* are about.
LEMMA PipeInv ==
    ASSUME Inv, \/ SendOne
                \/ CallRecv \/ RecvOne \/ RecvFails \/ PeerDown \/ PeerUp
    PROVE  Inv'
<1>1. Typed /\ "msg" \in Objs /\ "got" \in Objs /\ "got" \notin Own
      /\ \A o \in Own : o \in Objs
  BY DEF Inv, Objs, Own
<1>2. CASE SendOne
  <2> DEFINE m    == m_parts["msg"]
             last == [frame |-> front(m), more |-> size(pop(m)) > 0]
  <2>1. /\ m \in Seq(Frames) /\ m # << >> /\ call.fn = "send"
        /\ UNCHANGED <<call, made, before>>
    BY <1>1, <1>2 DEF SendOne, Typed, empty, Parts, Running, history
  <2>2. pop(m) \in Seq(Frames) /\ front(m) \in Frames
    BY <2>1, Ends
  <2>3. last \in Wire
    <3>1. (size(pop(m)) > 0) \in BOOLEAN
      OBVIOUS
    <3>2. QED
      BY <2>2, <3>1 DEF Wire
  <2>4. /\ wire' = Append(wire, last)
        /\ m_parts' = [m_parts EXCEPT !["msg"] = pop(m)]
    BY <1>2 DEF SendOne, Parts
  <2> HIDE DEF last
  <2>5. wire' \in Seq(Wire) /\ m_parts' \in [Objs -> Seq(Frames)]
    BY <1>1, <2>2, <2>3, <2>4, AppendProperties DEF Typed
  <2>6. QED
    BY <1>1, <2>1, <2>5, NoCall DEF Typed
<1>3. ASSUME NEW s \in Seq(Frames), wire' \in Seq(Wire),
             m_parts' = [m_parts EXCEPT !["got"] = s],
             UNCHANGED <<call, made, before>>
      PROVE  Inv'
  <2>1. Typed'
    BY <1>1, <1>3 DEF Typed
  <2>2. \A o \in Own : m_parts'[o] = m_parts[o]
    BY <1>1, <1>3 DEF Typed
  <2>3. call.on \in Own /\ call.from \in Own /\ "msg" \in Own /\ "other" \in Own
    BY <1>1 DEF Typed, Own
  <2>4. Joins' /\ Clones'
    BY <1>3, <2>2, <2>3 DEF Inv, Joins, Clones, Running, Parts
  <2>5. QED
    BY <2>1, <2>4 DEF Inv
<1>4. CASE CallRecv
  <2>1. /\ m_parts' = [m_parts EXCEPT !["got"] = << >>] /\ wire' = wire
        /\ UNCHANGED <<call, made, before>>
    BY <1>4 DEF CallRecv, history
  <2>2. << >> \in Seq(Frames) /\ wire' \in Seq(Wire)
    BY <1>1, <2>1 DEF Typed
  <2>3. QED
    BY <1>3, <2>1, <2>2
<1>5. CASE RecvOne
  <2>1. wire # << >>
    BY <1>5 DEF RecvOne, Readable, Whole
  <2>2. Head(wire) \in Wire /\ Tail(wire) \in Seq(Wire)
    BY <1>1, <2>1 DEF Typed
  <2>3. Head(wire).frame \in Frames
    BY <2>2 DEF Wire
  <2>4. Append(m_parts["got"], Head(wire).frame) \in Seq(Frames)
    BY <1>1, <2>3 DEF Typed
  <2>5. /\ m_parts' = [m_parts EXCEPT !["got"] = Append(m_parts["got"], Head(wire).frame)]
        /\ wire' = Tail(wire) /\ UNCHANGED <<call, made, before>>
    BY <1>5 DEF RecvOne, add, addstr, history
  <2>6. QED
    BY <1>3, <2>2, <2>4, <2>5
<1>6. CASE RecvFails \/ PeerDown \/ PeerUp
  <2>1. UNCHANGED <<m_parts, call, made, before>>
    BY <1>6 DEF RecvFails, PeerDown, PeerUp, history
  <2>2. wire' = wire \/ wire' = << >>
    BY <1>6 DEF RecvFails, PeerDown, PeerUp
  <2>3. wire' \in Seq(Wire)
    <3>1. wire \in Seq(Wire)
      BY <1>1 DEF Typed
    <3>2. << >> \in Seq(Wire)
      OBVIOUS
    <3>3. QED
      BY <2>2, <3>1, <3>2, Zenon
  <2>4. Typed'
    BY <1>1, <2>1, <2>3 DEF Typed
  <2>5. Joins' /\ Clones'
    BY <2>1 DEF Inv, Joins, Clones, Running, Parts
  <2>6. QED
    BY <2>4, <2>5 DEF Inv
<1>7. QED
  BY <1>2, <1>4, <1>5, <1>6

\* Every step keeps the invariant.
LEMMA NextInv == Inv /\ [Next]_vars => Inv'
<1> SUFFICES ASSUME Inv, [Next]_vars PROVE Inv'
  OBVIOUS
<1>1. CASE UNCHANGED vars
  BY <1>1 DEF vars, pipeVars, history, Inv, Typed, Joins, Clones, Running, Parts
<1>2. CASE Calls
  BY <1>2, OneStepInv, CallInv DEF Calls
<1>3. CASE Step
  BY <1>3, ConcatInv, CloneInv, ReturnInv, PipeInv DEF Step
<1>4. QED
  BY <1>1, <1>2, <1>3, ReturnInv, PipeInv DEF Next

\* The invariant of the loops.
THEOREM MessagesCorrect == Spec => []Inv
  BY InitInv, NextInv, PTL DEF Spec

\* In every turn of append, prepend and clone the frames are in the order the
\* result is to have, for messages of any length.
THEOREM OrderKept == Spec => []ConcatenatesInOrder
<1>1. Inv => ConcatenatesInOrder
  <2> SUFFICES ASSUME Inv PROVE ConcatenatesInOrder
    OBVIOUS
  <2>1. ASSUME Running("clone")
        PROVE  equal(Parts("other"), SubSeq(before, 1, size(Parts("other"))))
    <3> DEFINE c == Parts("other")
               n == Len(c)
    <3>1. c \in Seq(Frames) /\ n \in Nat /\ n <= Len(before)
          /\ before \in Seq(Frames) /\ \A i \in 1 .. n : c[i] = before[i]
      BY <2>1 DEF Inv, Typed, Clones, Parts, Objs, Own, size
    <3>2. \A i \in 1 .. n : before[i] \in Frames
      BY <3>1
    <3> HIDE DEF c
    <3>3. /\ Len(SubSeq(before, 1, n)) = n
          /\ \A i \in 1 .. n : SubSeq(before, 1, n)[i] = before[i]
      BY <3>1, <3>2
    <3>4. QED
      BY <3>1, <3>3 DEF equal, size, c
  <2>2. QED
    BY <2>1 DEF Inv, Joins, ConcatenatesInOrder
<1>2. QED
  BY <1>1, MessagesCorrect, PTL

-----------------------------------------------------------------------------
(* Who owns a frame *)

Has(s, f)    == \E i \in DOMAIN s : s[i] = f
OnceIn(s, f) == \A i, j \in DOMAIN s : s[i] = f /\ s[j] = f => i = j

\* Nothing is in t that is not in s, and nothing twice that is in s once.
Fewer(t, s, f) == /\ Has(t, f) => Has(s, f)
                  /\ OnceIn(s, f) => OnceIn(t, f)

\* t is s without x at one end, or with x at one end.
Without(t, s, x) == /\ Has(s, x)
                    /\ OnceIn(s, x) => ~ Has(t, x)
                    /\ \A f : Fewer(t, s, f)
With(t, s, x) == \A f : /\ Has(t, f) => Has(s, f) \/ f = x
                        /\ OnceIn(s, f) /\ (f = x => ~ Has(s, f)) => OnceIn(t, f)

\* pop() and remove() take one frame off,
LEMMA OneLess ==
    ASSUME NEW S, NEW s \in Seq(S), s # << >>
    PROVE  Without(pop(s), s, front(s)) /\ Without(remove(s), s, back(s))
<1> DEFINE n == Len(s)
           p == pop(s)
           r == remove(s)
<1>1. /\ n \in Nat /\ n > 0 /\ DOMAIN s = 1 .. n
      /\ DOMAIN p = 1 .. n - 1 /\ \A i \in 1 .. n - 1 : p[i] = s[i + 1]
      /\ DOMAIN r = 1 .. n - 1 /\ \A i \in 1 .. n - 1 : r[i] = s[i]
      /\ front(s) = s[1] /\ back(s) = s[n]
  <2>1. /\ n \in Nat /\ n > 0 /\ DOMAIN s = 1 .. n
        /\ p \in Seq(S) /\ Len(p) = n - 1 /\ \A i \in 1 .. n - 1 : p[i] = s[i + 1]
        /\ r \in Seq(S) /\ Len(r) = n - 1 /\ \A i \in 1 .. n - 1 : r[i] = s[i]
    BY Ends, LenProperties
  <2>2. front(s) = s[1] /\ back(s) = s[n]
    BY DEF front, back
  <2>3. DOMAIN p = 1 .. Len(p) /\ DOMAIN r = 1 .. Len(r)
    BY <2>1, LenProperties
  <2>4. QED
    BY <2>1, <2>2, <2>3
<1> HIDE DEF n, p, r
<1>2. /\ \A i \in DOMAIN p : i \in Int /\ i + 1 \in DOMAIN s /\ i + 1 # 1
      /\ \A i \in DOMAIN r : i \in DOMAIN s /\ i # n
  BY <1>1
<1>3. Without(p, s, front(s))
  BY <1>1, <1>2 DEF Without, Fewer, Has, OnceIn
<1>4. Without(r, s, back(s))
  BY <1>1, <1>2 DEF Without, Fewer, Has, OnceIn
<1>5. QED
  BY <1>3, <1>4 DEF p, r

\* and push() and add() put one in.
LEMMA OneMore ==
    ASSUME NEW S, NEW s \in Seq(S), NEW x \in S
    PROVE  With(push(s, x), s, x) /\ With(add(s, x), s, x)
<1> DEFINE n == Len(s)
           p == push(s, x)
           a == add(s, x)
<1>1. n \in Nat /\ DOMAIN s = 1 .. n
  BY LenProperties
<1>2. DOMAIN a = 1 .. n + 1 /\ a[n + 1] = x /\ \A i \in 1 .. n : a[i] = s[i]
  <2>1. /\ a \in Seq(S) /\ Len(a) = n + 1 /\ a[n + 1] = x
        /\ \A i \in 1 .. n : a[i] = s[i]
    BY AppendProperties DEF add, addstr
  <2>2. DOMAIN a = 1 .. Len(a)
    BY <2>1, LenProperties
  <2>3. QED
    BY <2>1, <2>2
<1>3. DOMAIN p = 1 .. n + 1 /\ p[1] = x /\ \A i \in 1 .. n : p[i + 1] = s[i]
  <2> DEFINE g == <<x>>
  <2>1. g \in Seq(S) /\ Len(g) = 1 /\ g[1] = x /\ p = g \o s
    BY DEF push, pushmem
  <2> HIDE DEF g, p
  <2>2. /\ p \in Seq(S) /\ Len(p) = 1 + n
        /\ \A i \in 1 .. 1 + n : p[i] = IF i <= 1 THEN g[i] ELSE s[i - 1]
    BY <2>1, ConcatProperties
  <2>3. DOMAIN p = 1 .. Len(p)
    BY <2>2, LenProperties
  <2>4. \A i \in 1 .. n : i + 1 \in 1 .. 1 + n /\ ~ (i + 1 <= 1) /\ (i + 1) - 1 = i
    BY <1>1
  <2>5. QED
    BY <1>1, <2>1, <2>2, <2>3, <2>4
<1> HIDE DEF n, p, a
<1>4. \A i \in DOMAIN a : i = n + 1 \/ i \in DOMAIN s
  BY <1>1, <1>2
<1>5. \A i \in DOMAIN p : i = 1 \/ (i - 1 \in DOMAIN s /\ (i - 1) + 1 = i)
  BY <1>1, <1>3
<1>6. With(a, s, x)
  BY <1>1, <1>2, <1>4 DEF With, Has, OnceIn
<1>7. With(p, s, x)
  <2>1. \A i \in DOMAIN p : p[i] = IF i = 1 THEN x ELSE s[i - 1]
    BY <1>1, <1>3, <1>5
  <2>2. QED
    BY <1>5, <2>1 DEF With, Has, OnceIn
<1>8. QED
  BY <1>6, <1>7 DEF p, a

\* A frame is in one place of all that hold frames, or in none.
Alone(c, f) ==
    /\ \A o \in DOMAIN c : OnceIn(c[o], f)
    /\ \A o, p \in DOMAIN c : Has(c[o], f) /\ Has(c[p], f) => o = p
Absent(c, f) == \A o \in DOMAIN c : ~ Has(c[o], f)

\* A step from c to d brings no frame twice, and none back.
Keeps(c, d, f) == /\ Alone(c, f) => Alone(d, f)
                  /\ Absent(c, f) => Absent(d, f)

Changed(c, o, s, d) == d = [c EXCEPT ![o] = s]

\* Frames that are taken away are not doubled,
LEMMA Drop ==
    ASSUME NEW c, NEW o \in DOMAIN c, NEW s, NEW d, Changed(c, o, s, d),
           NEW f, Fewer(s, c[o], f)
    PROVE  Keeps(c, d, f)
<1>1. /\ DOMAIN d = DOMAIN c /\ d[o] = s
      /\ \A p \in DOMAIN c : p # o => d[p] = c[p]
  BY DEF Changed
<1>2. \A p \in DOMAIN c : Has(d[p], f) => Has(c[p], f)
  BY <1>1 DEF Fewer
<1>3. \A p \in DOMAIN c : OnceIn(c[p], f) => OnceIn(d[p], f)
  BY <1>1 DEF Fewer
<1>4. QED
  BY <1>1, <1>2, <1>3 DEF Keeps, Alone, Absent

\* nor is another frame when one is put in,
LEMMA EnterOther ==
    ASSUME NEW c, NEW o \in DOMAIN c, NEW s, NEW d, Changed(c, o, s, d),
           NEW x, With(s, c[o], x), NEW f, f # x
    PROVE  Keeps(c, d, f)
<1>1. Fewer(s, c[o], f)
  BY DEF With, Fewer
<1>2. QED
  BY <1>1, Drop

\* and that one was nowhere before.
LEMMA EnterNew ==
    ASSUME NEW c, NEW o \in DOMAIN c, NEW s, NEW d, Changed(c, o, s, d),
           NEW x, With(s, c[o], x), Absent(c, x)
    PROVE  Alone(d, x)
<1>1. /\ DOMAIN d = DOMAIN c /\ d[o] = s
      /\ \A p \in DOMAIN c : p # o => d[p] = c[p]
  BY DEF Changed
<1>2. \A p \in DOMAIN c : Has(d[p], x) => p = o
  BY <1>1 DEF Absent
<1>3. OnceIn(s, x)
  <2>1. ~ Has(c[o], x)
    BY DEF Absent
  <2>2. OnceIn(c[o], x)
    BY <2>1 DEF Has, OnceIn
  <2>3. QED
    BY <2>1, <2>2 DEF With
<1>4. \A p \in DOMAIN c : OnceIn(d[p], x)
  <2> SUFFICES ASSUME NEW p \in DOMAIN c, p # o PROVE OnceIn(d[p], x)
    BY <1>1, <1>3
  <2>1. ~ Has(d[p], x)
    BY <1>2
  <2>2. QED
    BY <2>1 DEF Has, OnceIn
<1>5. QED
  BY <1>1, <1>2, <1>4 DEF Alone

\* A frame that goes from one end of o to one end of p stays alone.
LEMMA PassOn ==
    ASSUME NEW c, NEW o \in DOMAIN c, NEW p \in DOMAIN c, NEW x,
           NEW s, Without(s, c[o], x), NEW e, Changed(c, o, s, e),
           NEW u, With(u, e[p], x), NEW d, Changed(e, p, u, d), NEW f
    PROVE  Keeps(c, d, f)
<1>1. /\ DOMAIN e = DOMAIN c /\ e[o] = s
      /\ \A q \in DOMAIN c : q # o => e[q] = c[q]
  BY DEF Changed
<1>2. Keeps(c, e, f)
  BY Drop DEF Without
<1>3. CASE f # x
  BY <1>1, <1>2, <1>3, EnterOther DEF Keeps
<1>4. CASE f = x
  <2>1. ~ Absent(c, x)
    BY DEF Without, Absent
  <2>2. ASSUME Alone(c, x)
        PROVE  Alone(d, x)
    <3>1. Absent(e, x)
      BY <1>1, <2>2 DEF Alone, Absent, Without
    <3>2. QED
      BY <1>1, <3>1, EnterNew
  <2>3. QED
    BY <1>4, <2>1, <2>2 DEF Keeps
<1>5. QED
  BY <1>3, <1>4

\* A step that writes one object, or the pipe.
LEMMA WriteParts ==
    ASSUME Typed, NEW o \in Objs, NEW s,
           m_parts' = [m_parts EXCEPT ![o] = s], wire' = wire
    PROVE  Changed(Holdings, o, s, Holdings') /\ o \in DOMAIN Holdings
  BY DEF Changed, Holdings, Parts, WireFrames, Typed, Objs, Own

\* A step that changes the pipe alone changes one of what holds frames.
LEMMA WriteWire ==
    ASSUME Typed, m_parts' = m_parts
    PROVE  Changed(Holdings, "wire", WireFrames', Holdings')
  BY DEF Changed, Holdings, Parts, Objs, Own

\* What holds frames holds sequences.
LEMMA HoldingsType ==
    ASSUME Typed
    PROVE  /\ Holdings \in [Objs \cup {"wire"} -> Seq(Frames)]
           /\ DOMAIN Holdings = Objs \cup {"wire"}
           /\ Holdings["wire"] = WireFrames
           /\ \A o \in Objs : Holdings[o] = m_parts[o]
<1>1. WireFrames \in Seq(Frames)
  <2>1. wire \in Seq(Wire) /\ DOMAIN wire = 1 .. Len(wire) /\ Len(wire) \in Nat
    BY LenProperties DEF Typed
  <2>2. \A i \in 1 .. Len(wire) : wire[i].frame \in Frames
    <3>1. \A i \in 1 .. Len(wire) : wire[i] \in Wire
      BY <2>1
    <3>2. QED
      BY <3>1 DEF Wire
  <2>3. WireFrames \in [1 .. Len(wire) -> Frames]
    BY <2>1, <2>2 DEF WireFrames
  <2>4. QED
    BY <2>1, <2>3
<1>2. "wire" \notin Objs
  BY DEF Objs, Own
<1>3. QED
  BY <1>1, <1>2 DEF Holdings, Parts, Typed

\* What a step does to the owners of frames: a frame that is alone stays so
\* unless it is cloned, a new one is alone, and one that is gone stays gone.
OwnerStep ==
    /\ made <= made' /\ copied \subseteq copied'
    /\ \A f \in Frames :
          /\ f \notin copied' /\ Alone(Holdings, f) /\ (f > made => Absent(Holdings, f))
                => Alone(Holdings', f)
          /\ Absent(Holdings, f) /\ (f <= made \/ f > made') => Absent(Holdings', f)

\* Most steps make and clone nothing.
LEMMA KeepsAll ==
    ASSUME Typed, made' = made, copied' = copied,
           \A f \in Frames : Keeps(Holdings, Holdings', f)
    PROVE  OwnerStep
  BY DEF OwnerStep, Keeps, Typed

\* Steps of the owner.
LEMMA OneStepOwners ==
    ASSUME Typed, NEW o \in Own, Make(o) \/ Take(o) \/ Clear(o)
    PROVE  OwnerStep
<1> DEFINE s == m_parts[o]
<1>1. /\ o \in Objs /\ s \in Seq(Frames) /\ wire' = wire /\ copied' = copied
      /\ s = Holdings[o] /\ o \in DOMAIN Holdings /\ made \in Nat
  BY HoldingsType DEF Typed, Objs, Make, Take, Clear, pipeVars, history
<1>2. CASE Make(o)
  <2>1. made' = made + 1 /\ made' \in Frames
    BY <1>1, <1>2, OpsAssumption DEF Make, Frames
  <2>2. PICK u \in {push(s, made'), add(s, made')} : m_parts' = [m_parts EXCEPT ![o] = u]
    BY <1>1, <1>2 DEF Make, Typed
  <2>3. Changed(Holdings, o, u, Holdings')
    BY <1>1, <2>2, WriteParts
  <2>4. With(u, Holdings[o], made')
    BY <1>1, <2>1, <2>2, OneMore
  <2>5. \A f \in Frames : f # made' => Keeps(Holdings, Holdings', f)
    BY <1>1, <2>3, <2>4, EnterOther
  <2>6. Absent(Holdings, made') => Alone(Holdings', made')
    BY <1>1, <2>3, <2>4, EnterNew
  <2>7. \A f \in Frames : f <= made \/ f > made' => f # made'
    BY <1>1, <2>1 DEF Frames
  <2>8. made' > made /\ made <= made'
    BY <1>1, <2>1
  <2>9. QED
    BY <1>1, <2>5, <2>6, <2>7, <2>8 DEF OwnerStep, Keeps
<1>3. CASE Take(o)
  <2>1. s # << >> /\ made' = made
    BY <1>3 DEF Take, empty, Parts
  <2>2. PICK u \in {pop(s), remove(s)} : m_parts' = [m_parts EXCEPT ![o] = u]
    BY <1>1, <1>3 DEF Take, Typed
  <2>3. Changed(Holdings, o, u, Holdings')
    BY <1>1, <2>2, WriteParts
  <2>4. \A f : Fewer(u, s, f)
    BY <1>1, <2>1, <2>2, OneLess DEF Without
  <2>5. \A f \in Frames : Keeps(Holdings, Holdings', f)
    BY <1>1, <2>3, <2>4, Drop
  <2>6. QED
    BY <1>1, <2>1, <2>5, KeepsAll
<1>4. CASE Clear(o)
  <2>1. m_parts' = [m_parts EXCEPT ![o] = << >>] /\ made' = made
    BY <1>4 DEF Clear
  <2>2. Changed(Holdings, o, << >>, Holdings')
    BY <1>1, <2>1, WriteParts
  <2>3. \A f : Fewer(<< >>, s, f)
    BY DEF Fewer, Has, OnceIn
  <2>4. \A f \in Frames : Keeps(Holdings, Holdings', f)
    BY <1>1, <2>2, <2>3, Drop
  <2>5. QED
    BY <1>1, <2>1, <2>4, KeepsAll
<1>5. QED
  BY <1>2, <1>3, <1>4

\* The frames of a moved object change hands.
LEMMA MoveOwners ==
    ASSUME Typed, NEW o \in Own, NEW from \in Own, Move(o, from)
    PROVE  OwnerStep
<1>1. /\ o \in Objs /\ from \in Objs /\ o # from /\ made' = made /\ copied' = copied
      /\ wire' = wire
      /\ m_parts' = [m_parts EXCEPT ![o] = m_parts[from], ![from] = << >>]
  BY DEF Objs, Move, pipeVars, history, Parts
<1>2. /\ DOMAIN Holdings' = DOMAIN Holdings
      /\ o \in DOMAIN Holdings /\ from \in DOMAIN Holdings
      /\ Holdings'[o] = Holdings[from] /\ Holdings'[from] = << >>
      /\ \A p \in DOMAIN Holdings : p # o /\ p # from => Holdings'[p] = Holdings[p]
  BY <1>1 DEF Holdings, Parts, WireFrames, Typed, Objs, Own
<1>3. \A f : ~ Has(<< >>, f) /\ OnceIn(<< >>, f)
  BY DEF Has, OnceIn
<1>4. ASSUME NEW f \in Frames
      PROVE  Keeps(Holdings, Holdings', f)
  <2>1. Absent(Holdings, f) => Absent(Holdings', f)
    BY <1>1, <1>2, <1>3 DEF Absent
  <2>2. Alone(Holdings, f) => Alone(Holdings', f)
    BY <1>1, <1>2, <1>3 DEF Alone
  <2>3. QED
    BY <2>1, <2>2 DEF Keeps
<1>5. QED
  BY <1>1, <1>4, KeepsAll

\* The turns of append and prepend pass a frame on.
LEMMA ConcatOwners ==
    ASSUME Typed, AppendOne \/ PrependOne
    PROVE  OwnerStep
<1> DEFINE o == call.on
           g == call.from
           t == m_parts[g]
           H == Holdings
<1>1. /\ o \in Objs /\ g \in Objs /\ t \in Seq(Frames) /\ t # << >>
      /\ wire' = wire /\ copied' = copied /\ made' = made
      /\ m_parts \in [Objs -> Seq(Frames)]
  BY DEF Typed, Objs, AppendOne, PrependOne, Parts, empty, pipeVars, history
<1>2. /\ H \in [Objs \cup {"wire"} -> Seq(Frames)] /\ DOMAIN H = Objs \cup {"wire"}
      /\ H[g] = t
  BY <1>1, HoldingsType
<1>3. PICK s \in {pop(t), remove(t)}, x \in Frames :
         /\ s \in Seq(Frames) /\ Without(s, t, x)
         /\ LET e == [m_parts EXCEPT ![g] = s] IN
            \/ m_parts' = [e EXCEPT ![o] = add(e[o], x)]
            \/ m_parts' = [e EXCEPT ![o] = push(e[o], x)]
  <2>1. /\ pop(t) \in Seq(Frames) /\ remove(t) \in Seq(Frames)
        /\ front(t) \in Frames /\ back(t) \in Frames
        /\ Without(pop(t), t, front(t)) /\ Without(remove(t), t, back(t))
    BY <1>1, Ends, OneLess
  <2>2. CASE AppendOne
    <3>1. LET e == [m_parts EXCEPT ![g] = pop(t)] IN
          m_parts' = [e EXCEPT ![o] = add(e[o], front(t))]
      BY <1>1, <2>2 DEF AppendOne, Parts
    <3>2. QED
      BY <2>1, <3>1
  <2>3. CASE PrependOne
    <3>1. LET e == [m_parts EXCEPT ![g] = remove(t)] IN
          m_parts' = [e EXCEPT ![o] = push(e[o], back(t))]
      BY <1>1, <2>3 DEF PrependOne, Parts
    <3>2. QED
      BY <2>1, <3>1
  <2>4. QED
    BY <2>2, <2>3
<1> DEFINE e == [H EXCEPT ![g] = s]
           u == H'[o]
<1>4. Changed(H, g, s, e) /\ Without(s, H[g], x)
  BY <1>2, <1>3 DEF Changed
<1>5. e[o] \in Seq(Frames) /\ e[o] = [m_parts EXCEPT ![g] = s][o]
  BY <1>1, <1>2, <1>3, HoldingsType
<1>6. With(u, e[o], x) /\ Changed(e, o, u, H')
  <2> DEFINE b == [m_parts EXCEPT ![g] = s]
             k == e[o]
  <2>1. b[o] = k /\ k \in Seq(Frames)
    BY <1>5
  <2>2. PICK y \in {add(k, x), push(k, x)} : m_parts' = [b EXCEPT ![o] = y]
    BY <1>3, <2>1
  <2>3. u = y /\ Changed(e, o, y, H')
    BY <1>1, <2>2 DEF Changed, Holdings, Parts, WireFrames, Objs, Own
  <2> HIDE DEF u, k, b, e
  <2>4. With(y, k, x)
    BY <1>3, <2>1, <2>2, OneMore
  <2>5. QED
    BY <2>3, <2>4 DEF k
<1> HIDE DEF e, u
<1>7. \A f \in Frames : Keeps(H, H', f)
  BY <1>1, <1>2, <1>4, <1>6, PassOn
<1>8. QED
  BY <1>1, <1>7, KeepsAll

\* A turn of clone doubles the frame it copies and no other.
LEMMA CloneOwners == ASSUME Typed, CloneOne PROVE OwnerStep
<1> DEFINE c == m_parts["other"]
           m == m_parts["msg"]
           x == m[Len(c) + 1]
<1>1. /\ "other" \in Objs /\ "msg" \in Objs /\ c \in Seq(Frames) /\ m \in Seq(Frames)
      /\ wire' = wire /\ made' = made /\ made \in Nat
  BY DEF Typed, Objs, Own, CloneOne, pipeVars
<1>2. /\ Len(c) < Len(m) /\ copied' = copied \cup {x}
      /\ m_parts' = [m_parts EXCEPT !["other"] = add(c, x)]
  BY DEF CloneOne, Parts, size
<1>3. Len(c) + 1 \in DOMAIN m /\ x \in Frames
  <2>1. Len(c) \in Nat /\ Len(m) \in Nat /\ DOMAIN m = 1 .. Len(m)
    BY <1>1, LenProperties
  <2>2. Len(c) + 1 \in DOMAIN m
    BY <1>2, <2>1
  <2>3. QED
    BY <1>1, <2>1, <2>2
<1>4. Has(m, x)
  BY <1>3 DEF Has
<1>5. /\ Holdings["msg"] = m /\ Holdings["other"] = c
      /\ "msg" \in DOMAIN Holdings /\ "other" \in DOMAIN Holdings
  BY <1>1, HoldingsType
<1> HIDE DEF x, c, m
<1>6. ~ Absent(Holdings, x)
  BY <1>4, <1>5 DEF Absent
<1>7. Changed(Holdings, "other", add(c, x), Holdings')
  BY <1>1, <1>2, WriteParts
<1>8. With(add(c, x), Holdings["other"], x)
  BY <1>1, <1>3, <1>5, OneMore
<1>9. \A f \in Frames : f # x => Keeps(Holdings, Holdings', f)
  BY <1>5, <1>7, <1>8, EnterOther
<1>10. QED
  BY <1>1, <1>2, <1>6, <1>9 DEF OwnerStep, Keeps

\* What the pipe takes at its end and gives from its front.
LEMMA WireEnds ==
    ASSUME Typed
    PROVE  /\ \A x \in Frames, b \in BOOLEAN :
                 wire' = Append(wire, [frame |-> x, more |-> b])
                    => WireFrames' = add(WireFrames, x)
           /\ wire # << >> => /\ WireFrames # << >>
                              /\ front(WireFrames) = Head(wire).frame
                              /\ Head(wire).frame \in Frames
                              /\ wire' = Tail(wire) => WireFrames' = pop(WireFrames)
<1> DEFINE n == Len(wire)
<1>1. /\ wire \in Seq(Wire) /\ n \in Nat /\ DOMAIN wire = 1 .. n
      /\ \A i \in 1 .. n : wire[i] \in Wire
  BY LenProperties DEF Typed
<1>2. \A i \in 1 .. n : wire[i].frame \in Frames
  BY <1>1 DEF Wire
<1>3. WireFrames = [i \in 1 .. n |-> wire[i].frame] /\ WireFrames \in Seq(Frames)
  BY <1>1, <1>2 DEF WireFrames
<1>4. Len(WireFrames) = n /\ DOMAIN WireFrames = 1 .. n
  BY <1>1, <1>3
<1>5. ASSUME NEW x \in Frames, NEW b \in BOOLEAN,
             wire' = Append(wire, [frame |-> x, more |-> b])
      PROVE  WireFrames' = add(WireFrames, x)
  <2> DEFINE last == [frame |-> x, more |-> b]
  <2>1. last \in Wire /\ last.frame = x
    BY DEF Wire
  <2> HIDE DEF last
  <2>2. /\ wire' \in Seq(Wire) /\ Len(wire') = n + 1 /\ wire'[n + 1] = last
        /\ \A i \in 1 .. n : wire'[i] = wire[i]
    BY <1>1, <1>5, <2>1, AppendProperties DEF last
  <2>3. DOMAIN wire' = 1 .. n + 1
    BY <2>2, LenProperties
  <2>4. WireFrames' = [i \in 1 .. n + 1 |-> wire'[i].frame]
    BY <2>3 DEF WireFrames
  <2>5. /\ add(WireFrames, x) \in Seq(Frames) /\ Len(add(WireFrames, x)) = n + 1
        /\ add(WireFrames, x)[n + 1] = x
        /\ \A i \in 1 .. n : add(WireFrames, x)[i] = WireFrames[i]
    BY <1>3, <1>4, AppendProperties DEF add, addstr
  <2>6. ASSUME NEW i \in 1 .. n + 1
        PROVE  WireFrames'[i] = add(WireFrames, x)[i]
    <3>1. WireFrames'[i] = wire'[i].frame
      BY <2>4
    <3>2. CASE i = n + 1
      BY <2>1, <2>2, <2>5, <3>1, <3>2
    <3>3. CASE i # n + 1
      <4>1. i \in 1 .. n
        BY <1>1, <3>3
      <4>2. QED
        BY <1>3, <2>2, <2>5, <3>1, <4>1
    <3>4. QED
      BY <3>2, <3>3
  <2>7. WireFrames' \in Seq(Frames) /\ Len(WireFrames') = n + 1
    <3>1. \A i \in 1 .. n + 1 : wire'[i].frame \in Frames
      BY <1>1, <1>2, <2>1, <2>2
    <3>2. QED
      BY <1>1, <2>4, <3>1
  <2>8. QED
    BY <2>5, <2>6, <2>7, SeqEqual
<1>6. ASSUME wire # << >>
      PROVE  /\ WireFrames # << >> /\ front(WireFrames) = Head(wire).frame
             /\ Head(wire).frame \in Frames
  <2>1. n > 0
    BY <1>1, <1>6, EmptySeq
  <2>2. 1 \in 1 .. n /\ Head(wire) = wire[1]
    BY <1>1, <2>1
  <2>3. QED
    BY <1>1, <1>2, <1>3, <1>4, <2>1, <2>2 DEF front
<1>7. ASSUME wire # << >>, wire' = Tail(wire)
      PROVE  WireFrames' = pop(WireFrames)
  <2>1. /\ wire' \in Seq(Wire) /\ Len(wire') = n - 1
        /\ \A i \in 1 .. n - 1 : wire'[i] = wire[i + 1]
    BY <1>1, <1>7, HeadTailProperties
  <2>2. DOMAIN wire' = 1 .. n - 1 /\ n - 1 \in Nat
    BY <2>1, LenProperties
  <2>3. WireFrames' = [i \in 1 .. n - 1 |-> wire'[i].frame]
    BY <2>2 DEF WireFrames
  <2>4. /\ pop(WireFrames) \in Seq(Frames) /\ Len(pop(WireFrames)) = n - 1
        /\ \A i \in 1 .. n - 1 : pop(WireFrames)[i] = WireFrames[i + 1]
    <3> DEFINE w == WireFrames
    <3>1. w \in Seq(Frames) /\ w # << >> /\ Len(w) = n
      BY <1>3, <1>4, <1>6, <1>7
    <3> HIDE DEF w, n
    <3>2. /\ pop(w) \in Seq(Frames) /\ Len(pop(w)) = n - 1
          /\ \A i \in 1 .. n - 1 : pop(w)[i] = w[i + 1]
      BY <3>1, Ends
    <3>3. QED
      BY <3>2 DEF w
  <2>5. \A i \in 1 .. n - 1 : i + 1 \in 1 .. n
    BY <1>1
  <2>6. \A i \in 1 .. n - 1 : WireFrames'[i] = pop(WireFrames)[i]
    BY <1>3, <2>1, <2>3, <2>4, <2>5
  <2>7. WireFrames' \in Seq(Frames) /\ Len(WireFrames') = n - 1
    <3>1. \A i \in 1 .. n - 1 : wire'[i].frame \in Frames
      BY <1>2, <2>1, <2>5
    <3>2. QED
      BY <2>2, <2>3, <3>1
  <2>8. QED
    BY <2>4, <2>6, <2>7, SeqEqual
<1>8. QED
  BY <1>5, <1>6, <1>7

\* A frame that is sent goes to the pipe, or is freed with its send.
LEMMA SendOwners == ASSUME Typed, SendOne \/ SendFails PROVE OwnerStep
<1> DEFINE m == m_parts["msg"]
           H == Holdings
<1>1. /\ "msg" \in Objs /\ m \in Seq(Frames) /\ m # << >>
      /\ copied' = copied /\ made' = made
  BY DEF Typed, Objs, Own, SendOne, SendFails, Parts, empty, history
<1>2. m_parts' = [m_parts EXCEPT !["msg"] = pop(m)]
  BY DEF SendOne, SendFails, Parts
<1>3. /\ front(m) \in Frames /\ Without(pop(m), m, front(m))
  BY <1>1, Ends, OneLess
<1>4. /\ H \in [Objs \cup {"wire"} -> Seq(Frames)] /\ DOMAIN H = Objs \cup {"wire"}
      /\ H["msg"] = m /\ H["wire"] = WireFrames /\ "msg" # "wire"
  BY <1>1, HoldingsType
<1>5. CASE SendFails
  <2>1. wire' = wire
    BY <1>5 DEF SendFails, pipeVars
  <2>2. Changed(H, "msg", pop(m), H')
    BY <1>1, <1>2, <2>1, WriteParts
  <2>3. \A f \in Frames : Fewer(pop(m), H["msg"], f)
    BY <1>3, <1>4 DEF Without
  <2>4. \A f \in Frames : Keeps(H, H', f)
    BY <1>1, <1>4, <2>2, <2>3, Drop
  <2>5. QED
    BY <1>1, <2>4, KeepsAll
<1>6. CASE SendOne
  <2> DEFINE e == [H EXCEPT !["msg"] = pop(m)]
             u == WireFrames'
  <2>1. PICK b \in BOOLEAN : wire' = Append(wire, [frame |-> front(m), more |-> b])
    <3>1. (size(pop(m)) > 0) \in BOOLEAN
      OBVIOUS
    <3>2. wire' = Append(wire, [frame |-> front(m), more |-> size(pop(m)) > 0])
      BY <1>6 DEF SendOne, Parts
    <3>3. QED
      BY <3>1, <3>2
  <2>2. u = add(WireFrames, front(m))
    BY <1>3, <2>1, WireEnds
  <2>3. Changed(H, "msg", pop(m), e) /\ e["wire"] = WireFrames
    BY <1>1, <1>4 DEF Changed
  <2>4. Changed(e, "wire", u, H')
    BY <1>1, <1>2, <1>4 DEF Changed, Holdings, Parts, Typed, Objs, Own
  <2>5. With(u, e["wire"], front(m))
    <3>1. WireFrames \in Seq(Frames)
      BY <1>4
    <3>2. QED
      BY <1>3, <2>2, <2>3, <3>1, OneMore
  <2> HIDE DEF e, u, m
  <2>6. \A f \in Frames : Keeps(H, H', f)
    BY <1>1, <1>3, <1>4, <2>3, <2>4, <2>5, PassOn
  <2>7. QED
    BY <1>1, <2>6, KeepsAll
<1>7. QED
  BY <1>5, <1>6

\* The peer takes frames from the pipe, or drops them with it.
LEMMA PeerOwners == ASSUME Typed, CallRecv \/ RecvOne \/ PeerDown PROVE OwnerStep
<1> DEFINE g == m_parts["got"]
           H == Holdings
<1>1. /\ "got" \in Objs /\ g \in Seq(Frames) /\ copied' = copied /\ made' = made
  BY DEF Typed, Objs, CallRecv, RecvOne, PeerDown, history
<1>2. /\ H \in [Objs \cup {"wire"} -> Seq(Frames)] /\ DOMAIN H = Objs \cup {"wire"}
      /\ H["got"] = g /\ H["wire"] = WireFrames /\ "got" # "wire"
  BY <1>1, HoldingsType
<1>3. \A f, s : Fewer(<< >>, s, f)
  BY DEF Fewer, Has, OnceIn
<1>4. CASE CallRecv
  <2>1. m_parts' = [m_parts EXCEPT !["got"] = << >>] /\ wire' = wire
    BY <1>4 DEF CallRecv
  <2>2. Changed(H, "got", << >>, H')
    BY <1>1, <2>1, WriteParts
  <2>3. \A f \in Frames : Keeps(H, H', f)
    BY <1>1, <1>2, <1>3, <2>2, Drop
  <2>4. QED
    BY <1>1, <2>3, KeepsAll
<1>5. CASE PeerDown
  <2>1. m_parts' = m_parts /\ wire' = << >>
    BY <1>5 DEF PeerDown
  <2>2. WireFrames' = << >>
    BY <2>1 DEF WireFrames
  <2>3. Changed(H, "wire", << >>, H')
    BY <2>1, <2>2, WriteWire
  <2>4. \A f \in Frames : Keeps(H, H', f)
    BY <1>1, <1>2, <1>3, <2>3, Drop
  <2>5. QED
    BY <1>1, <2>4, KeepsAll
<1>6. CASE RecvOne
  <2> DEFINE x == Head(wire).frame
             e == [H EXCEPT !["wire"] = WireFrames']
             u == add(g, x)
  <2>1. wire # << >> /\ wire' = Tail(wire) /\ m_parts' = [m_parts EXCEPT !["got"] = u]
    BY <1>6 DEF RecvOne, Readable, Whole
  <2>2. /\ WireFrames # << >> /\ front(WireFrames) = x /\ x \in Frames
        /\ WireFrames' = pop(WireFrames) /\ WireFrames \in Seq(Frames)
    BY <1>2, <2>1, WireEnds
  <2>3. Changed(H, "wire", WireFrames', e) /\ e["got"] = g
    BY <1>1, <1>2 DEF Changed
  <2>4. Without(WireFrames', H["wire"], x)
    BY <1>2, <2>2, OneLess
  <2>5. Changed(e, "got", u, H')
    BY <1>1, <1>2, <2>1 DEF Changed, Holdings, Parts, Typed, Objs, Own
  <2>6. With(u, e["got"], x)
    BY <1>1, <2>2, <2>3, OneMore
  <2> HIDE DEF e, u, x
  <2>7. \A f \in Frames : Keeps(H, H', f)
    BY <1>1, <1>2, <2>2, <2>3, <2>4, <2>5, <2>6, PassOn
  <2>8. QED
    BY <1>1, <2>7, KeepsAll
<1>7. QED
  BY <1>4, <1>5, <1>6

\* A step that touches no object and not the pipe.
LEMMA NoOwners ==
    ASSUME Typed, UNCHANGED <<m_parts, wire, made, copied>> PROVE OwnerStep
<1>1. Holdings' = Holdings
  BY DEF Holdings, Parts, WireFrames
<1>2. \A f \in Frames : Keeps(Holdings, Holdings', f)
  BY <1>1 DEF Keeps
<1>3. QED
  BY <1>2, KeepsAll

\* Every step is one that keeps the owners apart.
LEMMA NextOwners == ASSUME Typed, [Next]_vars PROVE OwnerStep
<1>1. CASE UNCHANGED vars
  BY <1>1, NoOwners DEF vars, pipeVars, history
<1>2. CASE Calls
  <2>1. ASSUME NEW o \in Own, Make(o) \/ Take(o) \/ Clear(o) PROVE OwnerStep
    BY <2>1, OneStepOwners
  <2>2. ASSUME NEW o \in Own, NEW from \in Own, Move(o, from) PROVE OwnerStep
    BY <2>2, MoveOwners
  <2>3. ASSUME NEW o \in Own, NEW from \in Own,
               CallAppend(o, from) \/ CallPrepend(o, from) \/ CallClone \/ CallSend
        PROVE  OwnerStep
    BY <2>3, NoOwners DEF CallAppend, CallPrepend, CallClone, CallSend, Call, pipeVars
  <2>4. "msg" \in Own
    BY DEF Own
  <2>5. QED
    BY <1>2, <2>1, <2>2, <2>3, <2>4 DEF Calls
<1>3. CASE ConcatReturn \/ CloneReturn \/ SendReturn \/ RecvFails \/ PeerUp
  BY <1>3, NoOwners DEF ConcatReturn, CloneReturn, SendReturn, RecvFails, PeerUp,
                        pipeVars, history
<1>4. CASE Step
  BY <1>3, <1>4, ConcatOwners, CloneOwners, SendOwners DEF Step
<1>5. QED
  BY <1>1, <1>2, <1>3, <1>4, SendOwners, PeerOwners DEF Next

\* A frame that was not cloned is in one place or in none, and one that is not
\* made yet in none.
OwnerInv ==
    \A f \in Frames : /\ f \notin copied => Alone(Holdings, f)
                      /\ f > made => Absent(Holdings, f)

\* Before the first call there are no frames.
LEMMA InitOwners == Init => OwnerInv
<1> SUFFICES ASSUME Init, NEW o \in DOMAIN Holdings PROVE Holdings[o] = << >>
  BY DEF OwnerInv, Alone, Absent, Has, OnceIn
<1>1. WireFrames = << >>
  BY DEF Init, WireFrames
<1>2. QED
  BY <1>1 DEF Init, Holdings, Parts

\* Every way in which frames are made, moved and dropped keeps one owner each.
LEMMA OwnerStepInv == ASSUME Typed, Typed', OwnerInv, OwnerStep PROVE OwnerInv'
<1> SUFFICES ASSUME NEW f \in Frames
             PROVE  /\ f \notin copied' => Alone(Holdings', f)
                    /\ f > made' => Absent(Holdings', f)
  BY DEF OwnerInv
<1>1. f \in Int /\ made \in Int /\ made' \in Int
  BY DEF Frames, Typed
<1>2. (f \notin copied => Alone(Holdings, f)) /\ (f > made => Absent(Holdings, f))
  BY DEF OwnerInv
<1>3. made <= made' /\ (f \notin copied' => f \notin copied)
  BY DEF OwnerStep
<1>4. f > made' => f > made
  BY <1>1, <1>3
<1>5. QED
  BY <1>2, <1>3, <1>4 DEF OwnerStep

\* A frame that is alone is in one place.
LEMMA AloneInOnePlace == ASSUME Typed, OwnerInv PROVE OneOwner
<1> SUFFICES ASSUME NEW o \in DOMAIN Holdings, NEW p \in DOMAIN Holdings,
                    NEW i \in DOMAIN Holdings[o], NEW j \in DOMAIN Holdings[p],
                    Holdings[o][i] = Holdings[p][j], Holdings[o][i] \notin copied
             PROVE  o = p /\ i = j
  BY DEF OneOwner
<1> DEFINE f == Holdings[o][i]
<1>1. f \in Frames
  <2>1. Holdings[o] \in Seq(Frames)
    BY HoldingsType
  <2>2. QED
    BY <2>1
<1>2. Alone(Holdings, f)
  BY <1>1 DEF OwnerInv
<1>3. o = p
  BY <1>2 DEF Alone, Has
<1>4. QED
  BY <1>2, <1>3 DEF Alone, OnceIn

\* Whatever is moved, joined, cloned, sent, refused or dropped, a frame that
\* was not cloned has one owner: no two objects, and no object and the pipe,
\* would free it.
THEOREM OwnersUnique == Spec => []OneOwner
<1>1. Inv /\ OwnerInv /\ [Next]_vars => OwnerInv'
  <2> SUFFICES ASSUME Inv, OwnerInv, [Next]_vars PROVE OwnerInv'
    OBVIOUS
  <2>1. Typed /\ Typed'
    BY NextInv DEF Inv
  <2>2. QED
    BY <2>1, NextOwners, OwnerStepInv
<1>2. Inv /\ OwnerInv => OneOwner
  BY AloneInOnePlace DEF Inv
<1>3. QED
  BY <1>1, <1>2, InitOwners, MessagesCorrect, PTL DEF Spec


-----------------------------------------------------------------------------
(* What the peer receives.  Every frame in the pipe and in "got" has a place, *)
(* and the places of neighbours fit: the invariant says how, from the frames  *)
(* that were read through the pipe to the one that is to be sent next.        *)

Msg == Parts("msg")
Got == Parts("got")

Reading == reading = "running" /\ came # << >>
Sending == Running("send") /\ Msg # << >>

Placed ==
    /\ reading \in {"idle", "running", "failed"}
    /\ sends \in Seq(Seq(Frames))
    /\ failed \subseteq Place /\ lost \subseteq Place
    /\ sent \in Seq(Place) /\ Len(sent) = Len(wire)
    /\ came \in Seq(Place) /\ Len(came) = Len(Got)

\* Frame f stood at p in a message that was sent.
Stood(p, f) ==
    /\ p.send \in 1 .. Len(sends)
    /\ p.at \in 1 .. Len(sends[p.send])
    /\ FrameAt(p) = f

\* What may stand after the i-th frame in the pipe, and at the front of it.
MayFollow(i, q) == IF wire[i].more THEN MayCome(sent[i], q) ELSE q.at = 1
MayEnter(q)     == IF Reading THEN MayCome(came[Len(came)], q) ELSE MayStart(q)

InPipe ==
    /\ \A i \in 1 .. Len(wire) :
          /\ Stood(sent[i], wire[i].frame)
          /\ ~ wire[i].more => MayEnd(sent[i])
    /\ \A i \in 1 .. Len(wire) - 1 : MayFollow(i, sent[i + 1])
    /\ wire # << >> => MayEnter(sent[1])
    /\ wire = << >> => ~ Reading

\* The frames that are to be sent are the rest of the message, and the next one
\* fits the end of the pipe.  Between two sends the pipe is open only where one
\* failed.
AtSender ==
    IF Sending
    THEN /\ sends # << >>
         /\ Len(Msg) <= Len(sends[Len(sends)])
         /\ \A i \in 1 .. Len(Msg) :
               Msg[i] = sends[Len(sends)][Len(sends[Len(sends)]) - Len(Msg) + i]
         /\ IF wire = << >> THEN MayStart(NextPlace) ELSE MayFollow(Len(wire), NextPlace)
    ELSE MidMessage => \E r \in failed : Follows(sent[Len(wire)], r)

AtReceiver ==
    /\ \A i \in 1 .. Len(came) : Stood(came[i], Got[i])
    /\ came # << >> => MayStart(came[1])
    /\ \A i \in 1 .. Len(came) - 1 : MayCome(came[i], came[i + 1])
    /\ reading = "idle" /\ came # << >> => MayEnd(came[Len(came)])

StreamInv == Placed /\ InPipe /\ AtSender /\ AtReceiver

\* The histories only grow, and what they allow stays allowed.
LEMMA StillMay ==
    ASSUME failed \subseteq failed', lost \subseteq lost'
    PROVE  \A p, q : /\ MayStart(q) => MayStart(q)'
                     /\ MayCome(p, q) => MayCome(p, q)'
  BY DEF MayStart, MayCome, Follows

\* A place stays what it is when another message is sent.
LEMMA StillStood ==
    ASSUME sends \in Seq(Seq(Frames)), NEW m \in Seq(Frames), sends' = Append(sends, m)
    PROVE  /\ Len(sends') = Len(sends) + 1 /\ sends'[Len(sends) + 1] = m
           /\ sends' \in Seq(Seq(Frames))
           /\ \A p, f : Stood(p, f) => Stood(p, f)' /\ (MayEnd(p) => MayEnd(p)')
<1>1. /\ Len(sends) \in Nat /\ Len(sends') = Len(sends) + 1
      /\ sends'[Len(sends) + 1] = m /\ sends' \in Seq(Seq(Frames))
      /\ \A k \in 1 .. Len(sends) : sends'[k] = sends[k]
  BY AppendProperties
<1>2. ASSUME NEW p, NEW f, Stood(p, f)
      PROVE  Stood(p, f)' /\ (MayEnd(p) => MayEnd(p)')
  <2>1. p.send \in 1 .. Len(sends) /\ p.send \in 1 .. Len(sends')
    BY <1>1, <1>2 DEF Stood
  <2>2. sends'[p.send] = sends[p.send]
    BY <1>1, <2>1
  <2>3. QED
    BY <1>2, <2>1, <2>2 DEF Stood, FrameAt, MayEnd
<1>3. QED
  BY <1>1, <1>2

\* The next place is a place, and the frame there is the first that is left.
LEMMA NextStood ==
    ASSUME Typed, StreamInv, Sending
    PROVE  /\ NextPlace \in Place /\ Stood(NextPlace, front(Msg))
           /\ NextPlace.send = Len(sends)
           /\ NextPlace.at = Len(sends[Len(sends)]) - Len(Msg) + 1
           /\ Msg \in Seq(Frames) /\ Len(Msg) \in Nat /\ Len(Msg) > 0
           /\ sends[Len(sends)] \in Seq(Frames)
<1> DEFINE n == Len(sends)
           k == Len(sends[n])
           p == NextPlace
<1>1. Msg \in Seq(Frames) /\ Len(Msg) \in Nat /\ Len(Msg) > 0
  BY DEF Typed, Msg, Parts, Objs, Own, Sending
<1>2. n \in Nat /\ n > 0 /\ sends[n] \in Seq(Frames) /\ k \in Nat
  BY DEF StreamInv, Placed, AtSender
<1>3. Len(Msg) <= k /\ Msg[1] = sends[n][k - Len(Msg) + 1]
  BY <1>1 DEF StreamInv, AtSender
<1>4. p.send = n /\ p.at = k - Len(Msg) + 1 /\ p = [send |-> p.send, at |-> p.at]
  BY DEF NextPlace, Msg, size
<1>5. p.at \in 1 .. k /\ p.send \in 1 .. n
  BY <1>1, <1>2, <1>3, <1>4
<1> HIDE DEF n, k, p
<1>6. p \in Place
  BY <1>4, <1>5, <1>2 DEF Place
<1>7. Stood(p, front(Msg))
  BY <1>2, <1>3, <1>4, <1>5 DEF Stood, FrameAt, front, n, k
<1>8. QED
  BY <1>1, <1>2, <1>4, <1>6, <1>7 DEF n, k, p

\* A step that touches neither the pipe nor the peer, before and after which no
\* frame is to be sent.
LEMMA AwayFromPipe ==
    ASSUME StreamInv, UNCHANGED <<reading, wire, places>>,
           m_parts'["got"] = m_parts["got"], ~ Sending, ~ Sending'
    PROVE  StreamInv'
<1>1. UNCHANGED <<reading, wire, sends, failed, sent, came, lost, Got>>
  BY DEF places, Got, Parts
<1>2. Placed' /\ AtReceiver'
  BY <1>1 DEF StreamInv, Placed, AtReceiver, Stood, FrameAt, MayStart, MayCome, MayEnd
<1>3. InPipe'
  BY <1>1 DEF StreamInv, InPipe, Stood, FrameAt, MayFollow, MayEnter, MayStart, MayCome,
              MayEnd, Reading
<1>4. AtSender'
  BY <1>1 DEF StreamInv, AtSender, MidMessage
<1>5. QED
  BY <1>2, <1>3, <1>4 DEF StreamInv

\* A send begins with its first frame, which may follow what a failed send left.
LEMMA CallSendStream == ASSUME Typed, StreamInv, CallSend PROVE StreamInv'
<1>1. /\ UNCHANGED <<m_parts, reading, wire, failed, sent, came, lost>>
      /\ call.fn = "none" /\ call'.fn = "send" /\ Msg' = Msg /\ Got' = Got
      /\ sends' = IF Msg = << >> THEN sends ELSE Append(sends, Msg)
  BY DEF CallSend, Call, pipeVars, Running, Msg, Got, Parts, empty
<1>2. ~ Sending /\ Msg \in Seq(Frames) /\ Len(sends) \in Nat
  BY <1>1 DEF Sending, Running, Typed, Msg, Parts, Objs, Own, StreamInv, Placed
<1>3. CASE Msg = << >>
  <2>1. ~ Sending' /\ UNCHANGED <<reading, wire, places>> /\ m_parts'["got"] = m_parts["got"]
    BY <1>1, <1>3 DEF Sending, places
  <2>2. QED
    BY <1>2, <2>1, AwayFromPipe
<1>4. CASE Msg # << >>
  <2> DEFINE n == Len(sends)
  <2>1. /\ Len(sends') = n + 1 /\ sends'[n + 1] = Msg /\ sends' \in Seq(Seq(Frames))
        /\ \A p, f : Stood(p, f) => Stood(p, f)' /\ (MayEnd(p) => MayEnd(p)')
    <3>1. sends \in Seq(Seq(Frames)) /\ sends' = Append(sends, Msg)
      BY <1>1, <1>4 DEF StreamInv, Placed
    <3>2. QED
      BY <1>2, <3>1, StillStood
  <2>2. \A p, q : MayStart(q)' = MayStart(q) /\ MayCome(p, q)' = MayCome(p, q)
    BY <1>1 DEF MayStart, MayCome, Follows
  <2>3. Placed'
    BY <1>1, <2>1 DEF StreamInv, Placed
  <2>4. AtReceiver'
    BY <1>1, <2>1, <2>2 DEF StreamInv, AtReceiver
  <2>5. InPipe'
    BY <1>1, <2>1, <2>2 DEF StreamInv, InPipe, MayFollow, MayEnter, Reading
  <2>6. Sending' /\ NextPlace'.send = n + 1 /\ NextPlace'.at = 1
    <3>1. Len(Msg) \in Nat
      BY <1>2
    <3>2. Sending' /\ NextPlace'.send = n + 1 /\ NextPlace'.at = Len(Msg) - Len(Msg) + 1
      BY <1>1, <1>4, <2>1 DEF Sending, Running, NextPlace, Msg, Parts, size
    <3>3. QED
      BY <3>1, <3>2
  <2>7. wire # << >> => MayFollow(Len(wire), NextPlace)'
    <3> SUFFICES ASSUME wire # << >>, wire[Len(wire)].more
                 PROVE  MayCome(sent[Len(wire)], NextPlace)'
      BY <1>1, <2>6 DEF MayFollow
    <3>1. PICK r \in failed : Follows(sent[Len(wire)], r)
      BY <1>2 DEF StreamInv, AtSender, MidMessage
    <3>2. Len(wire) \in 1 .. Len(wire)
      BY DEF Typed
    <3>3. sent[Len(wire)].send \in 1 .. n
      BY <3>2 DEF StreamInv, InPipe, Stood
    <3>4. sent[Len(wire)].send < n + 1
      BY <1>2, <3>3
    <3>5. QED
      BY <1>1, <2>6, <3>1, <3>4 DEF MayCome, Follows
  <2>8. AtSender'
    <3>1. Len(Msg') <= Len(sends'[Len(sends')]) /\ sends' # << >>
      <4>1. Len(sends') # 0 /\ Len(Msg) <= Len(Msg)
        BY <1>2, <2>1
      <4>2. sends' # << >>
        BY <4>1
      <4>3. QED
        BY <1>1, <2>1, <4>1, <4>2
    <3>2. \A i \in 1 .. Len(Msg') :
             Msg'[i] = sends'[Len(sends')][Len(sends'[Len(sends')]) - Len(Msg') + i]
      <4>1. Len(Msg) \in Nat /\ \A i \in 1 .. Len(Msg) : Len(Msg) - Len(Msg) + i = i
        BY <1>2
      <4>2. QED
        BY <1>1, <2>1, <4>1
    <3>3. MayStart(NextPlace)'
      BY <2>6 DEF MayStart
    <3>4. QED
      BY <1>1, <2>6, <2>7, <3>1, <3>2, <3>3 DEF AtSender
  <2>9. QED
    BY <2>3, <2>4, <2>5, <2>8 DEF StreamInv
<1>5. QED
  BY <1>3, <1>4

\* A frame that is sent stands at the end of the pipe, and the next one after it.
LEMMA SendOneStream == ASSUME Typed, StreamInv, SendOne PROVE StreamInv'
<1> DEFINE n == Len(wire)
           k == Len(sends[Len(sends)])
           q == NextPlace
           b == size(pop(Msg)) > 0
           last == [frame |-> front(Msg), more |-> b]
<1>1. /\ UNCHANGED <<call, reading, sends, failed, came, lost>> /\ Sending
      /\ wire' = Append(wire, last) /\ sent' = Append(sent, q)
      /\ m_parts' = [m_parts EXCEPT !["msg"] = pop(Msg)]
  BY DEF SendOne, Sending, Msg, Parts, empty
<1>2. Msg' = pop(Msg) /\ Got' = Got
  BY <1>1 DEF Typed, Msg, Got, Parts, Objs, Own
<1>3. /\ q \in Place /\ Stood(q, front(Msg)) /\ q.send = Len(sends)
      /\ q.at = k - Len(Msg) + 1 /\ Msg \in Seq(Frames) /\ Len(Msg) \in Nat /\ Len(Msg) > 0
      /\ k \in Nat
  BY <1>1, NextStood
<1>4. /\ pop(Msg) \in Seq(Frames) /\ front(Msg) \in Frames
      /\ Len(pop(Msg)) = Len(Msg) - 1
      /\ \A i \in 1 .. Len(Msg) - 1 : pop(Msg)[i] = Msg[i + 1]
  BY <1>3, Ends
<1>5. b \in BOOLEAN /\ (b <=> Len(Msg) > 1) /\ last.frame = front(Msg) /\ last.more = b
  BY <1>3, <1>4 DEF size
<1>6. last \in Wire
  BY <1>4, <1>5 DEF Wire
<1> HIDE DEF last, q, b
<1>7. /\ n \in Nat /\ Len(wire') = n + 1 /\ wire'[n + 1] = last
      /\ \A i \in 1 .. n : wire'[i] = wire[i]
  BY <1>1, <1>6, AppendProperties DEF Typed
<1>8. /\ Len(sent') = n + 1 /\ sent'[n + 1] = q /\ sent' \in Seq(Place)
      /\ \A i \in 1 .. n : sent'[i] = sent[i]
  BY <1>1, <1>3, AppendProperties DEF StreamInv, Placed
<1>9. \A x, y, f : /\ MayStart(y)' = MayStart(y) /\ MayCome(x, y)' = MayCome(x, y)
                   /\ Stood(x, f)' = Stood(x, f) /\ MayEnd(x)' = MayEnd(x)
                   /\ (y.at = 1)' = (y.at = 1)
  BY <1>1 DEF MayStart, MayCome, Follows, Stood, FrameAt, MayEnd
<1>10. Placed'
  BY <1>1, <1>2, <1>7, <1>8 DEF StreamInv, Placed
<1>11. AtReceiver'
  BY <1>1, <1>2, <1>9 DEF StreamInv, AtReceiver
<1>12. wire = << >> => MayStart(q)
  BY <1>1 DEF StreamInv, AtSender, q
<1>13. wire # << >> => MayFollow(n, q)
  BY <1>1 DEF StreamInv, AtSender, q
<1>14. ~ b => MayEnd(q)
  BY <1>3, <1>5 DEF MayEnd, size
<1>15. InPipe'
  <2>1. ASSUME NEW i \in 1 .. n + 1
        PROVE  (Stood(sent[i], wire[i].frame) /\ (~ wire[i].more => MayEnd(sent[i])))'
    <3>1. CASE i = n + 1
      BY <1>3, <1>5, <1>7, <1>8, <1>9, <1>14, <3>1
    <3>2. CASE i # n + 1
      <4>1. i \in 1 .. n
        BY <1>7, <3>2
      <4>2. QED
        BY <1>7, <1>8, <1>9, <4>1 DEF StreamInv, InPipe
    <3>3. QED
      BY <3>1, <3>2
  <2>2. ASSUME NEW i \in 1 .. n PROVE MayFollow(i, sent[i + 1])'
    <3>1. wire'[i] = wire[i] /\ sent'[i] = sent[i]
      BY <1>7, <1>8
    <3>2. CASE i = n
      <4>1. sent'[i + 1] = q /\ wire # << >>
        BY <1>7, <1>8, <3>2
      <4>2. QED
        BY <1>9, <1>13, <3>1, <3>2, <4>1 DEF MayFollow
    <3>3. CASE i # n
      <4>1. i \in 1 .. n - 1 /\ i + 1 \in 1 .. n
        BY <1>7, <3>3
      <4>2. MayFollow(i, sent[i + 1]) /\ sent'[i + 1] = sent[i + 1]
        BY <1>8, <4>1 DEF StreamInv, InPipe
      <4>3. QED
        BY <1>9, <3>1, <4>2 DEF MayFollow
    <3>4. QED
      BY <3>2, <3>3
  <2>3. MayEnter(sent[1])'
    <3>1. CASE wire = << >>
      <4>1. n = 0 /\ sent'[1] = q /\ ~ Reading /\ ~ Reading'
        BY <1>1, <1>8, <3>1 DEF StreamInv, InPipe, Reading
      <4>2. QED
        BY <1>9, <1>12, <3>1, <4>1 DEF MayEnter
    <3>2. CASE wire # << >>
      <4>1. n > 0
        BY <1>7, <3>2, EmptySeq DEF Typed
      <4>2. sent'[1] = sent[1] /\ MayEnter(sent[1])
        BY <1>7, <1>8, <3>2, <4>1 DEF StreamInv, InPipe
      <4>3. QED
        BY <1>1, <1>9, <4>2 DEF MayEnter, Reading
    <3>3. QED
      BY <3>1, <3>2
  <2>4. wire' # << >>
    BY <1>7
  <2>5. n + 1 - 1 = n
    BY <1>7
  <2>6. QED
    BY <1>7, <2>1, <2>2, <2>3, <2>4, <2>5 DEF InPipe
<1>16. AtSender'
  <2>1. wire' # << >>
    BY <1>7
  <2>2. CASE b
    <3>1. Len(Msg') = Len(Msg) - 1 /\ Len(Msg') > 0 /\ Msg' # << >>
      BY <1>2, <1>3, <1>4, <1>5, <2>2
    <3>2. Sending' /\ sends' # << >>
      BY <1>1, <3>1 DEF Sending, Running, StreamInv, AtSender
    <3>3. /\ NextPlace'.send = Len(sends) /\ NextPlace'.at = k - Len(Msg') + 1
      BY <1>1 DEF NextPlace, Msg, size
    <3>4. Follows(q, NextPlace')
      BY <1>3, <3>1, <3>3 DEF Follows
    <3>5. MayFollow(Len(wire), NextPlace)'
      <4>1. wire'[Len(wire')].more /\ sent'[Len(wire')] = q
        BY <1>5, <1>7, <1>8, <2>2
      <4>2. Follows(sent[Len(wire)], NextPlace)'
        BY <3>4, <4>1 DEF Follows
      <4>3. QED
        BY <4>1, <4>2 DEF MayFollow, MayCome
    <3>6. Len(Msg) <= k /\ \A i \in 1 .. Len(Msg) :
             Msg[i] = sends[Len(sends)][k - Len(Msg) + i]
      BY <1>1 DEF StreamInv, AtSender
    <3>7. Len(Msg') <= k
      BY <1>3, <3>1, <3>6
    <3>8. \A i \in 1 .. Len(Msg') : Msg'[i] = sends[Len(sends)][k - Len(Msg') + i]
      <4>1. \A x, y \in Nat : \A i \in 1 .. x - 1 :
               i + 1 \in 1 .. x /\ y - x + (i + 1) = y - (x - 1) + i
        OBVIOUS
      <4>2. \A i \in 1 .. Len(Msg) - 1 :
               /\ i + 1 \in 1 .. Len(Msg)
               /\ k - Len(Msg) + (i + 1) = k - (Len(Msg) - 1) + i
        BY <1>3, <4>1
      <4>3. QED
        BY <1>2, <1>4, <3>1, <3>6, <4>2
    <3>9. Len(sends'[Len(sends')]) = k /\ sends' = sends
      BY <1>1
    <3>10. QED
      BY <2>1, <3>2, <3>5, <3>7, <3>8, <3>9 DEF AtSender
  <2>3. CASE ~ b
    <3>1. Len(Msg') = 0 /\ Msg' \in Seq(Frames)
      BY <1>2, <1>3, <1>4, <1>5, <2>3
    <3>2. ~ Sending'
      BY <3>1 DEF Sending
    <3>3. ~ MidMessage'
      BY <1>5, <1>7, <2>3 DEF MidMessage
    <3>4. QED
      BY <3>2, <3>3 DEF AtSender
  <2>4. QED
    BY <2>2, <2>3
<1>17. QED
  BY <1>10, <1>11, <1>15, <1>16 DEF StreamInv

\* A send that fails leaves its place behind: there the pipe may stay open.
LEMMA SendFailsStream == ASSUME Typed, StreamInv, SendFails PROVE StreamInv'
<1>1. /\ UNCHANGED <<reading, wire, sends, sent, came, lost>>
      /\ Sending /\ ~ Sending' /\ failed' = failed \cup {NextPlace}
      /\ m_parts' = [m_parts EXCEPT !["msg"] = pop(Msg)]
  BY DEF SendFails, Return, Idle, Sending, Running, Msg, Parts, empty, pipeVars
<1>2. Got' = Got
  BY <1>1 DEF Typed, Got, Parts, Objs, Own
<1>3. NextPlace \in Place
  BY <1>1, NextStood
<1>4. \A p, q, f : /\ MayStart(q) => MayStart(q)'
                   /\ MayCome(p, q) => MayCome(p, q)'
                   /\ Stood(p, f)' = Stood(p, f) /\ MayEnd(p)' = MayEnd(p)
  BY <1>1, StillMay DEF Stood, FrameAt, MayEnd
<1>5. Placed'
  BY <1>1, <1>2, <1>3 DEF StreamInv, Placed
<1>6. AtReceiver'
  BY <1>1, <1>2, <1>4 DEF StreamInv, AtReceiver
<1>7. InPipe'
  BY <1>1, <1>4 DEF StreamInv, InPipe, MayFollow, MayEnter, Reading
<1>8. ASSUME MidMessage
      PROVE  \E r \in failed' : Follows(sent[Len(wire)], r)
  <2>1. MayCome(sent[Len(wire)], NextPlace)
    BY <1>1, <1>8 DEF StreamInv, AtSender, MidMessage, MayFollow
  <2>2. QED
    BY <1>1, <2>1 DEF MayCome
<1>9. AtSender'
  BY <1>1, <1>8 DEF AtSender, MidMessage, Follows
<1>10. QED
  BY <1>5, <1>6, <1>7, <1>9 DEF StreamInv

\* recv drops what the object held; the front of the pipe is a start already, or
\* is one now that the last recv failed.
LEMMA CallRecvStream == ASSUME Typed, StreamInv, CallRecv PROVE StreamInv'
<1>1. /\ UNCHANGED <<call, wire, sends, failed, sent, lost>> /\ came' = << >>
      /\ reading' = "running" /\ ~ Reading /\ ~ Reading'
      /\ m_parts' = [m_parts EXCEPT !["got"] = << >>]
  BY DEF CallRecv, Reading
<1>2. Msg' = Msg /\ Got' = << >> /\ Len(<< >>) = 0
  BY <1>1 DEF Typed, Msg, Got, Parts, Objs, Own
<1>3. /\ NextPlace' = NextPlace /\ Sending' = Sending
      /\ \A p, q, f : /\ MayStart(q)' = MayStart(q) /\ MayCome(p, q)' = MayCome(p, q)
                      /\ Stood(p, f)' = Stood(p, f) /\ MayEnd(p)' = MayEnd(p)
  BY <1>1, <1>2 DEF Stood, FrameAt, MayEnd, MayStart, MayCome, Follows, NextPlace, Msg,
                    Sending, Running
<1>4. Placed'
  BY <1>1, <1>2 DEF StreamInv, Placed
<1>5. AtReceiver'
  BY <1>1, <1>2 DEF AtReceiver
<1>6. InPipe'
  BY <1>1, <1>3 DEF StreamInv, InPipe, MayFollow, MayEnter
<1>7. AtSender'
  BY <1>1, <1>2, <1>3 DEF StreamInv, AtSender, MayFollow, MidMessage, Follows
<1>8. QED
  BY <1>4, <1>5, <1>6, <1>7 DEF StreamInv

\* A recv that fails loses its frames; what follows them may now come first.
LEMMA RecvFailsStream == ASSUME Typed, StreamInv, RecvFails PROVE StreamInv'
<1>1. /\ UNCHANGED <<m_parts, call, wire, sends, failed, sent, came>>
      /\ reading = "running" /\ reading' = "failed" /\ ~ Reading'
      /\ lost' = IF came = << >> THEN lost ELSE lost \cup {came[Len(came)]}
  BY DEF RecvFails, Reading
<1>2. came \in Seq(Place) /\ (came # << >> => came[Len(came)] \in Place)
  BY DEF StreamInv, Placed
<1>3. /\ Msg' = Msg /\ Got' = Got /\ NextPlace' = NextPlace /\ Sending' = Sending
      /\ lost \subseteq lost' /\ lost' \subseteq Place
  BY <1>1, <1>2 DEF Msg, Got, Parts, NextPlace, Sending, Running, StreamInv, Placed
<1>4. \A p, q, f : /\ MayStart(q) => MayStart(q)'
                   /\ MayCome(p, q)' = MayCome(p, q)
                   /\ Stood(p, f)' = Stood(p, f) /\ MayEnd(p)' = MayEnd(p)
  BY <1>1, <1>3 DEF Stood, FrameAt, MayEnd, MayStart, MayCome, Follows
<1>5. Placed'
  BY <1>1, <1>3 DEF StreamInv, Placed
<1>6. AtReceiver'
  BY <1>1, <1>3, <1>4 DEF StreamInv, AtReceiver
<1>7. ASSUME wire # << >> PROVE MayStart(sent[1])'
  <2>1. MayEnter(sent[1])
    BY <1>7 DEF StreamInv, InPipe
  <2>2. CASE came = << >>
    BY <1>1, <1>4, <2>1, <2>2 DEF MayEnter, Reading
  <2>3. CASE came # << >>
    BY <1>1, <2>1, <2>3 DEF MayEnter, Reading, MayCome, MayStart
  <2>4. QED
    BY <2>2, <2>3
<1>8. InPipe'
  BY <1>1, <1>4, <1>7 DEF StreamInv, InPipe, MayFollow, MayEnter
<1>9. AtSender'
  BY <1>1, <1>3, <1>4 DEF StreamInv, AtSender, MayFollow, MidMessage, Follows
<1>10. QED
  BY <1>5, <1>6, <1>8, <1>9 DEF StreamInv

\* With the peer the pipe goes, and what follows its end may come first.
LEMMA PeerDownStream == ASSUME Typed, StreamInv, PeerDown PROVE StreamInv'
<1>1. /\ UNCHANGED <<m_parts, call, reading, sends, failed, came>>
      /\ ~ Reading /\ ~ Reading' /\ wire' = << >> /\ sent' = << >>
      /\ lost' = IF MidMessage THEN lost \cup {sent[Len(sent)]} ELSE lost
  BY DEF PeerDown, Reading
<1>2. MidMessage => sent[Len(sent)] \in Place
  BY DEF StreamInv, Placed, MidMessage, Typed
<1>3. /\ Msg' = Msg /\ Got' = Got /\ NextPlace' = NextPlace /\ Sending' = Sending
      /\ lost \subseteq lost' /\ lost' \subseteq Place
  BY <1>1, <1>2 DEF Msg, Got, Parts, NextPlace, Sending, Running, StreamInv, Placed
<1>4. \A p, q, f : /\ MayStart(q) => MayStart(q)'
                   /\ MayCome(p, q)' = MayCome(p, q)
                   /\ Stood(p, f)' = Stood(p, f) /\ MayEnd(p)' = MayEnd(p)
  BY <1>1, <1>3 DEF Stood, FrameAt, MayEnd, MayStart, MayCome, Follows
<1>5. Placed'
  <2>1. << >> \in Seq(Place) /\ Len(<< >>) = 0
    OBVIOUS
  <2>2. QED
    BY <1>1, <1>3, <2>1 DEF StreamInv, Placed
<1>6. AtReceiver'
  BY <1>1, <1>3, <1>4 DEF StreamInv, AtReceiver
<1>7. InPipe'
  <2>1. Len(<< >>) = 0
    OBVIOUS
  <2>2. QED
    BY <1>1, <2>1 DEF InPipe
<1>8. ASSUME Sending PROVE MayStart(NextPlace)'
  <2>1. CASE wire = << >>
    BY <1>3, <1>4, <1>8, <2>1 DEF StreamInv, AtSender
  <2>2. CASE wire # << >> /\ ~ wire[Len(wire)].more
    BY <1>3, <1>8, <2>2 DEF StreamInv, AtSender, MayFollow, MayStart
  <2>3. CASE wire # << >> /\ wire[Len(wire)].more
    <3>1. MayCome(sent[Len(wire)], NextPlace) /\ Len(sent) = Len(wire)
      BY <1>8, <2>3 DEF StreamInv, Placed, AtSender, MayFollow
    <3>2. sent[Len(wire)] \in lost'
      BY <1>1, <2>3, <3>1 DEF MidMessage
    <3>3. QED
      BY <1>3, <3>1, <3>2 DEF MayCome, MayStart
  <2>4. QED
    BY <2>1, <2>2, <2>3
<1>9. AtSender'
  BY <1>1, <1>3, <1>8 DEF StreamInv, AtSender, MidMessage
<1>10. QED
  BY <1>5, <1>6, <1>7, <1>9 DEF StreamInv

\* A frame that is read goes from the front of the pipe to the end of "got".
LEMMA RecvOneStream == ASSUME Typed, StreamInv, RecvOne PROVE StreamInv'
<1> DEFINE n == Len(wire)
           k == Len(came)
           h == Head(wire)
           d == Head(sent)
<1>1. /\ UNCHANGED <<call, sends, failed, lost>>
      /\ reading = "running" /\ Readable
      /\ m_parts' = [m_parts EXCEPT !["got"] = Append(Got, h.frame)]
      /\ came' = Append(came, d) /\ wire' = Tail(wire) /\ sent' = Tail(sent)
      /\ reading' = IF h.more THEN "running" ELSE "idle"
  BY DEF RecvOne, add, addstr, Got, Parts
<1>2. PICK w \in 1 .. n : ~ wire[w].more
  BY <1>1 DEF Readable, Whole
<1>3. /\ wire \in Seq(Wire) /\ wire # << >> /\ n \in Nat /\ n > 0
      /\ sent \in Seq(Place) /\ Len(sent) = n /\ sent # << >>
      /\ came \in Seq(Place) /\ k \in Nat /\ Len(Got) = k /\ Got \in Seq(Frames)
  <2>1. wire \in Seq(Wire) /\ n \in Nat /\ n > 0
    BY <1>2 DEF Typed
  <2>2. sent \in Seq(Place) /\ Len(sent) = n /\ came \in Seq(Place) /\ Len(Got) = k
    BY DEF StreamInv, Placed
  <2>3. Got \in Seq(Frames)
    BY DEF Typed, Got, Parts, Objs
  <2>4. QED
    BY <2>1, <2>2, <2>3
<1>4. /\ h = wire[1] /\ d = sent[1] /\ d \in Place /\ h \in Wire
      /\ Len(wire') = n - 1 /\ Len(sent') = n - 1 /\ sent' \in Seq(Place)
      /\ \A i \in 1 .. n - 1 : wire'[i] = wire[i + 1] /\ sent'[i] = sent[i + 1]
  <2>1. h = wire[1] /\ h \in Wire /\ Len(wire') = n - 1
        /\ \A i \in 1 .. n - 1 : wire'[i] = wire[i + 1]
    BY <1>1, <1>3, HeadTailProperties
  <2>2. d = sent[1] /\ d \in Place /\ sent' \in Seq(Place) /\ Len(sent') = n - 1
        /\ \A i \in 1 .. n - 1 : sent'[i] = sent[i + 1]
    BY <1>1, <1>3, HeadTailProperties
  <2>3. QED
    BY <2>1, <2>2
<1>5. h.frame \in Frames /\ h.more \in BOOLEAN
  BY <1>4 DEF Wire
<1>6. /\ Msg' = Msg /\ Got' = Append(Got, h.frame)
      /\ NextPlace' = NextPlace /\ Sending' = Sending
  BY <1>1 DEF Typed, Msg, Got, Parts, Objs, Own, NextPlace, Sending, Running
<1> HIDE DEF n, k, h, d
<1>7. /\ Len(came') = k + 1 /\ came'[k + 1] = d /\ came' \in Seq(Place)
      /\ \A i \in 1 .. k : came'[i] = came[i]
  BY <1>1, <1>3, <1>4, AppendProperties DEF k
<1>8. /\ Len(Got') = k + 1 /\ Got'[k + 1] = h.frame
      /\ \A i \in 1 .. k : Got'[i] = Got[i]
  BY <1>3, <1>5, <1>6, AppendProperties
<1>9. \A p, q, f : /\ MayStart(q)' = MayStart(q) /\ MayCome(p, q)' = MayCome(p, q)
                   /\ Stood(p, f)' = Stood(p, f) /\ MayEnd(p)' = MayEnd(p)
  BY <1>1 DEF Stood, FrameAt, MayEnd, MayStart, MayCome, Follows
<1>10. /\ Stood(d, h.frame) /\ (~ h.more => MayEnd(d))
       /\ IF came # << >> THEN MayCome(came[k], d) ELSE MayStart(d)
  <2>1. 1 \in 1 .. n
    BY <1>3
  <2>2. Stood(d, h.frame) /\ (~ h.more => MayEnd(d))
    BY <1>4, <2>1 DEF StreamInv, InPipe, n
  <2>3. MayEnter(d)
    BY <1>3, <1>4 DEF StreamInv, InPipe
  <2>4. QED
    BY <1>1, <2>2, <2>3 DEF MayEnter, Reading, k
<1>11. n > 1 => IF h.more THEN MayCome(d, sent[2]) ELSE sent[2].at = 1
  <2>1. n > 1 => 1 \in 1 .. n - 1 /\ 1 + 1 = 2
    BY <1>3
  <2>2. n > 1 => MayFollow(1, sent[2])
    BY <2>1 DEF StreamInv, InPipe, n
  <2>3. QED
    BY <1>4, <2>2 DEF MayFollow
<1>12. h.more => n > 1
  BY <1>2, <1>3, <1>4
<1>13. Placed'
  BY <1>1, <1>4, <1>5, <1>7, <1>8 DEF StreamInv, Placed
<1>14. AtReceiver'
  <2>1. \A i \in 1 .. k + 1 : Stood(came'[i], Got'[i])
    <3>1. \A i \in 1 .. k : Stood(came'[i], Got'[i])
      BY <1>7, <1>8 DEF StreamInv, AtReceiver, k
    <3>2. \A i \in 1 .. k + 1 : i \in 1 .. k \/ i = k + 1
      BY <1>3
    <3>3. QED
      BY <1>7, <1>8, <1>10, <3>1, <3>2
  <2>2. MayStart(came'[1])
    <3>1. CASE came = << >>
      <4>1. k = 0
        BY <3>1 DEF k
      <4>2. QED
        BY <1>7, <1>10, <3>1, <4>1
    <3>2. CASE came # << >>
      <4>1. 1 \in 1 .. k
        BY <1>3, <3>2, EmptySeq DEF k
      <4>2. QED
        BY <1>7, <3>2, <4>1 DEF StreamInv, AtReceiver
    <3>3. QED
      BY <3>1, <3>2
  <2>3. \A i \in 1 .. k : MayCome(came'[i], came'[i + 1])
    <3> SUFFICES ASSUME NEW i \in 1 .. k PROVE MayCome(came'[i], came'[i + 1])
      OBVIOUS
    <3>1. CASE i = k
      <4>1. came # << >>
        BY <1>3 DEF k
      <4>2. QED
        BY <1>7, <1>10, <3>1, <4>1
    <3>2. CASE i # k
      <4>1. i \in 1 .. k - 1 /\ i + 1 \in 1 .. k
        BY <1>3, <3>2
      <4>2. QED
        BY <1>7, <4>1 DEF StreamInv, AtReceiver, k
    <3>3. QED
      BY <3>1, <3>2
  <2>4. reading' = "idle" => MayEnd(came'[k + 1])
    BY <1>1, <1>7, <1>10
  <2>5. (\A i \in 1 .. Len(came) : Stood(came[i], Got[i]))'
    BY <1>7, <1>9, <2>1
  <2>6. (\A i \in 1 .. Len(came) - 1 : MayCome(came[i], came[i + 1]))'
    <3>1. Len(came') - 1 = k /\ failed' = failed
      <4>1. Len(came') - 1 = k
        BY <1>3, <1>7
      <4>2. QED
        BY <1>1, <4>1
    <3>2. QED
      BY <2>3, <3>1 DEF MayCome, Follows
  <2>7. MayStart(came[1])' /\ (reading = "idle" => MayEnd(came[Len(came)]))'
    BY <1>7, <1>9, <2>2, <2>4
  <2>8. QED
    BY <2>5, <2>6, <2>7 DEF AtReceiver
<1>15. InPipe'
  <2>1. ASSUME NEW i \in 1 .. n - 1
        PROVE  Stood(sent'[i], wire'[i].frame) /\ (~ wire'[i].more => MayEnd(sent'[i]))
    <3>1. i + 1 \in 1 .. n
      BY <1>3
    <3>2. QED
      BY <1>4, <3>1 DEF StreamInv, InPipe, n
  <2>2. ASSUME NEW i \in 1 .. n - 1 - 1
        PROVE  IF wire'[i].more THEN MayCome(sent'[i], sent'[i + 1]) ELSE sent'[i + 1].at = 1
    <3>1. i \in 1 .. n - 1 /\ i + 1 \in 1 .. n - 1 /\ (i + 1) + 1 \in 1 .. n
      BY <1>3
    <3>2. MayFollow(i + 1, sent[(i + 1) + 1])
      BY <3>1 DEF StreamInv, InPipe, n
    <3>3. QED
      BY <1>4, <3>1, <3>2 DEF MayFollow
  <2>3. n = 1 \/ (n > 1 /\ 1 \in 1 .. n - 1 /\ 1 + 1 = 2)
    BY <1>3
  <2>4. ASSUME n > 1
        PROVE  /\ sent'[1] = sent[2]
               /\ h.more => MayCome(d, sent[2])
               /\ ~ h.more => sent[2].at = 1
    <3>1. sent'[1] = sent[1 + 1] /\ 1 + 1 = 2
      BY <1>4, <2>3, <2>4
    <3>2. QED
      BY <1>11, <2>4, <3>1
  <2>5. ASSUME wire' # << >> PROVE MayEnter(sent[1])'
    <3>1. n > 1
      BY <1>4, <2>3, <2>5, EmptySeq, <1>1, <1>3
    <3>2. CASE h.more
      <4>1. Reading' /\ came'[Len(came')] = d
        <5>1. reading' = "running" /\ came'[Len(came')] = d
          BY <1>1, <1>7, <3>2
        <5>2. came' # << >>
          BY <1>3, <1>7
        <5>3. QED
          BY <5>1, <5>2 DEF Reading
      <4>2. MayCome(d, sent'[1])
        BY <2>4, <3>1, <3>2
      <4>3. QED
        BY <1>9, <4>1, <4>2 DEF MayEnter
    <3>3. CASE ~ h.more
      <4>1. ~ Reading' /\ sent'[1].at = 1
        BY <1>1, <2>4, <3>1, <3>3 DEF Reading
      <4>2. QED
        BY <4>1 DEF MayEnter, MayStart
    <3>4. QED
      BY <3>2, <3>3
  <2>6. wire' = << >> => ~ Reading'
    <3>1. wire' = << >> => n = 1
      BY <1>3, <1>4
    <3>2. QED
      BY <1>1, <1>12, <3>1 DEF Reading
  <2>7. QED
    BY <1>4, <1>9, <2>1, <2>2, <2>5, <2>6 DEF InPipe, MayFollow
<1>16. AtSender'
  <2>1. CASE n = 1
    <3>1. wire' = << >> /\ ~ h.more /\ h = wire[n]
      <4>1. Len(wire') = 0
        BY <1>4, <2>1
      <4>2. wire' = << >>
        BY <1>1, <1>3, <4>1, SMTT(60)
      <4>3. QED
        BY <1>4, <1>12, <2>1, <4>2
    <3>2. Sending => NextPlace.at = 1
      BY <1>3, <3>1 DEF StreamInv, AtSender, MayFollow, n
    <3>3. Sending' => MayStart(NextPlace)'
      BY <1>6, <3>2 DEF MayStart
    <3>4. ~ MidMessage'
      BY <3>1 DEF MidMessage
    <3>5. QED
      BY <1>1, <1>6, <3>1, <3>3, <3>4 DEF StreamInv, AtSender
  <2>2. CASE n > 1
    <3>1. n - 1 \in 1 .. n - 1 /\ n - 1 + 1 = n
      BY <1>3, <2>2
    <3>2. wire' # << >> /\ wire'[Len(wire')] = wire[n] /\ sent'[Len(wire')] = sent[n]
      <4>1. wire'[n - 1] = wire[n - 1 + 1] /\ sent'[n - 1] = sent[n - 1 + 1]
        BY <1>4, <3>1
      <4>2. wire' # << >>
        BY <1>3, <1>4, <2>2
      <4>3. QED
        BY <1>4, <3>1, <4>1, <4>2
    <3>3. Sending => MayFollow(n, NextPlace)
      BY <1>3 DEF StreamInv, AtSender, n
    <3>4. Sending => IF wire[n].more THEN MayCome(sent[n], NextPlace) ELSE NextPlace.at = 1
      BY <3>3 DEF MayFollow
    <3>5. Sending' => MayFollow(Len(wire), NextPlace)'
      BY <1>1, <1>6, <3>2, <3>4 DEF MayFollow, MayCome, Follows
    <3>6. ~ Sending' => (MidMessage' => \E r \in failed' : Follows(sent'[Len(wire')], r))
      BY <1>1, <1>3, <1>6, <3>2 DEF StreamInv, AtSender, MidMessage, n
    <3>7. QED
      BY <1>1, <1>6, <3>2, <3>5, <3>6 DEF StreamInv, AtSender
  <2>3. QED
    BY <1>3, <2>1, <2>2
<1>17. QED
  BY <1>13, <1>14, <1>15, <1>16 DEF StreamInv

\* At first nothing was sent and nothing came.
LEMMA InitStream == Init => StreamInv
<1> SUFFICES ASSUME Init PROVE StreamInv
  OBVIOUS
<1>1. /\ reading = "idle" /\ wire = << >> /\ sends = << >> /\ sent = << >> /\ came = << >>
      /\ failed = {} /\ lost = {} /\ Got = << >> /\ call.fn = "none"
  BY DEF Init, Idle, Got, Parts, Objs
<1>2. Placed
  BY <1>1 DEF Placed
<1>3. InPipe /\ AtSender /\ AtReceiver
  BY <1>1 DEF InPipe, AtSender, AtReceiver, Reading, Sending, Running, MidMessage
<1>4. QED
  BY <1>2, <1>3 DEF StreamInv

\* Every step keeps the places right: only send, recv and the peer touch them.
LEMMA NextStream == ASSUME Typed, StreamInv, [Next]_vars PROVE StreamInv'
<1>1. ASSUME UNCHANGED <<m_parts, call, reading, wire, places>> PROVE StreamInv'
  BY <1>1 DEF StreamInv, Placed, InPipe, AtSender, AtReceiver, Stood, FrameAt, MayFollow,
              MayEnter, MayStart, MayCome, MayEnd, Follows, Reading, Sending, Running,
              MidMessage, NextPlace, Msg, Got, Parts, places
<1>2. CASE UNCHANGED vars
  BY <1>1, <1>2 DEF vars, pipeVars, history
<1>3. CASE PeerUp
  BY <1>1, <1>3 DEF PeerUp, history
<1>4. ASSUME call.fn # "send", call'.fn # "send", UNCHANGED <<reading, wire, places>>,
             m_parts'["got"] = m_parts["got"]
      PROVE  StreamInv'
  BY <1>4, AwayFromPipe DEF Sending, Running
<1>5. ASSUME NEW o \in Own,
             \/ Make(o) \/ Take(o) \/ Clear(o)
             \/ \E from \in Own : \/ Move(o, from)
                                  \/ CallAppend(o, from) \/ CallPrepend(o, from)
      PROVE  StreamInv'
  <2>1. /\ call.fn = "none" /\ call'.fn # "send" /\ UNCHANGED <<reading, wire, places>>
    BY <1>5 DEF Make, Take, Clear, Move, CallAppend, CallPrepend, Call, Running, pipeVars,
                history
  <2>2. m_parts'["got"] = m_parts["got"]
    BY <1>5 DEF Make, Take, Clear, Move, CallAppend, CallPrepend, Call, Typed, Objs, Own
  <2>3. QED
    BY <1>4, <2>1, <2>2
<1>6. CASE CallClone
  <2>1. /\ call.fn = "none" /\ call'.fn # "send" /\ UNCHANGED <<m_parts, reading, wire, places>>
    BY <1>6 DEF CallClone, Call, Running, pipeVars
  <2>2. QED
    BY <1>4, <2>1
<1>7. CASE AppendOne \/ PrependOne \/ ConcatReturn \/ CloneOne \/ CloneReturn
  <2>1. call.fn # "send" /\ call'.fn # "send" /\ UNCHANGED <<reading, wire, places>>
    BY <1>7 DEF AppendOne, PrependOne, ConcatReturn, CloneOne, CloneReturn, Running, Return,
                Idle, pipeVars, history
  <2>2. m_parts'["got"] = m_parts["got"]
    BY <1>7 DEF AppendOne, PrependOne, ConcatReturn, CloneOne, CloneReturn, Typed, Objs, Own
  <2>3. QED
    BY <1>4, <2>1, <2>2
<1>8. CASE SendReturn
  <2>1. ~ Sending /\ ~ Sending' /\ UNCHANGED <<m_parts, reading, wire, places>>
    BY <1>8 DEF SendReturn, Return, Idle, Sending, Running, Msg, empty, pipeVars
  <2>2. QED
    BY <2>1, AwayFromPipe
<1>9. CASE Calls
  <2>1. "msg" \in Own
    BY DEF Own
  <2>2. QED
    BY <1>5, <1>6, <1>9, CallSendStream DEF Calls
<1>10. CASE Step
  BY <1>7, <1>8, <1>10, SendOneStream DEF Step
<1>11. QED
  BY <1>2, <1>3, <1>9, <1>10, SendFailsStream, CallRecvStream, RecvOneStream,
     RecvFailsStream, PeerDownStream DEF Next

\* For messages of any length, any number of sends, any high-water mark, and
\* failures of send, of recv and of the peer between any two frames: what a recv
\* that succeeds returns begins with the start of a message, or where one was
\* cut by a loss, goes on frame by frame, with another message only where a send
\* failed, and ends with the end of a message.
THEOREM WholeUnlessFailed == Spec => []ReceivesWhole
<1>1. Inv /\ StreamInv /\ [Next]_vars => StreamInv'
  BY NextStream DEF Inv
<1>2. Inv /\ StreamInv => ReceivesWhole
  <2> SUFFICES ASSUME Inv, StreamInv, reading = "idle", Got # << >>
               PROVE  /\ Len(came) = Len(Got)
                      /\ \A i \in 1 .. Len(Got) : Got[i] = FrameAt(came[i])
                      /\ MayStart(came[1])
                      /\ \A i \in 1 .. Len(Got) - 1 : MayCome(came[i], came[i + 1])
                      /\ MayEnd(came[Len(Got)])
    BY DEF ReceivesWhole, Got, size, empty
  <2>1. Len(came) = Len(Got)
    BY DEF StreamInv, Placed
  <2>2. \A i \in 1 .. Len(Got) : Got[i] = FrameAt(came[i])
    BY <2>1 DEF StreamInv, AtReceiver, Stood
  <2>3. came # << >>
    <3>1. Len(Got) # 0
      BY DEF Inv, Typed, Got, Parts, Objs
    <3>2. QED
      BY <2>1, <3>1
  <2>4. QED
    BY <2>1, <2>2, <2>3 DEF StreamInv, AtReceiver
<1>3. QED
  BY <1>1, <1>2, InitStream, MessagesCorrect, PTL DEF Spec

-----------------------------------------------------------------------------
(* The frame a send failed at *)

\* A frame that leaves its only place is nowhere.
LEMMA GoneForGood ==
    ASSUME NEW c, NEW o \in DOMAIN c, NEW s, NEW d, Changed(c, o, s, d),
           NEW x, Without(s, c[o], x), Alone(c, x)
    PROVE  Absent(d, x)
<1>1. /\ DOMAIN d = DOMAIN c /\ d[o] = s
      /\ \A p \in DOMAIN c : p # o => d[p] = c[p]
  BY DEF Changed
<1>2. ~ Has(s, x)
  BY DEF Alone, Without
<1>3. \A p \in DOMAIN c : p # o => ~ Has(c[p], x)
  BY DEF Alone, Without
<1>4. QED
  BY <1>1, <1>2, <1>3 DEF Absent

\* The frame at p was made, and nothing holds it unless it was cloned.
Gone(p) == /\ Stood(p, FrameAt(p))
           /\ FrameAt(p) \in Frames /\ FrameAt(p) <= made
           /\ FrameAt(p) \notin copied => Absent(Holdings, FrameAt(p))

FailedInv == \A p \in failed : Gone(p)

\* What is gone does not come back.
LEMMA StillGone ==
    ASSUME Typed, Typed', StreamInv, OwnerStep, [Next]_vars, NEW p, Gone(p)
    PROVE  Gone(p)'
<1>1. Stood(p, FrameAt(p))' /\ FrameAt(p)' = FrameAt(p)
  <2>1. ASSUME sends' = sends
        PROVE  Stood(p, FrameAt(p))' /\ FrameAt(p)' = FrameAt(p)
    BY <2>1 DEF Gone, Stood, FrameAt
  <2>2. ASSUME CallSend, sends' # sends
        PROVE  Stood(p, FrameAt(p))' /\ FrameAt(p)' = FrameAt(p)
    <3>1. Msg \in Seq(Frames) /\ sends' = Append(sends, Msg) /\ sends \in Seq(Seq(Frames))
      BY <2>2 DEF CallSend, Msg, Typed, Parts, Objs, Own, StreamInv, Placed
    <3>2. \A f : Stood(p, f) => Stood(p, f)'
      BY <3>1, StillStood
    <3>3. \A f : Stood(p, f) => f = FrameAt(p)
      BY DEF Stood
    <3>4. \A f : Stood(p, f)' => f = FrameAt(p)'
      BY DEF Stood
    <3>5. PICK f : f = FrameAt(p)
      OBVIOUS
    <3>6. Stood(p, f)' /\ FrameAt(p)' = f
      BY <3>2, <3>4, <3>5 DEF Gone
    <3>7. QED
      BY <3>5, <3>6 DEF Stood
  <2>3. CallSend \/ sends' = sends
    BY DEF Next, Calls, Step, Make, Take, Clear, Move, CallAppend, CallPrepend, CallClone,
           AppendOne, PrependOne, ConcatReturn, CloneOne, CloneReturn, SendOne, SendReturn,
           SendFails, CallRecv, RecvOne, RecvFails, PeerDown, PeerUp, places, history, vars
  <2>4. QED
    BY <2>1, <2>2, <2>3
<1>2. PICK f : f = FrameAt(p) /\ f = FrameAt(p)'
  BY <1>1
<1>3. f \in Frames /\ f <= made /\ (f \notin copied => Absent(Holdings, f))
  BY <1>2 DEF Gone
<1>4. made <= made' /\ (f \notin copied' => f \notin copied) /\ f \in Int
      /\ made \in Int /\ made' \in Int
  BY <1>3 DEF OwnerStep, Typed, Frames
<1>5. f <= made'
  BY <1>3, <1>4
<1>6. f \notin copied' => Absent(Holdings', f)
  BY <1>3, <1>4 DEF OwnerStep
<1>7. QED
  BY <1>1, <1>2, <1>3, <1>5, <1>6 DEF Gone

\* A send that fails drops the frame it has popped.
LEMMA SendFailsGone ==
    ASSUME Typed, OwnerInv, StreamInv, SendFails, NEW p, p = NextPlace
    PROVE  Gone(p)'
<1> DEFINE f == front(Msg)
<1>1. /\ UNCHANGED <<wire, sends, made, copied>> /\ Sending
      /\ m_parts' = [m_parts EXCEPT !["msg"] = pop(Msg)]
  BY DEF SendFails, Sending, Msg, Parts, empty, pipeVars
<1>2. Stood(p, f) /\ Msg \in Seq(Frames) /\ Msg # << >>
  BY <1>1, NextStood DEF Sending
<1>3. f \in Frames /\ Without(pop(Msg), Msg, f)
  BY <1>2, Ends, OneLess
<1>4. /\ "msg" \in Objs /\ "msg" \in DOMAIN Holdings /\ Holdings["msg"] = Msg
  BY HoldingsType DEF Objs, Own, Msg, Parts
<1>5. ~ Absent(Holdings, f)
  BY <1>3, <1>4 DEF Absent, Without
<1>6. f <= made
  BY <1>3, <1>5 DEF OwnerInv, Frames, Typed
<1>7. ASSUME f \notin copied PROVE Absent(Holdings', f)
  <2>1. Alone(Holdings, f)
    BY <1>3, <1>7 DEF OwnerInv
  <2>2. Changed(Holdings, "msg", pop(Msg), Holdings')
    BY <1>1, <1>4, WriteParts
  <2>3. QED
    BY <1>3, <1>4, <2>1, <2>2, GoneForGood
<1> HIDE DEF f
<1>8. FrameAt(p) = f /\ FrameAt(p)' = f /\ Stood(p, FrameAt(p))'
  BY <1>1, <1>2 DEF Stood, FrameAt
<1>9. QED
  BY <1>1, <1>3, <1>6, <1>7, <1>8 DEF Gone, Stood

\* Only send adds to the places where one failed.
LEMMA NextFailed ==
    ASSUME Typed, Typed', OwnerInv, StreamInv, FailedInv, OwnerStep, [Next]_vars
    PROVE  FailedInv'
<1>1. \A p \in failed : Gone(p)'
  BY StillGone DEF FailedInv
<1>2. failed' = failed \/ (SendFails /\ failed' = failed \cup {NextPlace})
  BY DEF Next, Calls, Step, Make, Take, Clear, Move, CallAppend, CallPrepend, CallClone,
         AppendOne, PrependOne, ConcatReturn, CloneOne, CloneReturn, CallSend, SendOne,
         SendReturn, SendFails, CallRecv, RecvOne, RecvFails, PeerDown, PeerUp, Call,
         places, history, vars
<1>3. QED
  BY <1>1, <1>2, SendFailsGone DEF FailedInv

\* However often a send is tried again after it failed, the frame it failed at,
\* if it was never cloned, is in no object and no pipe ever after, and so in
\* nothing that recv returns.
THEOREM FailedFrameLost == Spec => []FailedFrameIsGone
<1>1. Inv /\ OwnerInv /\ StreamInv /\ FailedInv /\ [Next]_vars
         => (OwnerInv /\ StreamInv /\ FailedInv)'
  <2> SUFFICES ASSUME Inv, OwnerInv, StreamInv, FailedInv, [Next]_vars
               PROVE  OwnerInv' /\ StreamInv' /\ FailedInv'
    OBVIOUS
  <2>1. Typed /\ Typed'
    BY NextInv DEF Inv
  <2>2. OwnerStep
    BY <2>1, NextOwners
  <2>3. QED
    BY <2>1, <2>2, OwnerStepInv, NextStream, NextFailed
<1>2. FailedInv => FailedFrameIsGone
  BY DEF FailedInv, Gone, FailedFrameIsGone, Absent, Has
<1>3. Init => FailedInv
  BY DEF Init, FailedInv
<1>4. QED
  BY <1>1, <1>2, <1>3, InitOwners, InitStream, MessagesCorrect, PTL DEF Spec
=============================================================================
