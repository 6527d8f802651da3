--------------------------- MODULE StartupProofs ---------------------------
(***************************************************************************)
(* The parser stays within its buffer: for every file, of any length and   *)
(* with any characters in it, no pointer of split_data,                    *)
(* unescape_quoted_value and ini_get leaves the memory that ini_load       *)
(* allocated, and the zero that ends it is never overwritten.  Each of     *)
(* their inner loops looks for a character that is there, if nothing else  *)
(* then that zero.                                                         *)
(*                                                                         *)
(* And it reads what the file says, for every file without zeros: behind   *)
(* the pointer of split_data the buffer holds the strings of the grammar's *)
(* headers and pairs, each at its place, and zeros everywhere else         *)
(* (SplitUpTo); so ini_get, which goes by the strings' order alone, comes  *)
(* to the headers and pairs one after the other (AtItem), up to the first  *)
(* pair with an empty key.                                                 *)
(***************************************************************************)
EXTENDS Startup, FiniteSetTheorems, SequenceTheorems, WellFoundedInduction, TLAPS

\* A buffer: characters and a terminating zero.
Buffer(d) == d \in Seq(Chars) /\ Len(d) > 0 /\ d[Len(d)] = NUL

\* The states main() is in before and after the file is in memory.
Loaded == doing # "none" => Buffer(data)
Fresh  == /\ file \in Seq(Chars)
          /\ pc = "load" => doing = "none" /\ line_start = 1

Inv == Loaded /\ Fresh /\ InBuffer

-----------------------------------------------------------------------------
(* What the scanning loops find *)

\* A set of positions that is not empty has a first one.
LEMMA First ==
    ASSUME NEW T \in SUBSET Nat, T # {}
    PROVE  \E j \in T : \A k \in T : j <= k
<1>1. PICK j \in T : \A k \in T : <<k, j>> \notin OpToRel(<, Nat)
  BY WFMin, NatLessThanWellFounded
<1>2. \A k \in T : ~ (k < j)
  BY <1>1 DEF OpToRel
<1>3. QED
  BY <1>2

\* A buffer is an array whose last cell is zero.
LEMMA BufferType ==
    ASSUME NEW d, Buffer(d)
    PROVE  /\ Len(d) \in Nat /\ Len(d) > 0 /\ DOMAIN d = 1 .. Len(d)
           /\ \A k \in 1 .. Len(d) : d[k] \in Chars
           /\ d[Len(d)] = NUL
  BY LenProperties DEF Buffer

\* strcspn stops at the terminating zero at the latest.
LEMMA ScanStops ==
    ASSUME NEW d, Buffer(d), NEW i \in 1 .. Len(d), NEW S
    PROVE  /\ Scan(d, i, S) \in i .. Len(d)
           /\ d[Scan(d, i, S)] \in S \cup {NUL}
<1> DEFINE n == Len(d)
           T == {j \in i .. n : d[j] \in S \cup {NUL}}
           Stops(j) == /\ d[j] \in S \cup {NUL}
                       /\ \A k \in i .. j - 1 : d[k] \notin S \cup {NUL}
<1>1. n \in Nat /\ n \in i .. n /\ d[n] = NUL /\ i \in Nat
  BY BufferType
<1>2. T \in SUBSET Nat /\ n \in T
  BY <1>1
<1>3. PICK j \in T : \A k \in T : j <= k
  BY <1>2, First
<1>4. \A k \in i .. j - 1 : k \notin T /\ k \in i .. n
  BY <1>1, <1>3
<1>5. j \in i .. n /\ Stops(j)
  BY <1>3, <1>4
<1>6. Scan(d, i, S) = CHOOSE k \in i .. n : Stops(k)
  BY DEF Scan
<1> HIDE DEF Stops
<1>7. Scan(d, i, S) \in i .. n /\ Stops(Scan(d, i, S))
  BY <1>5, <1>6
<1>8. QED
  BY <1>7 DEF Stops

\* next() stops at the end at the latest.
LEMMA NextStops ==
    ASSUME NEW d, Buffer(d), NEW i \in 1 .. Len(d)
    PROVE  next(d, i) \in i .. Len(d)
<1> DEFINE n == Len(d)
           s == Scan(d, i, {})
           T == {j \in s .. n : j = n \/ d[j] # NUL}
           Stops(j) == /\ j = n \/ d[j] # NUL
                       /\ \A k \in s .. j - 1 : d[k] = NUL
<1>1. n \in Nat /\ s \in i .. n /\ i \in Nat
  BY BufferType, ScanStops
<1> HIDE DEF s
<1>2. T \in SUBSET Nat /\ n \in T
  BY <1>1
<1>3. PICK j \in T : \A k \in T : j <= k
  BY <1>2, First
<1>4. \A k \in s .. j - 1 : k \notin T /\ k \in s .. n
  BY <1>1, <1>3
<1>5. j \in s .. n /\ Stops(j)
  BY <1>3, <1>4
<1>6. next(d, i) = CHOOSE k \in s .. n : Stops(k)
  BY DEF next, s
<1> HIDE DEF Stops
<1>7. next(d, i) \in s .. n
  BY <1>5, <1>6
<1>8. QED
  BY <1>1, <1>7

\* The end of a line is in the buffer.
LEMMA LineStops ==
    ASSUME NEW d, Buffer(d), NEW i \in 1 .. Len(d)
    PROVE  LineEnd(d, i) \in i .. Len(d)
<1> DEFINE n == Len(d)
           T == {j \in i .. n : j = n \/ d[j] = LF}
           Stops(j) == /\ j = n \/ d[j] = LF
                       /\ \A k \in i .. j - 1 : d[k] # LF
<1>1. n \in Nat /\ i \in Nat
  BY BufferType
<1>2. T \in SUBSET Nat /\ n \in T
  BY <1>1
<1>3. PICK j \in T : \A k \in T : j <= k
  BY <1>2, First
<1>4. \A k \in i .. j - 1 : k \notin T /\ k \in i .. n
  BY <1>1, <1>3
<1>5. j \in i .. n /\ Stops(j)
  BY <1>3, <1>4
<1>6. LineEnd(d, i) = CHOOSE k \in i .. n : Stops(k)
  BY DEF LineEnd
<1> HIDE DEF Stops
<1>7. LineEnd(d, i) \in i .. n
  BY <1>5, <1>6
<1>8. QED
  BY <1>7

\* Zeros may be written anywhere, and so may trim_back.
LEMMA ZerosKeep ==
    ASSUME NEW d, Buffer(d), NEW i, NEW j
    PROVE  /\ Buffer(Zeros(d, i, j)) /\ Len(Zeros(d, i, j)) = Len(d)
           /\ Buffer(trim_back(d, i)) /\ Len(trim_back(d, i)) = Len(d)
<1> DEFINE n == Len(d)
<1>1. /\ n \in Nat /\ n > 0 /\ DOMAIN d = 1 .. n /\ n \in 1 .. n
      /\ \A k \in 1 .. n : d[k] \in Chars
      /\ d[n] = NUL /\ NUL \in Chars
  <2>1. /\ n \in Nat /\ n > 0 /\ DOMAIN d = 1 .. n
        /\ \A k \in 1 .. n : d[k] \in Chars
        /\ d[n] = NUL
    BY BufferType
  <2>2. n \in 1 .. n
    BY <2>1
  <2>3. NUL \in Chars
    BY DEF Chars
  <2>4. QED
    BY <2>1, <2>2, <2>3
<1>2. /\ Zeros(d, i, j) \in [1 .. n -> Chars] /\ Zeros(d, i, j)[n] = NUL
      /\ trim_back(d, i) \in [1 .. n -> Chars] /\ trim_back(d, i)[n] = NUL
  BY <1>1 DEF Zeros, trim_back
<1> HIDE DEF n
<1>3. \A e \in [1 .. n -> Chars] : e \in Seq(Chars) /\ Len(e) = n
  BY <1>1
<1>4. QED
  BY <1>1, <1>2, <1>3 DEF Buffer, n

-----------------------------------------------------------------------------
(* split_data *)

\* A buffer, its pointers, and the name of the loop that runs.
Points(d, name, i, j) ==
    /\ Buffer(d) /\ name \in {"split", "unescape", "ready", "get", "found", "missing"}
    /\ i \in 1 .. Len(d) /\ j \in 1 .. Len(d)

\* Outside of unescape_quoted_value that is all there is to keep.
LEMMA PointsInv ==
    ASSUME Points(data', doing', p', line_start'), doing' # "unescape", Fresh'
    PROVE  Inv'
<1>1. Buffer(data') /\ data' # << >> /\ data'[Len(data')] = NUL
  <2>1. Buffer(data')
    BY DEF Points
  <2>2. data' # << >>
    BY <2>1, EmptySeq DEF Buffer
  <2>3. QED
    BY <2>1, <2>2 DEF Buffer
<1>2. QED
  BY <1>1 DEF Inv, Loaded, InBuffer, Points, end

\* While a loop runs the pointers are where Inv has them.
LEMMA InvPoints ==
    ASSUME Inv, doing # "none" PROVE Points(data, doing, p, line_start)
  BY DEF Inv, Loaded, InBuffer, Points, end

\* The '=' of a line, and what comes behind it.
LEMMA KeyCutType ==
    ASSUME Buffer(data), p \in 1 .. end, HasValue
    PROVE  /\ Buffer(KeyCut) /\ Len(KeyCut) = end
           /\ ValueAt \in 1 .. end /\ data[ValueAt] # NUL
<1> DEFINE T == {j \in Equals + 1 .. end : data[j] \notin Blank}
           Stops(j) == /\ data[j] \notin Blank
                       /\ \A k \in Equals + 1 .. j - 1 : data[k] \in Blank
<1>1. end \in Nat /\ data[end] = NUL /\ end > 0
  BY BufferType DEF end
<1>2. Equals \in 1 .. end
  <2>1. Equals \in p .. end
    BY ScanStops DEF Equals, end
  <2>2. QED
    BY <1>1, <2>1
<1>3. Equals + 1 \in 1 .. end
  <2>1. Equals # end
    BY <1>1 DEF HasValue, NUL
  <2>2. QED
    BY <1>1, <1>2, <2>1
<1>4. NUL \notin Blank
  BY DEF NUL, Blank, SP, CR
<1>5. T \in SUBSET Nat /\ end \in T
  BY <1>1, <1>3, <1>4
<1>6. PICK j \in T : \A k \in T : j <= k
  BY <1>5, First
<1>7. \A k \in Equals + 1 .. j - 1 : k \notin T /\ k \in Equals + 1 .. end
  BY <1>1, <1>3, <1>6
<1>8. j \in Equals + 1 .. end /\ Stops(j)
  BY <1>6, <1>7
<1>9. ValueAt = CHOOSE k \in Equals + 1 .. end : Stops(k)
  BY DEF ValueAt
<1> HIDE DEF Stops
<1>10. ValueAt \in Equals + 1 .. end
  BY <1>8, <1>9
<1>11. ValueAt \in 1 .. end /\ data[ValueAt] # NUL
  BY <1>1, <1>3, <1>10 DEF HasValue
<1>12. Buffer(KeyCut) /\ Len(KeyCut) = end
  <2>1. Buffer(trim_back(data, Equals - 1)) /\ Len(trim_back(data, Equals - 1)) = end
    BY ZerosKeep DEF end
  <2>2. QED
    BY <2>1, ZerosKeep DEF KeyCut
<1>13. QED
  BY <1>11, <1>12

\* Every turn of split_data.
LEMMA SplitInv ==
    ASSUME Inv, Fresh', SplitBlank \/ SplitHeader \/ SplitComment \/ SplitNoPair
                                   \/ SplitPlain \/ SplitQuoted \/ SplitDone
    PROVE  Inv'
<1>1. doing = "split" /\ p \in 1 .. end /\ line_start \in 1 .. end /\ Buffer(data)
      /\ end \in Nat /\ Len(data) = end
  <2>1. doing = "split"
    BY DEF SplitBlank, SplitHeader, SplitComment, SplitNoPair, SplitPlain, SplitQuoted,
           SplitDone, SplitLine, Splitting
  <2>2. Points(data, doing, p, line_start)
    BY <2>1, InvPoints
  <2>3. QED
    BY <2>1, <2>2, BufferType DEF Points, end
<1>2. CASE SplitBlank
  <2>1. /\ data' = Zeros(data, p, p + 1) /\ p' = p + 1 /\ p < end
        /\ doing' = "split" /\ line_start' = line_start
    BY <1>1, <1>2 DEF SplitBlank, Splitting
  <2>2. Buffer(data') /\ Len(data') = end /\ p' \in 1 .. end
    BY <1>1, <2>1, ZerosKeep
  <2>3. Points(data', doing', p', line_start')
    BY <1>1, <2>1, <2>2 DEF Points
  <2>4. QED
    BY <2>1, <2>3, PointsInv
<1>3. CASE SplitHeader
  <2>1. /\ p' = Scan(data, p, {"]", LF}) /\ data' = Zeros(data, p', p' + 1)
        /\ doing' = "split" /\ line_start' = line_start
    BY <1>1, <1>3 DEF SplitHeader
  <2>2. Buffer(data') /\ Len(data') = end
    BY <1>1, <2>1, ZerosKeep
  <2>3. p' \in p .. end
    BY <1>1, <2>1, ScanStops
  <2>4. Points(data', doing', p', line_start')
    BY <1>1, <2>1, <2>2, <2>3 DEF Points
  <2>5. QED
    BY <2>1, <2>4, PointsInv
<1>4. CASE SplitComment \/ SplitNoPair
  <2>1. /\ p' = LineEnd(data, p) /\ data' = Zeros(data, p, LineEnd(data, p))
        /\ doing' = "split" /\ line_start' \in {line_start, p}
    BY <1>1, <1>4 DEF SplitComment, SplitNoPair, SplitLine, discard_line
  <2>2. Buffer(data') /\ Len(data') = end
    BY <1>1, <2>1, ZerosKeep
  <2>3. p' \in p .. end
    BY <1>1, <2>1, LineStops
  <2>4. Points(data', doing', p', line_start')
    BY <1>1, <2>1, <2>2, <2>3 DEF Points
  <2>5. QED
    BY <2>1, <2>4, PointsInv
<1>5. CASE SplitPlain
  <2>1. /\ HasValue /\ p' = Scan(KeyCut, ValueAt, {LF}) /\ data' = trim_back(KeyCut, p' - 1)
        /\ doing' = "split" /\ line_start' = p
    BY <1>1, <1>5 DEF SplitPlain, SplitLine
  <2>2. Buffer(KeyCut) /\ Len(KeyCut) = end /\ ValueAt \in 1 .. end
    BY <1>1, <2>1, KeyCutType
  <2>3. Buffer(data') /\ Len(data') = end
    BY <2>1, <2>2, ZerosKeep
  <2>4. p' \in ValueAt .. end
    BY <2>1, <2>2, ScanStops
  <2>5. Points(data', doing', p', line_start')
    BY <1>1, <2>1, <2>2, <2>3, <2>4 DEF Points
  <2>6. QED
    BY <2>1, <2>5, PointsInv
<1>6. CASE SplitQuoted
  <2>1. /\ HasValue /\ data' = KeyCut /\ doing' = "unescape" /\ line_start' = p
        /\ q' = ValueAt /\ value_start' = ValueAt /\ p' = ValueAt + 1
    BY <1>6 DEF SplitQuoted, SplitLine
  <2>2. /\ Buffer(data') /\ Len(data') = end /\ ValueAt \in 1 .. end
        /\ data[ValueAt] # NUL
    BY <1>1, <2>1, KeyCutType
  <2>3. ValueAt # end
    BY <1>1, <2>2 DEF Buffer
  <2>4. p' \in 1 .. end /\ value_start' \in 1 .. end /\ value_start' <= q' /\ q' < p'
    BY <1>1, <2>1, <2>2, <2>3
  <2>5. data' # << >> /\ data'[Len(data')] = NUL
    BY <2>2, EmptySeq DEF Buffer
  <2>6. QED
    BY <1>1, <2>1, <2>2, <2>4, <2>5 DEF Inv, Loaded, InBuffer, end
<1>7. CASE SplitDone
  <2>1. UNCHANGED <<data, p, line_start>> /\ doing' = "ready"
    BY <1>7 DEF SplitDone
  <2>2. Points(data', doing', p', line_start')
    BY <1>1, <2>1 DEF Points
  <2>3. QED
    BY <2>1, <2>2, PointsInv
<1>8. QED
  BY <1>2, <1>3, <1>4, <1>5, <1>6, <1>7

\* Every turn of unescape_quoted_value: what it writes is behind what it reads,
\* and a backslash before the terminating zero ends it.
LEMMA UnescapeInv ==
    ASSUME Inv, Fresh', CopyPlain \/ CopyEscape \/ CloseQuote
    PROVE  Inv'
<1>1. /\ doing = "unescape" /\ p \in 1 .. end /\ line_start \in 1 .. end /\ Buffer(data)
      /\ value_start \in 1 .. end /\ q \in value_start .. p - 1
      /\ end \in Nat /\ Len(data) = end /\ data[end] = NUL
      /\ \A k \in 1 .. end : data[k] \in Chars
  <2>1. doing = "unescape"
    BY DEF CopyPlain, CopyEscape, CloseQuote
  <2>2. Buffer(data)
    BY <2>1 DEF Inv, Loaded
  <2>3. QED
    BY <2>1, <2>2, BufferType DEF Inv, InBuffer, end
<1>2. q \in 1 .. end - 1
  BY <1>1
<1>3. ASSUME NEW c \in Chars, data' = [data EXCEPT ![q] = c], doing' = "unescape",
             UNCHANGED <<line_start, value_start>>, q' = q + 1, p' \in p + 1 .. end
      PROVE  Inv'
  <2>1. data' \in Seq(Chars) /\ Len(data') = end /\ data'[end] = NUL
    BY <1>1, <1>2, <1>3 DEF Buffer
  <2>2. data' # << >> /\ Buffer(data')
    BY <1>1, <2>1, EmptySeq DEF Buffer
  <2>3. p' \in 1 .. end /\ q' \in value_start' .. p' - 1
    BY <1>1, <1>2, <1>3
  <2>4. QED
    BY <1>1, <1>3, <2>1, <2>2, <2>3 DEF Inv, Loaded, InBuffer, end
<1>4. CASE CopyPlain
  <2>1. /\ data' = [data EXCEPT ![q] = data[p]] /\ doing' = "unescape" /\ p < end
        /\ UNCHANGED <<line_start, value_start>> /\ q' = q + 1 /\ p' = p + 1
    <3>1. /\ data' = [data EXCEPT ![q] = data[p]] /\ doing' = "unescape" /\ ~ Closes
          /\ UNCHANGED <<line_start, value_start>> /\ q' = q + 1 /\ p' = p + 1
      BY <1>4 DEF CopyPlain
    <3>2. p < end
      <4>1. ~ (p >= end)
        BY <3>1, Zenon DEF Closes
      <4>2. p \in Nat /\ end \in Nat
        BY <1>1
      <4>3. QED
        BY <4>1, <4>2
    <3>3. QED
      BY <3>1, <3>2
  <2>2. data[p] \in Chars /\ p' \in p + 1 .. end
    BY <1>1, <2>1
  <2>3. QED
    BY <1>3, <2>1, <2>2
<1>5. CASE CopyEscape
  <2>1. /\ data' = [data EXCEPT ![q] = Unescaped(data[p + 1])] /\ doing' = "unescape"
        /\ p < end /\ data[p + 1] # NUL
        /\ UNCHANGED <<line_start, value_start>> /\ q' = q + 1 /\ p' = p + 2
    BY <1>1, <1>5 DEF CopyEscape, Closes
  <2>2. p + 1 \in 1 .. end /\ p + 1 # end
    BY <1>1, <2>1
  <2>3. data[p + 1] \in Chars /\ p' \in p + 1 .. end
    BY <1>1, <2>1, <2>2
  <2>4. Unescaped(data[p + 1]) \in Chars
    BY <2>3 DEF Unescaped, Chars, Blank
  <2>5. QED
    BY <1>3, <2>1, <2>3, <2>4
<1>6. CASE CloseQuote
  <2> DEFINE from == IF q = value_start THEN line_start ELSE q
  <2>1. /\ data' = Zeros(data, from, LineEnd(data, from)) /\ p' = LineEnd(data, from)
        /\ doing' = "split" /\ line_start' = line_start
    BY <1>6 DEF CloseQuote, discard_line
  <2>2. from \in 1 .. end
    BY <1>1, <1>2
  <2> HIDE DEF from
  <2>3. Buffer(data') /\ Len(data') = end
    BY <1>1, <2>1, ZerosKeep
  <2>4. p' \in from .. end
    BY <1>1, <2>1, <2>2, LineStops
  <2>5. Points(data', doing', p', line_start')
    BY <1>1, <2>1, <2>2, <2>3, <2>4 DEF Points
  <2>6. QED
    BY <2>1, <2>5, PointsInv
<1>7. QED
  BY <1>4, <1>5, <1>6

-----------------------------------------------------------------------------
(* ini_get and main() *)

\* ini_get moves its pointer from string to string.
LEMMA GetInv ==
    ASSUME Inv, Fresh', Get \/ \E section, key : CallGet(section, key)
    PROVE  Inv'
<1>1. /\ doing \in {"ready", "get"} /\ p \in 1 .. end /\ line_start \in 1 .. end
      /\ Buffer(data) /\ end \in Nat /\ Len(data) = end /\ 1 \in 1 .. end
  <2>1. doing \in {"ready", "get"}
    BY DEF Get, CallGet, GetSection, GetOther, GetFound, GetMissing
  <2>2. Points(data, doing, p, line_start)
    BY <2>1, InvPoints
  <2>3. QED
    BY <2>1, <2>2, BufferType DEF Points, end
<1>2. /\ UNCHANGED <<data, line_start>> /\ doing' \in {"get", "found", "missing"}
      /\ p' \in {p, 1, next(data, 1), next(data, p), next(data, next(data, p))}
  BY DEF Get, CallGet, GetSection, GetOther, GetFound, GetMissing
<1>3. next(data, 1) \in 1 .. end
  BY <1>1, NextStops
<1>4. next(data, p) \in 1 .. end
  <2>1. next(data, p) \in p .. end
    BY <1>1, NextStops
  <2>2. QED
    BY <1>1, <2>1
<1>5. next(data, next(data, p)) \in 1 .. end
  <2> DEFINE j == next(data, p)
  <2> HIDE DEF j
  <2>1. j \in 1 .. end
    BY <1>4 DEF j
  <2>2. next(data, j) \in j .. end
    BY <1>1, <2>1, NextStops
  <2>3. next(data, j) \in 1 .. end
    BY <1>1, <2>1, <2>2
  <2>4. QED
    BY <2>3 DEF j
<1>6. Points(data', doing', p', line_start')
  BY <1>1, <1>2, <1>3, <1>4, <1>5 DEF Points
<1>7. QED
  BY <1>2, <1>6, PointsInv

\* The file does not change, and line_start is first written by split_data.
LEMMA NextFresh == ASSUME Inv, [Next]_vars PROVE Fresh'
<1>1. file' = file
  BY DEF Next, Load, LoadFails, Parse, AskPort, FrontFound, BackFound, NoPort, Free,
         MakeContext, MakeSockets, BindFront, BindBack, SetOptions, Throw, mainVars, vars
<1>2. pc' = "load" => pc = "load" /\ doing' = doing /\ line_start' = line_start
  <2>1. CASE Parse
    <3>1. pc = "load" => doing = "none"
      BY DEF Inv, Fresh
    <3>2. doing # "none"
      BY <2>1 DEF Parse, Split, Get, SplitBlank, SplitHeader, SplitComment, SplitNoPair,
           SplitPlain, SplitQuoted, SplitDone, SplitLine, Splitting, CopyPlain, CopyEscape,
           CloseQuote, GetSection, GetOther, GetFound, GetMissing
    <3>3. pc' = pc
      BY <2>1 DEF Parse, mainVars
    <3>4. QED
      BY <3>1, <3>2, <3>3
  <2>2. CASE AskPort
    BY <2>2 DEF AskPort, KeyOf, mainVars
  <2>3. CASE UNCHANGED vars
    BY <2>3 DEF vars, mainVars, iniVars
  <2>4. QED
    BY <2>1, <2>2, <2>3
       DEF Next, Load, LoadFails, FrontFound, BackFound, NoPort, Free,
           MakeContext, MakeSockets, BindFront, BindBack, SetOptions, Throw
<1>3. QED
  BY <1>1, <1>2 DEF Inv, Fresh

\* Before ini_load there is no buffer.
LEMMA InitInv == Init => Inv
<1> SUFFICES ASSUME Init PROVE Inv
  OBVIOUS
<1>1. doing = "none" /\ line_start = 1 /\ file \in Seq(Chars)
  BY StartupAssumption DEF Init
<1>2. QED
  BY <1>1 DEF Inv, Loaded, Fresh, InBuffer

\* Every step keeps the pointers in the buffer.
LEMMA NextInv == ASSUME Inv, [Next]_vars PROVE Inv'
<1>1. Fresh'
  BY NextFresh
<1>2. CASE Load
  <2>1. data' = Append(file, NUL) /\ p' = 1 /\ doing' = "split" /\ line_start' = 1
    BY <1>2 DEF Load, Inv, Fresh
  <2>2. file \in Seq(Chars) /\ NUL \in Chars /\ Len(file) \in Nat
    <3>1. file \in Seq(Chars)
      BY DEF Inv, Fresh
    <3>2. NUL \in Chars
      BY DEF Chars
    <3>3. QED
      BY <3>1, <3>2, LenProperties
  <2>3. data' \in Seq(Chars) /\ Len(data') = Len(file) + 1 /\ data'[Len(file) + 1] = NUL
    BY <2>1, <2>2, AppendProperties
  <2>4. Points(data', doing', p', line_start')
    BY <2>1, <2>2, <2>3 DEF Points, Buffer
  <2>5. QED
    BY <1>1, <2>1, <2>4, PointsInv
<1>3. CASE Parse
  <2>1. CASE Get
    BY <1>1, <2>1, GetInv
  <2>2. CASE Split
    BY <1>1, <2>2, SplitInv, UnescapeInv DEF Split
  <2>3. QED
    BY <1>3, <2>1, <2>2 DEF Parse
<1>4. CASE AskPort
  BY <1>1, <1>4, GetInv DEF AskPort
<1>5. CASE FrontFound \/ BackFound
  <2>1. UNCHANGED <<data, p, line_start>> /\ doing = "found" /\ doing' = "ready"
    BY <1>5 DEF FrontFound, BackFound
  <2>2. Points(data, doing, p, line_start)
    BY <2>1, InvPoints
  <2>3. Points(data', doing', p', line_start')
    BY <2>1, <2>2 DEF Points
  <2>4. QED
    BY <1>1, <2>1, <2>3, PointsInv
<1>6. CASE Free
  <2>1. doing' = "none"
    BY <1>6 DEF Free
  <2>2. QED
    BY <1>1, <2>1 DEF Inv, Loaded, InBuffer
<1>7. CASE UNCHANGED iniVars
  BY <1>1, <1>7 DEF iniVars, Inv, Loaded, InBuffer, end
<1>8. QED
  BY <1>2, <1>3, <1>4, <1>5, <1>6, <1>7
     DEF Next, LoadFails, NoPort, MakeContext, MakeSockets, BindFront, BindBack,
         SetOptions, Throw, vars

\* For every file, however it is cut off or malformed, no loop of the parser
\* reads or writes outside of its buffer, and the write head of
\* unescape_quoted_value stays behind its read head.
THEOREM StaysInBuffer == Spec => []InBuffer
<1>1. Inv => InBuffer
  BY DEF Inv
<1>2. QED
  BY <1>1, InitInv, NextInv, PTL DEF Spec
-----------------------------------------------------------------------------
(* Positions in a text file *)

\* The files the grammar speaks of.
TextFile(f) == f \in Seq(Chars) /\ Text(f)

\* A file is an array of characters, none of them zero.
LEMMA FileType ==
    ASSUME NEW f, TextFile(f)
    PROVE  /\ Len(f) \in Nat /\ DOMAIN f = 1 .. Len(f)
           /\ \A k \in 1 .. Len(f) : f[k] \in Chars /\ f[k] # NUL
<1>1. f \in Seq(Chars) /\ Text(f)
  BY DEF TextFile
<1>2. Len(f) \in Nat /\ DOMAIN f = 1 .. Len(f) /\ \A k \in 1 .. Len(f) : f[k] \in Chars
  BY <1>1, LenProperties
<1>3. QED
  BY <1>1, <1>2 DEF Text

\* A quote is no other character that the parser looks for.
LEMMA QuoteIs == QUOTE \notin {NUL, LF, CR, SP, "\\"}
<1>1. QUOTE # "nul" /\ QUOTE # "lf" /\ QUOTE # "cr" /\ QUOTE # "sp" /\ QUOTE # "\\"
  BY Zenon DEF QUOTE
<1>2. QED
  BY <1>1 DEF NUL, LF, CR, SP

\* What Until looks for.
Stops(f, i, S, j) ==
    /\ j \in i .. Len(f) + 1
    /\ j = Len(f) + 1 \/ f[j] \in S
    /\ \A k \in i .. j - 1 : f[k] \notin S

\* Until finds it,
LEMMA UntilStops ==
    ASSUME NEW f, TextFile(f), NEW i \in 1 .. Len(f) + 1, NEW S
    PROVE  Stops(f, i, S, Until(f, i, S))
<1> DEFINE n == Len(f) + 1
           T == {j \in i .. n : j = n \/ f[j] \in S}
           P(j) == /\ j = n \/ f[j] \in S
                   /\ \A k \in i .. j - 1 : f[k] \notin S
<1>1. n \in Nat /\ i \in Nat /\ i <= n
  BY FileType
<1>2. T \in SUBSET Nat /\ n \in T
  BY <1>1
<1>3. PICK j \in T : \A k \in T : j <= k
  BY <1>2, First
<1>4. \A k \in i .. j - 1 : k \notin T /\ k \in i .. n
  BY <1>1, <1>3
<1>5. j \in i .. n /\ P(j)
  BY <1>3, <1>4
<1>6. Until(f, i, S) = CHOOSE k \in i .. n : P(k)
  BY DEF Until
<1> HIDE DEF P
<1>7. Until(f, i, S) \in i .. n /\ P(Until(f, i, S))
  BY <1>5, <1>6
<1>8. QED
  BY <1>7 DEF P, Stops

\* and there is nothing else to find.
LEMMA UntilIs ==
    ASSUME NEW f, TextFile(f), NEW i \in 1 .. Len(f) + 1, NEW S, NEW j, Stops(f, i, S, j)
    PROVE  Until(f, i, S) = j
<1> DEFINE u == Until(f, i, S)
           n == Len(f) + 1
<1>1. Stops(f, i, S, u)
  BY UntilStops
<1>2. n \in Nat /\ i \in Nat
  BY FileType
<1>3. u \in i .. n /\ j \in i .. n
  BY <1>1 DEF Stops
<1> HIDE DEF u
<1>4. ~ (u < j)
  <2> SUFFICES ASSUME u < j PROVE FALSE
    OBVIOUS
  <2>1. u \in i .. j - 1 /\ u # n
    BY <1>2, <1>3
  <2>2. f[u] \in S
    BY <1>1, <2>1 DEF Stops, n
  <2>3. QED
    BY <2>1, <2>2 DEF Stops
<1>5. ~ (j < u)
  <2> SUFFICES ASSUME j < u PROVE FALSE
    OBVIOUS
  <2>1. j \in i .. u - 1 /\ j # n
    BY <1>2, <1>3
  <2>2. f[j] \in S
    BY <2>1 DEF Stops, n
  <2>3. QED
    BY <1>1, <2>1, <2>2 DEF Stops
<1>6. u = j
  BY <1>2, <1>3, <1>4, <1>5
<1>7. QED
  BY <1>6 DEF u

\* What Trimmed leaves: s is what stands at i .. t.
Trims(f, i, j, s, t) ==
    /\ t \in i - 1 .. j
    /\ s \in Seq(Chars) /\ Len(s) = t - i + 1
    /\ \A k \in 1 .. Len(s) : s[k] = f[i + k - 1]
    /\ t = i - 1 \/ f[t] \notin Blank
    /\ \A l \in t + 1 .. j : f[l] \in Blank

\* The blanks at the end go, and only these.
LEMMA TrimmedStops ==
    ASSUME NEW f, TextFile(f), NEW i \in 1 .. Len(f) + 1, NEW j \in i - 1 .. Len(f)
    PROVE  \E t : Trims(f, i, j, Trimmed(f, i, j), t)
<1> DEFINE P(k) == /\ k = i - 1 \/ f[k] \notin Blank
                   /\ \A l \in k + 1 .. j : f[l] \in Blank
           T == {m \in 0 .. j - i + 1 : j - m = i - 1 \/ f[j - m] \notin Blank}
           t == CHOOSE k \in i - 1 .. j : P(k)
<1>1. /\ Len(f) \in Nat /\ i \in Nat /\ j \in Nat /\ i - 1 <= j /\ j <= Len(f)
      /\ i > 0 /\ f \in Seq(Chars)
  BY FileType DEF TextFile
<1>2. j - i + 1 \in T /\ T \in SUBSET Nat
  BY <1>1
<1>3. PICK m \in T : \A k \in T : m <= k
  BY <1>2, First
<1>4. j - m \in i - 1 .. j /\ m \in Nat
  BY <1>1, <1>3
<1>5. \A l \in j - m + 1 .. j : f[l] \in Blank
  <2> SUFFICES ASSUME NEW l \in j - m + 1 .. j, f[l] \notin Blank PROVE FALSE
    OBVIOUS
  <2> DEFINE r == j - l
  <2>1. r \in 0 .. j - i + 1 /\ r < m /\ j - r = l
    BY <1>1, <1>4
  <2>2. r \in T
    BY <2>1
  <2>3. m <= r
    BY <1>3, <2>2
  <2>4. QED
    BY <1>4, <2>1, <2>3
<1>6. P(j - m)
  BY <1>3, <1>5
<1> HIDE DEF P, T
<1>7. t \in i - 1 .. j /\ P(t)
  BY <1>4, <1>6
<1>8. Trimmed(f, i, j) = SubSeq(f, i, t)
  BY DEF Trimmed, P
<1> HIDE DEF t
<1>9. /\ SubSeq(f, i, t) \in Seq(Chars) /\ Len(SubSeq(f, i, t)) = t - i + 1
      /\ \A k \in 1 .. t - i + 1 : SubSeq(f, i, t)[k] = f[i + k - 1]
  BY <1>1, <1>7, SubSeqProperties
<1>10. QED
  BY <1>7, <1>8, <1>9 DEF Trims, P

-----------------------------------------------------------------------------
(* Where something begins *)

\* The file's first character does.
LEMMA BeginsFirst ==
    ASSUME NEW f PROVE Begins(f, 1)
<1>1. Leads(f, 1)
  BY DEF Leads
<1>2. QED
  BY <1>1 DEF Begins

\* So does what stands behind a blank, if that blank did,
LEMMA BeginsBehindBlank ==
    ASSUME NEW f, NEW i \in Nat \ {0}, Begins(f, i), f[i] \in Blank
    PROVE  Begins(f, i + 1)
<1>1. PICK c \in 0 .. i - 1 : /\ c = 0 \/ f[c] \in {LF, "]"}
                              /\ \A k \in c + 1 .. i - 1 : f[k] \in Blank
  BY DEF Begins, Leads
<1>2. \A k \in c + 1 .. i : f[k] \in Blank
  BY <1>1
<1>3. Leads(f, i + 1)
  BY <1>1, <1>2 DEF Leads
<1>4. ASSUME NEW k \in 1 .. i, f[k] \notin Blank, \A l \in k .. i : f[l] # LF, Leads(f, k)
      PROVE  f[k] = "[" /\ \E l \in k .. i : f[l] = "]"
  <2>1. k \in 1 .. i - 1 /\ \A l \in k .. i - 1 : l \in k .. i
    BY <1>4
  <2>2. QED
    BY <1>4, <2>1 DEF Begins
<1>5. QED
  BY <1>3, <1>4 DEF Begins

\* and the next line,
LEMMA BeginsBehindLine ==
    ASSUME NEW f, NEW i \in Nat \ {0}, f[i] = LF
    PROVE  Begins(f, i + 1)
<1>1. Leads(f, i + 1)
  BY DEF Leads
<1>2. QED
  BY <1>1 DEF Begins

\* and what stands behind a header.
LEMMA BeginsBehindHeader ==
    ASSUME NEW f, NEW i \in Nat \ {0}, Begins(f, i), f[i] = "[",
           NEW s \in Nat, i <= s, f[s] \in {"]", LF},
           \A k \in i .. s - 1 : f[k] \notin {"]", LF}
    PROVE  Begins(f, s + 1)
<1>1. CASE f[s] = LF
  BY <1>1, BeginsBehindLine
<1>2. CASE f[s] = "]"
  <2>1. Leads(f, s + 1)
    BY <1>2 DEF Leads
  <2>2. ASSUME NEW k \in 1 .. s, f[k] \notin Blank, \A l \in k .. s : f[l] # LF, Leads(f, k)
        PROVE  f[k] = "[" /\ \E l \in k .. s : f[l] = "]"
    <3>1. CASE k < i
      <4>1. k \in 1 .. i - 1 /\ \A l \in k .. i - 1 : l \in k .. s
        BY <3>1
      <4>2. QED
        BY <2>2, <4>1 DEF Begins
    <3>2. CASE k = i
      BY <1>2, <3>2
    <3>3. CASE k > i
      <4>1. PICK c \in 0 .. k - 1 : /\ c = 0 \/ f[c] \in {LF, "]"}
                                    /\ \A l \in c + 1 .. k - 1 : f[l] \in Blank
        BY <2>2 DEF Leads
      <4>2. "[" \notin Blank
        BY DEF Blank, SP, CR
      <4>3. ~ (c < i)
        BY <3>3, <4>1, <4>2
      <4>4. c \in i .. s - 1 /\ c # 0
        BY <3>3, <4>1, <4>3
      <4>5. QED
        BY <4>1, <4>4
    <3>4. QED
      BY <3>1, <3>2, <3>3
  <2>3. QED
    BY <2>1, <2>2 DEF Begins
<1>3. QED
  BY <1>1, <1>2

\* Behind the begin of anything nothing new begins in the line, unless that was
\* a header and is closed.
LEMMA NoneBegins ==
    ASSUME NEW f, NEW i \in Nat \ {0}, Begins(f, i), f[i] \notin Blank,
           NEW s \in Nat, \A k \in i .. s - 1 : f[k] # LF,
           f[i] # "[" \/ \A k \in i .. s - 1 : f[k] # "]",
           NEW k \in i + 1 .. s
    PROVE  ~ Begins(f, k)
<1> SUFFICES ASSUME Begins(f, k) PROVE FALSE
  OBVIOUS
<1>1. i \in 1 .. k - 1 /\ \A l \in i .. k - 1 : l \in i .. s - 1
  OBVIOUS
<1>2. f[i] = "[" /\ \E l \in i .. k - 1 : f[l] = "]"
  BY <1>1 DEF Begins
<1>3. QED
  BY <1>1, <1>2

-----------------------------------------------------------------------------
(* Headers and pairs, and how far they reach *)

Items(f) == Headers(f) \cup Pairs(f)

\* Where the name of a header ends, or the line of a pair.
Stop(f, i) == IF i \in Headers(f) THEN NameStop(f, i) ELSE LineStop(f, i)

\* An entry that has a '='.
HasEquals(f, i) ==
    /\ i \in Entries(f)
    /\ EqualsAt(f, i) \in DOMAIN f /\ f[EqualsAt(f, i)] = "="

\* Whether the value of an entry has quotes.
IsQuoted(f, i) == ValueFrom(f, i) \in DOMAIN f /\ f[ValueFrom(f, i)] = QUOTE

\* What begins at an item.
LEMMA ItemAt ==
    ASSUME NEW f, TextFile(f), NEW i \in Items(f)
    PROVE  /\ i \in 1 .. Len(f) /\ Begins(f, i) /\ f[i] \notin Blank \cup {LF, ";"}
           /\ i \in Headers(f) <=> f[i] = "["
           /\ i \in Pairs(f) => HasEquals(f, i) /\ Value(f, i) # << >>
           /\ i \in Headers(f) \/ i \in Pairs(f)
<1>1. DOMAIN f = 1 .. Len(f)
  BY FileType
<1>2. i \in Headers(f) \/ i \in Pairs(f)
  BY DEF Items
<1>3. i \in Headers(f) => i \in DOMAIN f /\ f[i] = "[" /\ Begins(f, i)
  BY DEF Headers
<1>4. i \in Pairs(f) =>
         /\ i \in DOMAIN f /\ f[i] \notin Blank \cup {LF, "[", ";"} /\ Begins(f, i)
         /\ HasEquals(f, i) /\ Value(f, i) # << >>
  BY DEF Pairs, Entries, HasEquals
<1>5. "[" \notin Blank \cup {LF, ";"}
  BY DEF Blank, SP, CR, LF
<1>6. QED
  BY <1>1, <1>2, <1>3, <1>4, <1>5

\* Within a line that has begun there is no other item, unless that line is a
\* header and closed.
LEMMA NoItemInside ==
    ASSUME NEW f, TextFile(f), NEW i \in 1 .. Len(f), Begins(f, i), f[i] \notin Blank,
           NEW s \in Nat, \A k \in i .. s - 1 : f[k] # LF,
           f[i] # "[" \/ \A k \in i .. s - 1 : f[k] # "]"
    PROVE  \A k \in i + 1 .. s : ~ Begins(f, k) /\ k \notin Items(f)
<1>1. i \in Nat \ {0}
  BY FileType
<1>2. \A k \in i + 1 .. s : ~ Begins(f, k)
  BY <1>1, NoneBegins
<1>3. QED
  BY <1>2, ItemAt

\* The end of a header's name.
LEMMA HeaderStop ==
    ASSUME NEW f, TextFile(f), NEW i \in 1 .. Len(f), f[i] = "["
    PROVE  /\ NameStop(f, i) \in i + 1 .. Len(f) + 1
           /\ \A k \in i .. NameStop(f, i) - 1 : f[k] \notin {"]", LF}
           /\ NameStop(f, i) <= Len(f) => f[NameStop(f, i)] \in {"]", LF}
<1> DEFINE s == NameStop(f, i)
<1>1. Len(f) \in Nat /\ i \in 1 .. Len(f) + 1
  BY FileType
<1>2. Stops(f, i, {"]", LF}, s)
  BY <1>1, UntilStops DEF NameStop
<1> HIDE DEF s
<1>3. /\ s \in i .. Len(f) + 1
      /\ s = Len(f) + 1 \/ f[s] \in {"]", LF}
      /\ \A k \in i .. s - 1 : f[k] \notin {"]", LF}
  BY <1>2 DEF Stops
<1>4. s # i
  BY <1>1, <1>3 DEF LF
<1>5. s \in i + 1 .. Len(f) + 1
  BY <1>1, <1>3, <1>4
<1>6. s <= Len(f) => f[s] \in {"]", LF}
  BY <1>1, <1>3
<1>7. QED
  BY <1>3, <1>5, <1>6 DEF s

\* The end of a line.
LEMMA LineStopAt ==
    ASSUME NEW f, TextFile(f), NEW i \in 1 .. Len(f) + 1
    PROVE  /\ LineStop(f, i) \in i .. Len(f) + 1
           /\ \A k \in i .. LineStop(f, i) - 1 : f[k] # LF
           /\ LineStop(f, i) <= Len(f) => f[LineStop(f, i)] = LF
<1> DEFINE s == LineStop(f, i)
<1>1. Len(f) \in Nat
  BY FileType
<1>2. Stops(f, i, {LF}, s)
  BY UntilStops DEF LineStop
<1> HIDE DEF s
<1>3. /\ s \in i .. Len(f) + 1
      /\ s = Len(f) + 1 \/ f[s] = LF
      /\ \A k \in i .. s - 1 : f[k] # LF
  BY <1>2 DEF Stops
<1>4. s <= Len(f) => f[s] = LF
  BY <1>1, <1>3
<1>5. QED
  BY <1>3, <1>4 DEF s

\* All positions of a line have the same end.
LEMMA SameLine ==
    ASSUME NEW f, TextFile(f), NEW i \in 1 .. Len(f) + 1, NEW j \in i .. Len(f) + 1,
           \A k \in i .. j - 1 : f[k] # LF
    PROVE  LineStop(f, i) = LineStop(f, j) /\ j <= LineStop(f, i)
<1> DEFINE s == LineStop(f, j)
<1>1. Len(f) \in Nat /\ i \in Nat /\ j \in 1 .. Len(f) + 1
  BY FileType
<1>2. /\ s \in j .. Len(f) + 1
      /\ \A k \in j .. s - 1 : f[k] # LF
      /\ s <= Len(f) => f[s] = LF
  BY <1>1, LineStopAt
<1> HIDE DEF s
<1>3. s \in i .. Len(f) + 1 /\ (s = Len(f) + 1 \/ f[s] \in {LF})
  BY <1>1, <1>2
<1>4. \A k \in i .. s - 1 : f[k] \notin {LF}
  BY <1>1, <1>2
<1>5. Stops(f, i, {LF}, s)
  BY <1>3, <1>4 DEF Stops
<1>6. LineStop(f, i) = s
  BY <1>1, <1>5, UntilIs DEF LineStop
<1>7. QED
  BY <1>1, <1>2, <1>6 DEF s

\* The '=' of an entry and what is behind it are in one line.
LEMMA EqualsIn ==
    ASSUME NEW f, TextFile(f), NEW i, HasEquals(f, i)
    PROVE  /\ i \in 1 .. Len(f) /\ f[i] \notin Blank \cup {LF, "[", ";"} /\ Begins(f, i)
           /\ EqualsAt(f, i) \in i .. Len(f) /\ f[EqualsAt(f, i)] = "="
           /\ ValueFrom(f, i) \in EqualsAt(f, i) + 1 .. Len(f) + 1
           /\ \A k \in i .. EqualsAt(f, i) - 1 : f[k] \notin {"=", LF}
           /\ \A k \in EqualsAt(f, i) + 1 .. ValueFrom(f, i) - 1 : f[k] \in Blank
           /\ ValueFrom(f, i) <= Len(f) => f[ValueFrom(f, i)] \notin Blank
           /\ \A k \in i .. ValueFrom(f, i) - 1 : f[k] # LF
           /\ LineStop(f, i) = LineStop(f, ValueFrom(f, i))
           /\ ValueFrom(f, i) <= LineStop(f, i)
<1> DEFINE n == Len(f)
           e == EqualsAt(f, i)
           v == ValueFrom(f, i)
<1>1. n \in Nat
  BY FileType
<1>2. \A k \in 1 .. n : f[k] \in Chars
  BY FileType
<1>3. /\ i \in DOMAIN f /\ f[i] \notin Blank \cup {LF, "[", ";"} /\ Begins(f, i)
      /\ e \in DOMAIN f /\ f[e] = "="
  BY DEF HasEquals, Entries
<1>4. i \in 1 .. n /\ e \in 1 .. n
  BY <1>3, FileType
<1>5. i \in 1 .. n + 1 /\ e + 1 \in 1 .. n + 1
  BY <1>1, <1>4
<1>6. Stops(f, i, {"=", LF}, e)
  BY <1>5, UntilStops DEF EqualsAt
<1>7. Stops(f, e + 1, Chars \ Blank, v)
  BY <1>5, UntilStops DEF ValueFrom
<1> HIDE DEF e, v
<1>8. e \in i .. n
  <2>1. e \in i .. n + 1
    BY <1>6 DEF Stops
  <2>2. QED
    BY <1>1, <1>4, <2>1
<1>9. \A k \in i .. e - 1 : f[k] \notin {"=", LF}
  BY <1>6 DEF Stops
<1>10. v \in e + 1 .. n + 1
  BY <1>7 DEF Stops
<1>11. /\ v = n + 1 \/ f[v] \in Chars \ Blank
       /\ \A k \in e + 1 .. v - 1 : f[k] \notin Chars \ Blank
  BY <1>7 DEF Stops
<1>12. \A k \in e + 1 .. v - 1 : f[k] \in Blank
  <2> SUFFICES ASSUME NEW k \in e + 1 .. v - 1 PROVE f[k] \in Blank
    OBVIOUS
  <2>1. k \in 1 .. n
    BY <1>1, <1>4, <1>10
  <2>2. QED
    BY <1>2, <1>11, <2>1
<1>13. v <= n => f[v] \notin Blank
  <2>1. v <= n => v # n + 1
    BY <1>1, <1>4, <1>10
  <2>2. QED
    BY <1>11, <2>1
<1>14. LF \notin Blank /\ LF # "="
  BY DEF LF, Blank, SP, CR
<1>15. \A k \in i .. v - 1 : f[k] # LF
  <2> SUFFICES ASSUME NEW k \in i .. v - 1 PROVE f[k] # LF
    OBVIOUS
  <2>1. k \in i .. e - 1 \/ k = e \/ k \in e + 1 .. v - 1
    BY <1>4, <1>10
  <2>2. QED
    BY <1>3, <1>9, <1>12, <1>14, <2>1
<1>16. i \in 1 .. n + 1 /\ v \in i .. n + 1
  BY <1>1, <1>4, <1>8, <1>10
<1>17. LineStop(f, i) = LineStop(f, v) /\ v <= LineStop(f, i)
  BY <1>15, <1>16, SameLine
<1>18. QED
  BY <1>3, <1>4, <1>8, <1>9, <1>10, <1>12, <1>13, <1>15, <1>17 DEF e, v

\* The key stands at i, and behind it are blanks until the '='.
LEMMA KeyAt ==
    ASSUME NEW f, TextFile(f), NEW i, HasEquals(f, i)
    PROVE  /\ Key(f, i) \in Seq(Chars) /\ Len(Key(f, i)) \in Nat
           /\ i + Len(Key(f, i)) <= EqualsAt(f, i)
           /\ \A k \in 1 .. Len(Key(f, i)) : Key(f, i)[k] = f[i + k - 1]
           /\ \A l \in i + Len(Key(f, i)) .. EqualsAt(f, i) - 1 : f[l] \in Blank
           /\ Len(Key(f, i)) # 0 => f[i + Len(Key(f, i)) - 1] \notin Blank
<1> DEFINE e == EqualsAt(f, i)
           s == Key(f, i)
<1>1. /\ i \in 1 .. Len(f) /\ e \in i .. Len(f)
  BY EqualsIn
<1>2. Len(f) \in Nat
  BY FileType
<1>3. i \in 1 .. Len(f) + 1 /\ e - 1 \in i - 1 .. Len(f)
  BY <1>1, <1>2
<1>4. PICK t : Trims(f, i, e - 1, s, t)
  BY <1>3, TrimmedStops DEF Key
<1> HIDE DEF e, s
<1>5. /\ t \in i - 1 .. e - 1
      /\ s \in Seq(Chars) /\ Len(s) = t - i + 1
      /\ \A k \in 1 .. Len(s) : s[k] = f[i + k - 1]
      /\ t = i - 1 \/ f[t] \notin Blank
      /\ \A l \in t + 1 .. e - 1 : f[l] \in Blank
  BY <1>4 DEF Trims
<1>6. Len(s) \in Nat /\ i + Len(s) <= e /\ t = i + Len(s) - 1 /\ t + 1 = i + Len(s)
  BY <1>1, <1>5
<1>7. Len(s) # 0 => f[i + Len(s) - 1] \notin Blank
  BY <1>1, <1>5, <1>6
<1>8. QED
  BY <1>5, <1>6, <1>7 DEF e, s

\* A value that is not quoted stands at v, and behind it are blanks until the
\* end of the line.
LEMMA PlainAt ==
    ASSUME NEW f, TextFile(f), NEW i, HasEquals(f, i),
           ~ IsQuoted(f, i)
    PROVE  /\ Value(f, i) \in Seq(Chars) /\ Len(Value(f, i)) \in Nat
           /\ ValueFrom(f, i) + Len(Value(f, i)) <= LineStop(f, i)
           /\ \A k \in 1 .. Len(Value(f, i)) : Value(f, i)[k] = f[ValueFrom(f, i) + k - 1]
           /\ \A l \in ValueFrom(f, i) + Len(Value(f, i)) .. LineStop(f, i) - 1 : f[l] \in Blank
           /\ Len(Value(f, i)) # 0 => f[ValueFrom(f, i) + Len(Value(f, i)) - 1] \notin Blank
           /\ Len(Value(f, i)) = 0 <=> ValueFrom(f, i) = LineStop(f, i)
<1> DEFINE n == Len(f)
           v == ValueFrom(f, i)
           e == LineStop(f, i)
           s == Value(f, i)
<1>1. v \in EqualsAt(f, i) + 1 .. n + 1 /\ EqualsAt(f, i) \in i .. n /\ i \in 1 .. n
  BY EqualsIn
<1>2. v <= n => f[v] \notin Blank
  BY EqualsIn
<1>3. e = LineStop(f, v) /\ v <= e
  BY EqualsIn
<1>4. s = Trimmed(f, v, LineStop(f, v) - 1)
  BY DEF Value, IsQuoted
<1> HIDE DEF v, e, s
<1>5. n \in Nat
  BY FileType
<1>6. v \in 1 .. n + 1
  BY <1>1, <1>5
<1>7. e \in v .. n + 1
  BY <1>3, <1>6, LineStopAt
<1>8. e - 1 \in v - 1 .. n
  BY <1>5, <1>6, <1>7
<1>9. PICK t : Trims(f, v, e - 1, s, t)
  BY <1>3, <1>4, <1>6, <1>8, TrimmedStops
<1>10. t \in v - 1 .. e - 1 /\ Len(s) = t - v + 1
  BY <1>9 DEF Trims
<1>11. /\ s \in Seq(Chars)
       /\ \A k \in 1 .. Len(s) : s[k] = f[v + k - 1]
       /\ t = v - 1 \/ f[t] \notin Blank
       /\ \A l \in t + 1 .. e - 1 : f[l] \in Blank
  BY <1>9 DEF Trims
<1>12. Len(s) \in Nat /\ v + Len(s) <= e /\ t = v + Len(s) - 1 /\ t + 1 = v + Len(s)
  BY <1>6, <1>7, <1>10
<1>13. Len(s) # 0 => f[v + Len(s) - 1] \notin Blank
  <2>1. Len(s) # 0 => t # v - 1
    BY <1>6, <1>10
  <2>2. QED
    BY <1>11, <1>12, <2>1
<1>14. Len(s) = 0 => v = e
  <2> SUFFICES ASSUME Len(s) = 0, v # e PROVE FALSE
    BY Zenon
  <2>1. v \in t + 1 .. e - 1 /\ v <= n
    BY <1>5, <1>6, <1>7, <1>12
  <2>2. QED
    BY <1>2, <1>11, <2>1
<1>15. v = e => Len(s) = 0
  BY <1>6, <1>7, <1>12
<1>16. Len(s) = 0 <=> v = e
  BY <1>14, <1>15
<1>17. \A l \in v + Len(s) .. e - 1 : f[l] \in Blank
  BY <1>11, <1>12
<1>18. QED
  BY <1>11, <1>12, <1>13, <1>16, <1>17 DEF v, e, s

-----------------------------------------------------------------------------
(* Quoted values *)

\* Odd and even.
LEMMA Parity == \A m \in Nat : (m + 1) % 2 = 1 <=> m % 2 # 1
  OBVIOUS

\* The run of backslashes that ends at k begins somewhere.
LEMMA RunBegins ==
    ASSUME NEW f, NEW v \in Nat, NEW k \in Nat, v < k, f[k] = "\\"
    PROVE  \E j \in v + 1 .. k : /\ \A l \in j .. k : f[l] = "\\"
                                 /\ j = v + 1 \/ f[j - 1] # "\\"
<1> DEFINE T == {j \in v + 1 .. k : \A l \in j .. k : f[l] = "\\"}
<1>1. k \in T /\ T \in SUBSET Nat
  OBVIOUS
<1>2. PICK j \in T : \A m \in T : j <= m
  BY <1>1, First
<1>3. j \in v + 1 .. k /\ \A l \in j .. k : f[l] = "\\"
  BY <1>2
<1>4. j = v + 1 \/ f[j - 1] # "\\"
  <2> SUFFICES ASSUME j # v + 1, f[j - 1] = "\\" PROVE FALSE
    OBVIOUS
  <2> DEFINE i == j - 1
  <2>1. i \in v + 1 .. k /\ i < j
    BY <1>3
  <2>2. \A l \in i .. k : l = i \/ l \in j .. k
    BY <1>3
  <2>3. \A l \in i .. k : f[l] = "\\"
    BY <1>3, <2>2
  <2>4. i \in T
    BY <2>1, <2>3
  <2>5. j <= i
    BY <1>2, <2>4
  <2>6. QED
    BY <1>3, <2>1, <2>5
<1>5. QED
  BY <1>3, <1>4

\* A character is escaped if the one before it escapes it, and the first of a
\* value never is.
LEMMA EscapedNext ==
    ASSUME NEW f, NEW v \in Nat, NEW k \in Nat, v < k
    PROVE  Escaped(f, v, k + 1) <=> Escapes(f, v, k)
<1>1. ASSUME Escaped(f, v, k + 1) PROVE Escapes(f, v, k)
  <2>1. PICK j \in v + 1 .. k : /\ (k + 1 - j) % 2 = 1
                                /\ \A l \in j .. k : f[l] = "\\"
                                /\ j = v + 1 \/ f[j - 1] # "\\"
    BY <1>1 DEF Escaped
  <2>2. f[k] = "\\"
    BY <2>1
  <2>3. ASSUME Escaped(f, v, k) PROVE FALSE
    <3>1. PICK i \in v + 1 .. k - 1 : /\ (k - i) % 2 = 1
                                      /\ \A l \in i .. k - 1 : f[l] = "\\"
                                      /\ i = v + 1 \/ f[i - 1] # "\\"
      BY <2>3 DEF Escaped
    <3>2. ~ (j < i)
      <4> SUFFICES ASSUME j < i PROVE FALSE
        OBVIOUS
      <4>1. i # v + 1 /\ i - 1 \in j .. k
        BY <3>1
      <4>2. QED
        BY <2>1, <3>1, <4>1
    <3>3. ~ (i < j)
      <4> SUFFICES ASSUME i < j PROVE FALSE
        OBVIOUS
      <4>1. j # v + 1 /\ j - 1 \in i .. k - 1
        BY <3>1
      <4>2. QED
        BY <2>1, <3>1, <4>1
    <3>4. i = j
      BY <3>2, <3>3
    <3>5. k - j \in Nat /\ (k - j) % 2 = 1 /\ (k - j + 1) % 2 = 1
      <4>1. k - j \in Nat /\ k - j + 1 = k + 1 - j
        BY <3>4
      <4>2. QED
        BY <2>1, <3>1, <3>4, <4>1
    <3>6. QED
      BY <3>5, Parity
  <2>4. QED
    BY <2>2, <2>3 DEF Escapes
<1>2. ASSUME Escapes(f, v, k) PROVE Escaped(f, v, k + 1)
  <2>1. f[k] = "\\" /\ ~ Escaped(f, v, k)
    BY <1>2 DEF Escapes
  <2>2. PICK j \in v + 1 .. k : /\ \A l \in j .. k : f[l] = "\\"
                                /\ j = v + 1 \/ f[j - 1] # "\\"
    BY <2>1, RunBegins
  <2>3. k - j \in Nat /\ k - j + 1 = k + 1 - j
    OBVIOUS
  <2>4. (k - j) % 2 # 1
    <3> SUFFICES ASSUME (k - j) % 2 = 1 PROVE FALSE
      OBVIOUS
    <3>1. j # k
      OBVIOUS
    <3>2. j \in v + 1 .. k - 1 /\ \A l \in j .. k - 1 : f[l] = "\\"
      BY <2>2, <3>1
    <3>3. Escaped(f, v, k)
      BY <2>2, <3>2 DEF Escaped
    <3>4. QED
      BY <2>1, <3>3
  <2>5. (k + 1 - j) % 2 = 1
    BY <2>3, <2>4, Parity
  <2>6. k + 1 - 1 = k
    OBVIOUS
  <2>7. QED
    BY <2>2, <2>5, <2>6 DEF Escaped
<1>3. QED
  BY <1>1, <1>2

\* The first character of a quoted value is not escaped.
LEMMA EscapedFirst ==
    ASSUME NEW f, NEW v \in Nat
    PROVE  ~ Escaped(f, v, v + 1)
  BY DEF Escaped

\* There is one place where a value ends.
LEMMA QuoteStopIs ==
    ASSUME NEW f, TextFile(f), NEW v \in 1 .. Len(f), NEW k \in v + 1 .. Len(f) + 1,
           Closing(f, v, k), \A l \in v + 1 .. k - 1 : ~ Closing(f, v, l)
    PROVE  QuoteStop(f, v) = k
<1> DEFINE P(j) == Closing(f, v, j) /\ \A l \in v + 1 .. j - 1 : ~ Closing(f, v, l)
           s == QuoteStop(f, v)
<1>1. Len(f) \in Nat
  BY FileType
<1>2. P(k)
  OBVIOUS
<1>3. s = CHOOSE j \in v + 1 .. Len(f) + 1 : P(j)
  BY DEF QuoteStop
<1> HIDE DEF P, s
<1>4. s \in v + 1 .. Len(f) + 1 /\ P(s)
  BY <1>2, <1>3
<1>5. ~ (s < k)
  <2> SUFFICES ASSUME s < k PROVE FALSE
    OBVIOUS
  <2>1. s \in v + 1 .. k - 1
    BY <1>1, <1>4
  <2>2. QED
    BY <1>4, <2>1 DEF P
<1>6. ~ (k < s)
  <2> SUFFICES ASSUME k < s PROVE FALSE
    OBVIOUS
  <2>1. k \in v + 1 .. s - 1
    BY <1>1, <1>4
  <2>2. QED
    BY <1>4, <2>1 DEF P
<1>7. s = k
  BY <1>1, <1>4, <1>5, <1>6
<1>8. QED
  BY <1>7 DEF s

\* The numbers 1 .. c are the ranks in a set of c positions.
Ranked(T, c) ==
    /\ IsFiniteSet(T) /\ Cardinality(T) = c /\ c \in Nat
    /\ \A l \in T : Rank(T, l) \in 1 .. c
    /\ \A m \in 1 .. c : \E l \in T : Rank(T, l) = m

\* To begin with there are none.
LEMMA RankedEmpty == Ranked({}, 0)
<1>1. IsFiniteSet({}) /\ Cardinality({}) = 0
  BY FS_EmptySet
<1>2. QED
  BY <1>1 DEF Ranked

\* A position behind all others gets the next rank.
LEMMA RankedNext ==
    ASSUME NEW T \in SUBSET Nat, NEW c \in Nat, Ranked(T, c), NEW k \in Nat,
           \A l \in T : l < k
    PROVE  /\ Ranked(T \cup {k}, c + 1)
           /\ \A l \in T : Rank(T \cup {k}, l) = Rank(T, l)
           /\ Rank(T \cup {k}, k) = c + 1
<1> DEFINE U == T \cup {k}
<1>1. IsFiniteSet(T) /\ Cardinality(T) = c
  BY DEF Ranked
<1>2. k \notin T
  OBVIOUS
<1>3. IsFiniteSet(U) /\ Cardinality(U) = c + 1
  BY <1>1, <1>2, FS_AddElement
<1>4. \A l \in T : Rank(U, l) = Rank(T, l)
  <2> SUFFICES ASSUME NEW l \in T PROVE Rank(U, l) = Rank(T, l)
    OBVIOUS
  <2>1. {m \in U : m < l} = {m \in T : m < l}
    OBVIOUS
  <2>2. QED
    BY <2>1 DEF Rank
<1>5. Rank(U, k) = c + 1
  <2>1. ~ (k < k)
    OBVIOUS
  <2>2. {m \in U : m < k} = T
    BY <2>1, Zenon
  <2>3. QED
    BY <1>1, <2>2 DEF Rank
<1> HIDE DEF U
<1>6. \A l \in U : Rank(U, l) \in 1 .. c + 1
  <2> SUFFICES ASSUME NEW l \in U PROVE Rank(U, l) \in 1 .. c + 1
    OBVIOUS
  <2>1. CASE l \in T
    <3>1. Rank(U, l) \in 1 .. c
      BY <1>4, <2>1 DEF Ranked
    <3>2. QED
      BY <3>1
  <2>2. CASE l = k
    BY <1>5, <2>2
  <2>3. QED
    BY <2>1, <2>2 DEF U
<1>7. \A m \in 1 .. c + 1 : \E l \in U : Rank(U, l) = m
  <2> SUFFICES ASSUME NEW m \in 1 .. c + 1 PROVE \E l \in U : Rank(U, l) = m
    OBVIOUS
  <2>1. CASE m = c + 1
    BY <1>5, <2>1 DEF U
  <2>2. CASE m \in 1 .. c
    <3>1. PICK l \in T : Rank(T, l) = m
      BY <2>2 DEF Ranked
    <3>2. l \in U /\ Rank(U, l) = m
      BY <1>4, <3>1 DEF U
    <3>3. QED
      BY <3>2
  <2>3. QED
    BY <2>1, <2>2
<1>8. Ranked(U, c + 1)
  BY <1>3, <1>6, <1>7 DEF Ranked
<1>9. QED
  BY <1>4, <1>5, <1>8 DEF U

\* A character joins those that are kept unless it escapes the next.
LEMMA KeptNext ==
    ASSUME NEW f, NEW v \in Nat, NEW k \in Nat, v < k
    PROVE  /\ Escapes(f, v, k) => KeptUpTo(f, v, k + 1) = KeptUpTo(f, v, k)
           /\ ~ Escapes(f, v, k) => KeptUpTo(f, v, k + 1) = KeptUpTo(f, v, k) \cup {k}
<1>1. v + 1 .. (k + 1) - 1 = (v + 1 .. k - 1) \cup {k} /\ k \notin v + 1 .. k - 1
  OBVIOUS
<1>2. QED
  BY <1>1, Zenon DEF KeptUpTo

\* What unescape_quoted_value has copied when it has come to k.
Copied(f, d, v, k, w) ==
    /\ Ranked(KeptUpTo(f, v, k), w - v)
    /\ \A l \in KeptUpTo(f, v, k) : d[v + Rank(KeptUpTo(f, v, k), l) - 1] = Meant(f, v, l)

\* One more.
LEMMA CopiedNext ==
    ASSUME NEW f, NEW d, NEW v \in Nat, NEW k \in Nat, v < k, NEW w \in Nat, v <= w,
           Copied(f, d, v, k, w), w \in DOMAIN d, NEW m \in Nat, k <= m,
           KeptUpTo(f, v, m + 1) = KeptUpTo(f, v, k) \cup {m}
    PROVE  Copied(f, [d EXCEPT ![w] = Meant(f, v, m)], v, m + 1, w + 1)
<1> DEFINE T == KeptUpTo(f, v, k)
           U == KeptUpTo(f, v, m + 1)
           c == w - v
           e == [d EXCEPT ![w] = Meant(f, v, m)]
<1>1. T \in SUBSET Nat /\ \A l \in T : l < m
  BY DEF KeptUpTo
<1>2. c \in Nat /\ w = v + c /\ w + 1 - v = c + 1
  OBVIOUS
<1>3. /\ Ranked(T, c)
      /\ \A l \in T : d[v + Rank(T, l) - 1] = Meant(f, v, l)
  BY DEF Copied
<1>4. U = T \cup {m}
  OBVIOUS
<1> HIDE DEF T, U, c
<1>5. /\ Ranked(U, c + 1)
      /\ \A l \in T : Rank(U, l) = Rank(T, l)
      /\ Rank(U, m) = c + 1
  BY <1>1, <1>2, <1>3, <1>4, RankedNext, ZenonT(60)
<1>6. \A l \in U : e[v + Rank(U, l) - 1] = Meant(f, v, l)
  <2> SUFFICES ASSUME NEW l \in U PROVE e[v + Rank(U, l) - 1] = Meant(f, v, l)
    OBVIOUS
  <2>1. CASE l = m
    <3>1. v + Rank(U, l) - 1 = w
      BY <1>2, <1>5, <2>1
    <3>2. QED
      BY <2>1, <3>1
  <2>2. CASE l \in T
    <3> DEFINE r == Rank(T, l)
    <3>1. r \in 1 .. c
      BY <1>3, <2>2 DEF Ranked
    <3>2. Rank(U, l) = r
      BY <1>5, <2>2
    <3>3. d[v + r - 1] = Meant(f, v, l)
      BY <1>3, <2>2
    <3> HIDE DEF r
    <3>4. v + r - 1 # w
      BY <1>2, <3>1
    <3>5. e[v + r - 1] = d[v + r - 1]
      BY <3>4
    <3>6. QED
      BY <3>2, <3>3, <3>5
  <2>3. QED
    BY <1>4, <2>1, <2>2
<1>7. Ranked(U, w + 1 - v)
  BY <1>2, <1>5
<1>8. QED
  BY <1>6, <1>7 DEF Copied, U

\* When it has come to the end, the value is in the buffer.
LEMMA QuotedIs ==
    ASSUME NEW f, TextFile(f), NEW d, NEW v \in 1 .. Len(f), NEW w \in Nat, v <= w,
           NEW k \in v + 1 .. Len(f) + 1, QuoteStop(f, v) = k, Copied(f, d, v, k, w)
    PROVE  /\ Quoted(f, v) \in Seq(Chars) /\ Len(Quoted(f, v)) = w - v
           /\ \A m \in 1 .. w - v : /\ d[v + m - 1] = Quoted(f, v)[m]
                                    /\ Quoted(f, v)[m] # NUL
<1> DEFINE T == KeptUpTo(f, v, k)
           c == w - v
           P(m, l) == l \in T /\ Rank(T, l) = m
           s == Quoted(f, v)
<1>1. Len(f) \in Nat /\ \A l \in 1 .. Len(f) : f[l] \in Chars /\ f[l] # NUL
  BY FileType
<1>2. c \in Nat
  OBVIOUS
<1>3. /\ Cardinality(T) = c
      /\ \A m \in 1 .. c : \E l \in T : Rank(T, l) = m
      /\ \A l \in T : d[v + Rank(T, l) - 1] = Meant(f, v, l)
  BY DEF Copied, Ranked
<1>4. s = [m \in 1 .. Cardinality(T) |-> Meant(f, v, CHOOSE l \in T : Rank(T, l) = m)]
  BY DEF Quoted
<1>5. \A l \in T : l \in 1 .. Len(f)
  BY <1>1 DEF KeptUpTo
<1> HIDE DEF T, c, s
<1>6. s = [m \in 1 .. c |-> Meant(f, v, CHOOSE l \in T : Rank(T, l) = m)]
  BY <1>3, <1>4
<1>7. ASSUME NEW m \in 1 .. c
      PROVE  s[m] \in Chars /\ s[m] # NUL /\ d[v + m - 1] = s[m]
  <2> DEFINE l == CHOOSE l \in T : Rank(T, l) = m
  <2>1. l \in T /\ Rank(T, l) = m
    BY <1>3
  <2>2. s[m] = Meant(f, v, l)
    BY <1>6
  <2> HIDE DEF l
  <2>3. f[l] \in Chars /\ f[l] # NUL
    BY <1>1, <1>5, <2>1
  <2>4. Unescaped(f[l]) \in Chars /\ Unescaped(f[l]) # NUL
    BY <2>3 DEF Unescaped, Chars, Blank, NUL, CR, LF, SP
  <2>5. s[m] \in Chars /\ s[m] # NUL
    BY <2>2, <2>3, <2>4 DEF Meant
  <2>6. d[v + m - 1] = s[m]
    BY <1>3, <2>1, <2>2
  <2>7. QED
    BY <2>5, <2>6
<1>8. s \in [1 .. c -> Chars]
  BY <1>6, <1>7
<1>9. s \in Seq(Chars) /\ Len(s) = c
  BY <1>2, <1>8
<1>10. QED
  BY <1>7, <1>9 DEF c, s

-----------------------------------------------------------------------------
(* The buffer behind the pointer of split_data, and ahead of it *)

KeyEnd(f, i)   == i + Len(Key(f, i))
ValueEnd(f, i) == ValueFrom(f, i) + Len(Value(f, i))

\* The buffer d holds what the file says at item i.
HeaderIn(f, d, i) == \A k \in i .. NameStop(f, i) - 1 : d[k] = f[k]
KeyIn(f, d, i)    == \A k \in 1 .. Len(Key(f, i)) : d[i + k - 1] = Key(f, i)[k]
ValueIn(f, d, i)  ==
    /\ Value(f, i) \in Seq(Chars)
    /\ ValueEnd(f, i) <= LineStop(f, i)
    /\ \A k \in 1 .. Len(Value(f, i)) :
          d[ValueFrom(f, i) + k - 1] = Value(f, i)[k] /\ Value(f, i)[k] # NUL
ItemIn(f, d, i) ==
    /\ i \in Headers(f) => HeaderIn(f, d, i)
    /\ i \in Pairs(f) => KeyIn(f, d, i) /\ ValueIn(f, d, i)

\* Position k belongs to a string of item i.
Covers(f, i, k) ==
    \/ i \in Headers(f) /\ k \in i .. NameStop(f, i) - 1
    \/ i \in Pairs(f) /\ k \in i .. KeyEnd(f, i) - 1
    \/ i \in Pairs(f) /\ k \in ValueFrom(f, i) .. ValueEnd(f, i) - 1

\* Up to m the buffer holds the items of the file and zeros,
Done(f, d, m) ==
    /\ \A i \in Items(f) : i < m => Stop(f, i) <= m /\ ItemIn(f, d, i)
    /\ \A k \in 1 .. m - 1 : d[k] # NUL => \E i \in Items(f) : i < m /\ Covers(f, i, k)

\* from m on it is the file,
Ahead(f, d, m) == \A k \in m .. Len(f) : d[k] = f[k]

\* and where split_data stands something begins, or it stands before that.
Here(f, d, m) ==
    m <= Len(f) =>
       \/ d[m] = f[m] /\ Begins(f, m) /\ (m = 1 \/ d[m - 1] = NUL)
       \/ d[m] \in {NUL, LF} /\ m \notin Items(f) /\ Begins(f, m + 1)

SplitUpTo(f, d, m) == Done(f, d, m) /\ Ahead(f, d, m + 1) /\ Here(f, d, m)

\* The strings of an item end where the item does.
LEMMA CoversIn ==
    ASSUME NEW f, TextFile(f), NEW d, NEW i \in Items(f), ItemIn(f, d, i),
           NEW k, Covers(f, i, k)
    PROVE  k \in i .. Stop(f, i) - 1
<1>1. i \in 1 .. Len(f) /\ Len(f) \in Nat
  BY ItemAt, FileType
<1>2. CASE i \in Headers(f)
  <2>1. i \notin Pairs(f)
    <3>1. f[i] = "["
      BY <1>2, ItemAt
    <3>2. i \in Pairs(f) => f[i] # "["
      BY DEF Pairs, Entries
    <3>3. QED
      BY <3>1, <3>2
  <2>2. k \in i .. NameStop(f, i) - 1
    BY <2>1, Zenon DEF Covers
  <2>3. QED
    BY <1>2, <2>2, Zenon DEF Stop
<1>3. CASE i \notin Headers(f)
  <2>1. i \in Pairs(f)
    BY <1>3 DEF Items
  <2>2. HasEquals(f, i) /\ ValueIn(f, d, i)
    BY <2>1, ItemAt DEF ItemIn
  <2> DEFINE v == ValueFrom(f, i)
             e == EqualsAt(f, i)
             s == LineStop(f, i)
             a == KeyEnd(f, i)
             b == ValueEnd(f, i)
  <2>3. k \in i .. a - 1 \/ k \in v .. b - 1
    BY <1>3, Zenon DEF Covers
  <2>4. v \in e + 1 .. Len(f) + 1 /\ v <= s /\ e \in i .. Len(f)
    BY <2>2, EqualsIn
  <2>5. s \in i .. Len(f) + 1
    <3>1. i \in 1 .. Len(f) + 1
      BY <1>1
    <3>2. QED
      BY <3>1, LineStopAt
  <2>6. a <= e /\ a \in Nat
    <3>1. i + Len(Key(f, i)) <= e /\ Len(Key(f, i)) \in Nat
      BY <2>2, KeyAt
    <3>2. QED
      BY <1>1, <3>1 DEF KeyEnd
  <2>7. b <= s /\ b \in Nat
    <3>1. Len(Value(f, i)) \in Nat
      BY <2>2, LenProperties DEF ValueIn
    <3>2. v \in Nat
      BY <1>1, <2>4
    <3>3. QED
      BY <2>2, <3>1, <3>2 DEF ValueIn, ValueEnd
  <2>8. Stop(f, i) = s
    BY <1>3, Zenon DEF Stop
  <2> HIDE DEF v, e, s, a, b
  <2>9. k \in i .. s - 1
    BY <1>1, <2>3, <2>4, <2>5, <2>6, <2>7
  <2>10. QED
    BY <2>8, <2>9
<1>4. QED
  BY <1>2, <1>3

\* An item stays in the buffer as long as nothing is written to its strings.
LEMMA ItemStays ==
    ASSUME NEW f, TextFile(f), NEW d, NEW g, NEW i \in Items(f), ItemIn(f, d, i),
           \A k \in i .. Stop(f, i) - 1 : g[k] = d[k]
    PROVE  ItemIn(f, g, i)
<1>1. \A k : Covers(f, i, k) => g[k] = d[k]
  BY CoversIn
<1>2. i \in 1 .. Len(f) /\ Len(f) \in Nat
  BY ItemAt, FileType
<1>3. i \in Headers(f) => HeaderIn(f, g, i)
  <2> SUFFICES ASSUME i \in Headers(f), NEW k \in i .. NameStop(f, i) - 1
               PROVE  g[k] = f[k]
    BY DEF HeaderIn
  <2>1. Covers(f, i, k)
    BY Zenon DEF Covers
  <2>2. d[k] = f[k]
    BY Zenon DEF ItemIn, HeaderIn
  <2>3. QED
    BY <1>1, <2>1, <2>2
<1>4. ASSUME i \in Pairs(f) PROVE KeyIn(f, g, i) /\ ValueIn(f, g, i)
  <2>1. HasEquals(f, i) /\ KeyIn(f, d, i) /\ ValueIn(f, d, i)
    BY <1>4, ItemAt DEF ItemIn
  <2>2. Len(Key(f, i)) \in Nat
    BY <2>1, KeyAt
  <2>3. Len(Value(f, i)) \in Nat
    BY <2>1, LenProperties DEF ValueIn
  <2>4. ValueFrom(f, i) \in Nat
    <3>1. ValueFrom(f, i) \in EqualsAt(f, i) + 1 .. Len(f) + 1 /\ EqualsAt(f, i) \in i .. Len(f)
      BY <2>1, EqualsIn
    <3>2. QED
      BY <1>2, <3>1
  <2>5. ASSUME NEW k \in 1 .. Len(Key(f, i)) PROVE g[i + k - 1] = Key(f, i)[k]
    <3> DEFINE j == i + k - 1
    <3>1. j \in i .. KeyEnd(f, i) - 1
      BY <1>2, <2>2 DEF KeyEnd
    <3> HIDE DEF j
    <3>2. Covers(f, i, j)
      BY <1>4, <3>1, Zenon DEF Covers
    <3>3. g[j] = d[j]
      BY <1>1, <3>2
    <3>4. d[j] = Key(f, i)[k]
      BY <2>1 DEF KeyIn, j
    <3>5. QED
      BY <3>3, <3>4 DEF j
  <2>6. ASSUME NEW k \in 1 .. Len(Value(f, i))
        PROVE  g[ValueFrom(f, i) + k - 1] = Value(f, i)[k] /\ Value(f, i)[k] # NUL
    <3> DEFINE j == ValueFrom(f, i) + k - 1
    <3>1. j \in ValueFrom(f, i) .. ValueEnd(f, i) - 1
      BY <2>3, <2>4 DEF ValueEnd
    <3> HIDE DEF j
    <3>2. Covers(f, i, j)
      BY <1>4, <3>1, Zenon DEF Covers
    <3>3. g[j] = d[j]
      BY <1>1, <3>2
    <3>4. d[j] = Value(f, i)[k] /\ Value(f, i)[k] # NUL
      BY <2>1 DEF ValueIn, j
    <3>5. QED
      BY <3>3, <3>4 DEF j
  <2>7. KeyIn(f, g, i)
    BY <2>5 DEF KeyIn
  <2>8. ValueIn(f, g, i)
    BY <2>1, <2>6 DEF ValueIn
  <2>9. QED
    BY <2>7, <2>8
<1>5. QED
  BY <1>3, <1>4 DEF ItemIn

\* One more item, or what is none, is behind the pointer.
LEMMA DoneNext ==
    ASSUME NEW f, TextFile(f), NEW d, NEW g, NEW i \in 1 .. Len(f) + 1,
           NEW e \in i .. Len(f) + 1, Done(f, d, i),
           \A k \in 1 .. i - 1 : g[k] = d[k],
           \A k \in i + 1 .. e - 1 : k \notin Items(f),
           i \in Items(f) /\ i < e => Stop(f, i) <= e /\ ItemIn(f, g, i),
           \A k \in i .. e - 1 : g[k] # NUL => i \in Items(f) /\ Covers(f, i, k)
    PROVE  Done(f, g, e)
<1>1. Len(f) \in Nat
  BY FileType
<1>2. ASSUME NEW j \in Items(f), j < e
      PROVE  Stop(f, j) <= e /\ ItemIn(f, g, j)
  <2>1. j \in 1 .. Len(f)
    BY ItemAt
  <2>2. CASE j < i
    <3>1. Stop(f, j) <= i /\ ItemIn(f, d, j)
      BY <2>2 DEF Done
    <3>2. Stop(f, j) \in Nat
      <4>1. j \in 1 .. Len(f) + 1
        BY <1>1, <2>1
      <4>2. LineStop(f, j) \in j .. Len(f) + 1
        BY <4>1, LineStopAt
      <4>3. j \in Headers(f) => NameStop(f, j) \in j + 1 .. Len(f) + 1
        BY <2>1, ItemAt, HeaderStop
      <4>4. Stop(f, j) \in j .. Len(f) + 1
        BY <1>1, <2>1, <4>2, <4>3 DEF Stop
      <4>5. QED
        BY <1>1, <2>1, <4>4
    <3>3. \A k \in j .. Stop(f, j) - 1 : k \in 1 .. i - 1
      BY <1>1, <2>1, <3>1, <3>2
    <3>4. \A k \in j .. Stop(f, j) - 1 : g[k] = d[k]
      BY <3>3
    <3>5. ItemIn(f, g, j)
      BY <3>1, <3>4, ItemStays
    <3>6. QED
      BY <1>1, <3>1, <3>2, <3>5
  <2>3. CASE j = i
    BY <1>2, <2>3
  <2>4. CASE j > i
    <3>1. j \in i + 1 .. e - 1
      BY <1>1, <1>2, <2>1, <2>4
    <3>2. QED
      BY <3>1
  <2>5. QED
    BY <2>1, <2>2, <2>3, <2>4
<1>3. ASSUME NEW k \in 1 .. e - 1, g[k] # NUL
      PROVE  \E j \in Items(f) : j < e /\ Covers(f, j, k)
  <2>1. CASE k < i
    <3>1. k \in 1 .. i - 1
      BY <2>1
    <3>2. d[k] # NUL
      BY <1>3, <3>1
    <3>3. PICK j \in Items(f) : j < i /\ Covers(f, j, k)
      BY <3>1, <3>2 DEF Done
    <3>4. j \in 1 .. Len(f)
      BY ItemAt
    <3>5. j < e
      BY <1>1, <3>3, <3>4
    <3>6. QED
      BY <3>3, <3>5
  <2>2. CASE k >= i
    <3>1. k \in i .. e - 1 /\ i < e
      BY <1>1, <2>2
    <3>2. QED
      BY <1>3, <3>1
  <2>3. QED
    BY <1>1, <2>1, <2>2
<1>4. QED
  BY <1>2, <1>3 DEF Done

\* The rest of a line is behind the pointer: its item, if it is one, is in the
\* buffer, and everything else of it is zero.
LEMMA LineDone ==
    ASSUME NEW f, TextFile(f), NEW d, NEW g, NEW i \in 1 .. Len(f),
           Begins(f, i), f[i] \notin Blank \cup {LF, "["}, Done(f, d, i),
           \A k \in 1 .. i - 1 : g[k] = d[k],
           i \in Items(f) => ItemIn(f, g, i),
           \A k \in i .. LineStop(f, i) - 1 : g[k] # NUL => i \in Items(f) /\ Covers(f, i, k),
           Ahead(f, g, LineStop(f, i))
    PROVE  SplitUpTo(f, g, LineStop(f, i))
<1> DEFINE e == LineStop(f, i)
<1>1. Len(f) \in Nat /\ i \in 1 .. Len(f) + 1
  BY FileType
<1>2. /\ e \in i .. Len(f) + 1
      /\ \A k \in i .. e - 1 : f[k] # LF
      /\ e <= Len(f) => f[e] = LF
  BY <1>1, LineStopAt
<1>3. i \in Items(f) => Stop(f, i) = e
  <2>1. i \notin Headers(f)
    BY DEF Headers
  <2>2. QED
    BY <2>1 DEF Stop
<1> HIDE DEF e
<1>4. e \in Nat
  BY <1>1, <1>2
<1>5. \A k \in i + 1 .. e : k \notin Items(f)
  BY <1>2, <1>4, NoItemInside
<1>6. \A k \in i + 1 .. e - 1 : k \notin Items(f)
  BY <1>4, <1>5
<1>7. i \in Items(f) /\ i < e => Stop(f, i) <= e /\ ItemIn(f, g, i)
  BY <1>3, <1>4
<1>8. \A k \in i .. e - 1 : g[k] # NUL => i \in Items(f) /\ Covers(f, i, k)
  BY DEF e
<1>9. Done(f, g, e)
  BY <1>1, <1>2, <1>6, <1>7, <1>8, DoneNext
<1>10. Ahead(f, g, e + 1)
  BY <1>1, <1>4 DEF Ahead, e
<1>11. Here(f, g, e)
  <2> SUFFICES ASSUME e <= Len(f) PROVE g[e] = LF /\ e \notin Items(f) /\ Begins(f, e + 1)
    BY Zenon DEF Here
  <2>1. f[e] = LF /\ e \in Nat \ {0} /\ e \in e .. Len(f)
    BY <1>1, <1>2, <1>4
  <2>2. g[e] = LF
    BY <2>1 DEF Ahead, e
  <2>3. e \notin Items(f)
    BY <2>1, ItemAt
  <2>4. Begins(f, e + 1)
    BY <2>1, BeginsBehindLine
  <2>5. QED
    BY <2>2, <2>3, <2>4
<1>12. QED
  BY <1>9, <1>10, <1>11 DEF SplitUpTo, e

-----------------------------------------------------------------------------
(* What the loops of split_data find in a buffer that is still the file *)

\* The buffer ini_load makes for file f.
Fits(f, d) == Buffer(d) /\ Len(d) = Len(f) + 1

\* It is an array that ends with a zero.
LEMMA FitsType ==
    ASSUME NEW f, TextFile(f), NEW d, Fits(f, d)
    PROVE  /\ Len(f) \in Nat /\ Len(d) = Len(f) + 1 /\ DOMAIN d = 1 .. Len(f) + 1
           /\ d[Len(f) + 1] = NUL
<1>1. Len(f) \in Nat
  BY FileType
<1>2. Buffer(d) /\ Len(d) = Len(f) + 1
  BY DEF Fits
<1>3. DOMAIN d = 1 .. Len(d) /\ d[Len(d)] = NUL
  BY <1>2, BufferType
<1>4. QED
  BY <1>1, <1>2, <1>3

\* strcspn finds the first place where it can stop.
LEMMA ScanIs ==
    ASSUME NEW d, NEW n \in Nat, Len(d) = n, NEW i \in Nat, NEW S, NEW j \in i .. n,
           d[j] \in S \cup {NUL}, \A k \in i .. j - 1 : d[k] \notin S \cup {NUL}
    PROVE  Scan(d, i, S) = j
<1> DEFINE P(m) == /\ d[m] \in S \cup {NUL}
                   /\ \A k \in i .. m - 1 : d[k] \notin S \cup {NUL}
           s == Scan(d, i, S)
<1>1. j \in i .. n /\ P(j)
  OBVIOUS
<1>2. s = CHOOSE m \in i .. n : P(m)
  BY DEF Scan
<1> HIDE DEF P, s
<1>3. s \in i .. n /\ P(s)
  BY <1>1, <1>2
<1>4. ~ (s < j)
  <2> SUFFICES ASSUME s < j PROVE FALSE
    OBVIOUS
  <2>1. s \in i .. j - 1
    BY <1>3
  <2>2. QED
    BY <1>1, <1>3, <2>1 DEF P
<1>5. ~ (j < s)
  <2> SUFFICES ASSUME j < s PROVE FALSE
    OBVIOUS
  <2>1. j \in i .. s - 1
    BY <1>3
  <2>2. QED
    BY <1>1, <1>3, <2>1 DEF P
<1>6. s = j
  BY <1>3, <1>4, <1>5
<1>7. QED
  BY <1>6 DEF s

\* So does the loop to the end of the line.
LEMMA LineEndIs ==
    ASSUME NEW d, NEW n \in Nat, Len(d) = n, NEW i \in Nat, NEW j \in i .. n,
           j = n \/ d[j] = LF, \A k \in i .. j - 1 : d[k] # LF
    PROVE  LineEnd(d, i) = j
<1> DEFINE P(m) == /\ m = n \/ d[m] = LF
                   /\ \A k \in i .. m - 1 : d[k] # LF
           s == LineEnd(d, i)
<1>1. j \in i .. n /\ P(j)
  OBVIOUS
<1>2. s = CHOOSE m \in i .. n : P(m)
  BY DEF LineEnd
<1> HIDE DEF P, s
<1>3. s \in i .. n /\ P(s)
  BY <1>1, <1>2
<1>4. ~ (s < j)
  <2> SUFFICES ASSUME s < j PROVE FALSE
    OBVIOUS
  <2>1. s \in i .. j - 1 /\ s # n
    BY <1>3
  <2>2. QED
    BY <1>1, <1>3, <2>1 DEF P
<1>5. ~ (j < s)
  <2> SUFFICES ASSUME j < s PROVE FALSE
    OBVIOUS
  <2>1. j \in i .. s - 1 /\ j # n
    BY <1>3
  <2>2. QED
    BY <1>1, <1>3, <2>1 DEF P
<1>6. s = j
  BY <1>3, <1>4, <1>5
<1>7. QED
  BY <1>6 DEF s

\* Where the buffer is the file, they find what the grammar speaks of.
LEMMA ScanAhead ==
    ASSUME NEW f, TextFile(f), NEW d, Fits(f, d), NEW i \in 1 .. Len(f) + 1,
           Ahead(f, d, i), NEW S
    PROVE  Scan(d, i, S) = Until(f, i, S)
<1> DEFINE n == Len(f) + 1
           j == Until(f, i, S)
<1>1. n \in Nat /\ i \in Nat /\ Len(d) = n /\ d[n] = NUL
  BY FitsType
<1>2. \A k \in i .. n - 1 : d[k] = f[k] /\ f[k] # NUL
  BY FileType DEF Ahead
<1>3. Stops(f, i, S, j)
  BY UntilStops
<1> HIDE DEF j
<1>4. /\ j \in i .. n
      /\ j = n \/ f[j] \in S
      /\ \A k \in i .. j - 1 : f[k] \notin S
  BY <1>3 DEF Stops
<1> HIDE DEF n
<1>5. d[j] \in S \cup {NUL}
  <2>1. CASE j = n
    BY <1>1, <2>1
  <2>2. CASE j # n
    <3>1. j \in i .. n - 1
      BY <1>1, <1>4, <2>2
    <3>2. d[j] = f[j] /\ f[j] \in S
      BY <1>2, <1>4, <2>2, <3>1
    <3>3. QED
      BY <3>2
  <2>3. QED
    BY <2>1, <2>2
<1>6. \A k \in i .. j - 1 : d[k] \notin S \cup {NUL}
  <2>1. \A k \in i .. j - 1 : k \in i .. n - 1
    BY <1>1, <1>4
  <2>2. QED
    BY <1>2, <1>4, <2>1
<1>7. Scan(d, i, S) = j
  BY <1>1, <1>4, <1>5, <1>6, ScanIs
<1>8. QED
  BY <1>7 DEF j

\* discard_line goes to the end of the file's line.
LEMMA LineEndAhead ==
    ASSUME NEW f, TextFile(f), NEW d, Fits(f, d), NEW i \in 1 .. Len(f) + 1,
           Ahead(f, d, i)
    PROVE  LineEnd(d, i) = LineStop(f, i)
<1> DEFINE n == Len(f) + 1
           j == LineStop(f, i)
<1>1. n \in Nat /\ i \in Nat /\ Len(d) = n
  BY FitsType
<1>2. \A k \in i .. n - 1 : d[k] = f[k]
  BY DEF Ahead
<1>3. /\ j \in i .. n
      /\ \A k \in i .. j - 1 : f[k] # LF
      /\ j <= Len(f) => f[j] = LF
  BY LineStopAt
<1> HIDE DEF j
<1>4. j = n \/ d[j] = LF
  <2>1. CASE j # n
    <3>1. j <= Len(f) /\ j \in i .. n - 1
      BY <1>1, <1>3, <2>1
    <3>2. QED
      BY <1>2, <1>3, <3>1
  <2>2. QED
    BY <2>1
<1>5. \A k \in i .. j - 1 : d[k] # LF
  <2>1. \A k \in i .. j - 1 : k \in i .. n - 1
    BY <1>1, <1>3
  <2>2. QED
    BY <1>2, <1>3, <2>1
<1> HIDE DEF n
<1>6. LineEnd(d, i) = j
  BY <1>1, <1>3, <1>4, <1>5, LineEndIs
<1>7. QED
  BY <1>6 DEF j

\* What trim_back zeroes.
LEMMA TrimBackIs ==
    ASSUME NEW d, NEW n \in Nat, DOMAIN d = 1 .. n, NEW j \in Nat, NEW t \in 1 .. j + 1,
           \A l \in t .. j : d[l] \in Blank, t = 1 \/ d[t - 1] \notin Blank,
           NEW k \in 1 .. n
    PROVE  trim_back(d, j)[k] = IF k \in t .. j THEN NUL ELSE d[k]
<1> DEFINE blanks == \A l \in k .. j : d[l] \in Blank
<1>1. trim_back(d, j)[k] = IF k <= j /\ blanks THEN NUL ELSE d[k]
  BY DEF trim_back
<1>2. CASE k \in t .. j
  <2>1. blanks /\ k <= j
    BY <1>2
  <2>2. QED
    BY <1>1, <1>2, <2>1
<1>3. CASE k > j
  BY <1>1, <1>3
<1>4. CASE k < t
  <2>1. t - 1 \in k .. j /\ t # 1
    BY <1>4
  <2>2. ~ blanks
    BY <2>1
  <2>3. k \notin t .. j
    BY <1>4
  <2>4. QED
    BY <1>1, <2>2, <2>3
<1>5. QED
  BY <1>2, <1>3, <1>4

\* What Zeros zeroes.
LEMMA ZerosIs ==
    ASSUME NEW d, NEW n \in Nat, DOMAIN d = 1 .. n, NEW i \in Nat, NEW j \in Nat,
           NEW k \in 1 .. n
    PROVE  Zeros(d, i, j)[k] = IF k \in i .. j - 1 THEN NUL ELSE d[k]
<1>1. Zeros(d, i, j)[k] = IF i <= k /\ k < j THEN NUL ELSE d[k]
  BY DEF Zeros
<1>2. k \in i .. j - 1 <=> (i <= k /\ k < j)
  OBVIOUS
<1>3. QED
  BY <1>1, <1>2

-----------------------------------------------------------------------------
(* Each turn of split_data takes the invariant further *)

\* A blank, an end of line or a zero: there is no item.
LEMMA BlankDone ==
    ASSUME NEW f, TextFile(f), NEW d, Fits(f, d), NEW m \in 1 .. Len(f),
           SplitUpTo(f, d, m), d[m] \in Blank \cup {LF, NUL}
    PROVE  SplitUpTo(f, Zeros(d, m, m + 1), m + 1)
<1> DEFINE n == Len(f) + 1
           g == Zeros(d, m, m + 1)
<1>1. Len(f) \in Nat /\ DOMAIN d = 1 .. n /\ m \in 1 .. n /\ m + 1 \in m .. n
  BY FitsType
<1>2. \A k \in 1 .. n : g[k] = IF k \in m .. m + 1 - 1 THEN NUL ELSE d[k]
  <2>1. n \in Nat /\ m \in Nat /\ m + 1 \in Nat /\ DOMAIN d = 1 .. n
    BY <1>1
  <2> HIDE DEF n
  <2>2. QED
    BY <2>1, ZerosIs
<1> HIDE DEF g
<1>3. g[m] = NUL /\ \A k \in 1 .. n : k # m => g[k] = d[k]
  BY <1>1, <1>2
<1>4. Done(f, d, m) /\ Ahead(f, d, m + 1) /\ Here(f, d, m)
  BY DEF SplitUpTo
<1>5. m \notin Items(f) /\ Begins(f, m + 1)
  <2>1. \/ d[m] = f[m] /\ Begins(f, m)
        \/ m \notin Items(f) /\ Begins(f, m + 1)
    BY <1>4 DEF Here
  <2>2. CASE d[m] = f[m] /\ Begins(f, m)
    <3>1. f[m] # NUL
      BY FileType
    <3>2. f[m] \in Blank \cup {LF}
      BY <2>2, <3>1
    <3>3. m \notin Items(f)
      BY <3>2, ItemAt
    <3>4. m \in Nat \ {0}
      BY <1>1
    <3>5. Begins(f, m + 1)
      BY <2>2, <3>2, <3>4, BeginsBehindBlank, BeginsBehindLine
    <3>6. QED
      BY <3>3, <3>5
  <2>3. QED
    BY <2>1, <2>2
<1>6. \A k \in 1 .. m - 1 : g[k] = d[k]
  BY <1>1, <1>3
<1>7. Done(f, g, m + 1)
  <2> DEFINE e == m + 1
  <2>1. m \in 1 .. Len(f) + 1 /\ e \in m .. Len(f) + 1
    BY <1>1
  <2>2. \A k \in m + 1 .. e - 1 : k \notin Items(f)
    BY <1>1
  <2>3. \A k \in m .. e - 1 : g[k] # NUL => m \in Items(f) /\ Covers(f, m, k)
    BY <1>1, <1>3
  <2> HIDE DEF e
  <2>4. Done(f, g, e)
    BY <1>4, <1>5, <1>6, <2>1, <2>2, <2>3, DoneNext
  <2>5. QED
    BY <2>4 DEF e
<1>8. Ahead(f, g, m + 1)
  <2> SUFFICES ASSUME NEW k \in m + 1 .. Len(f) PROVE g[k] = f[k]
    BY DEF Ahead
  <2>1. k \in 1 .. n /\ k # m
    BY <1>1
  <2>2. d[k] = f[k]
    BY <1>4 DEF Ahead
  <2>3. QED
    BY <1>3, <2>1, <2>2
<1>9. Ahead(f, g, m + 1 + 1)
  BY <1>1, <1>8 DEF Ahead
<1>10. Here(f, g, m + 1)
  <2> SUFFICES ASSUME m + 1 <= Len(f)
               PROVE  g[m + 1] = f[m + 1] /\ Begins(f, m + 1) /\ g[m + 1 - 1] = NUL
    BY DEF Here
  <2>1. g[m + 1] = f[m + 1]
    BY <1>1, <1>8 DEF Ahead
  <2>2. m + 1 - 1 = m
    BY <1>1
  <2>3. QED
    BY <1>3, <1>5, <2>1, <2>2
<1>11. QED
  BY <1>7, <1>9, <1>10 DEF SplitUpTo, g

\* At anything else something begins, and the buffer is still the file.
LEMMA LineBegins ==
    ASSUME NEW f, TextFile(f), NEW d, Fits(f, d), NEW m \in 1 .. Len(f),
           SplitUpTo(f, d, m), d[m] \notin Blank \cup {LF, NUL}
    PROVE  /\ Done(f, d, m) /\ Ahead(f, d, m) /\ d[m] = f[m] /\ Begins(f, m)
           /\ m = 1 \/ d[m - 1] = NUL
<1>1. Done(f, d, m) /\ Ahead(f, d, m + 1) /\ Here(f, d, m)
  BY DEF SplitUpTo
<1>2. d[m] = f[m] /\ Begins(f, m) /\ (m = 1 \/ d[m - 1] = NUL)
  BY <1>1 DEF Here
<1>3. Ahead(f, d, m)
  BY <1>1, <1>2 DEF Ahead
<1>4. QED
  BY <1>1, <1>2, <1>3

\* A header is an item.
LEMMA HeaderDone ==
    ASSUME NEW f, TextFile(f), NEW d, Fits(f, d), NEW m \in 1 .. Len(f),
           SplitUpTo(f, d, m), d[m] = "["
    PROVE  SplitUpTo(f, Zeros(d, Scan(d, m, {"]", LF}), Scan(d, m, {"]", LF}) + 1),
                     Scan(d, m, {"]", LF}))
<1> DEFINE n == Len(f) + 1
           s == NameStop(f, m)
           g == Zeros(d, s, s + 1)
<1>1. Len(f) \in Nat /\ DOMAIN d = 1 .. n /\ m \in 1 .. n /\ d[n] = NUL
  BY FitsType
<1>2. "[" \notin Blank \cup {LF, NUL}
  BY DEF Blank, SP, CR, LF, NUL
<1>3. Done(f, d, m) /\ Ahead(f, d, m) /\ f[m] = "[" /\ Begins(f, m)
  BY <1>2, LineBegins
<1>4. Scan(d, m, {"]", LF}) = s
  BY <1>1, <1>3, ScanAhead DEF NameStop
<1>5. NameStop(f, m) = s
  OBVIOUS
<1>6. /\ s \in m + 1 .. n
      /\ \A k \in m .. s - 1 : f[k] \notin {"]", LF}
      /\ s <= Len(f) => f[s] \in {"]", LF}
  BY <1>3, HeaderStop
<1> HIDE DEF s
<1>7. s \in 1 .. n /\ s \in m .. n /\ s \in Nat
  BY <1>1, <1>6
<1>8. \A k \in 1 .. n : g[k] = IF k \in s .. s + 1 - 1 THEN NUL ELSE d[k]
  BY <1>1, <1>7, ZerosIs
<1> HIDE DEF g
<1>9. g[s] = NUL /\ \A k \in 1 .. n : k # s => g[k] = d[k]
  BY <1>7, <1>8
<1>10. \A k \in m + 1 .. s : ~ Begins(f, k) /\ k \notin Items(f)
  <2>1. f[m] \notin Blank /\ \A k \in m .. s - 1 : f[k] # LF /\ f[k] # "]"
    BY <1>2, <1>3, <1>6
  <2>2. QED
    BY <1>3, <1>7, <2>1, NoItemInside
<1>11. m \in Headers(f) /\ m \in Items(f)
  <2>1. DOMAIN f = 1 .. Len(f)
    BY FileType
  <2>2. QED
    BY <1>3, <2>1 DEF Headers, Items
<1>12. \A k \in m .. s - 1 : g[k] = f[k]
  <2> SUFFICES ASSUME NEW k \in m .. s - 1 PROVE g[k] = f[k]
    OBVIOUS
  <2>1. k \in 1 .. n /\ k # s /\ k \in m .. Len(f)
    BY <1>1, <1>6
  <2>2. QED
    BY <1>3, <1>9, <2>1 DEF Ahead
<1>13. Stop(f, m) <= s /\ ItemIn(f, g, m)
  <2>1. Stop(f, m) = s
    BY <1>5, <1>11 DEF Stop
  <2>2. m \notin Pairs(f)
    BY <1>3 DEF Pairs, Entries
  <2>3. HeaderIn(f, g, m)
    BY <1>5, <1>12, Zenon DEF HeaderIn
  <2>4. QED
    BY <1>7, <2>1, <2>2, <2>3 DEF ItemIn
<1>14. \A k \in m .. s - 1 : Covers(f, m, k)
  BY <1>5, <1>11, Zenon DEF Covers
<1>15. Done(f, g, s)
  <2>1. \A k \in 1 .. m - 1 : g[k] = d[k]
    <3>1. \A k \in 1 .. m - 1 : k \in 1 .. n /\ k # s
      BY <1>1, <1>6
    <3>2. QED
      BY <1>9, <3>1
  <2>2. \A k \in m + 1 .. s - 1 : k \notin Items(f)
    BY <1>7, <1>10
  <2>3. m \in 1 .. Len(f) + 1 /\ s \in m .. Len(f) + 1
    BY <1>1, <1>7
  <2>4. \A k \in m .. s - 1 : g[k] # NUL => m \in Items(f) /\ Covers(f, m, k)
    BY <1>11, <1>14
  <2>5. m \in Items(f) /\ m < s => Stop(f, m) <= s /\ ItemIn(f, g, m)
    BY <1>13
  <2>6. Done(f, d, m)
    BY <1>3
  <2>7. QED
    BY <2>1, <2>2, <2>3, <2>4, <2>5, <2>6, DoneNext
<1>16. Ahead(f, g, s + 1)
  <2> SUFFICES ASSUME NEW k \in s + 1 .. Len(f) PROVE g[k] = f[k]
    BY DEF Ahead
  <2>1. k \in 1 .. n /\ k # s /\ k \in m .. Len(f)
    BY <1>1, <1>6
  <2>2. QED
    BY <1>3, <1>9, <2>1 DEF Ahead
<1>17. Here(f, g, s)
  <2> SUFFICES ASSUME s <= Len(f)
               PROVE  s \notin Items(f) /\ Begins(f, s + 1)
    BY <1>9, Zenon DEF Here
  <2>1. s \in m + 1 .. s
    BY <1>1, <1>6
  <2>2. s \notin Items(f)
    BY <1>10, <2>1
  <2>3. m \in Nat \ {0} /\ m <= s
    BY <1>1, <1>6
  <2>4. f[s] \in {"]", LF}
    BY <1>6
  <2>5. Begins(f, s + 1)
    BY <1>3, <1>6, <1>7, <2>3, <2>4, BeginsBehindHeader
  <2>6. QED
    BY <2>2, <2>5
<1>18. SplitUpTo(f, Zeros(d, s, s + 1), s)
  BY <1>15, <1>16, <1>17 DEF SplitUpTo, g
<1>19. QED
  BY <1>4, <1>18

\* A line that is no item leaves nothing.
LEMMA NothingDone ==
    ASSUME NEW f, TextFile(f), NEW d, Fits(f, d), NEW m \in 1 .. Len(f),
           SplitUpTo(f, d, m), d[m] \notin Blank \cup {LF, NUL, "["}, m \notin Items(f)
    PROVE  SplitUpTo(f, discard_line(d, m), LineEnd(d, m))
<1> DEFINE n == Len(f) + 1
           e == LineStop(f, m)
           g == Zeros(d, m, e)
<1>1. Len(f) \in Nat /\ DOMAIN d = 1 .. n /\ m \in 1 .. n
  BY FitsType
<1>2. Done(f, d, m) /\ Ahead(f, d, m) /\ f[m] \notin Blank \cup {LF, "["} /\ Begins(f, m)
  BY LineBegins
<1>3. LineEnd(d, m) = e
  BY <1>1, <1>2, LineEndAhead
<1>4. e \in m .. n
  BY <1>1, LineStopAt
<1> HIDE DEF e
<1>5. e \in Nat
  BY <1>1, <1>4
<1>6. \A k \in 1 .. n : g[k] = IF k \in m .. e - 1 THEN NUL ELSE d[k]
  BY <1>1, <1>5, ZerosIs
<1>7. discard_line(d, m) = g
  BY <1>3 DEF discard_line
<1> HIDE DEF g
<1>8. \A k \in 1 .. m - 1 : g[k] = d[k]
  <2>1. \A k \in 1 .. m - 1 : k \in 1 .. n /\ k \notin m .. e - 1
    BY <1>1
  <2>2. QED
    BY <1>6, <2>1
<1>9. \A k \in m .. e - 1 : g[k] = NUL
  <2>1. \A k \in m .. e - 1 : k \in 1 .. n
    BY <1>1, <1>4
  <2>2. QED
    BY <1>6, <2>1
<1>10. Ahead(f, g, e)
  <2>1. \A k \in e .. Len(f) : k \in 1 .. n /\ k \notin m .. e - 1 /\ k \in m .. Len(f)
    BY <1>1, <1>4
  <2>2. QED
    BY <1>2, <1>6, <2>1 DEF Ahead
<1>11. SplitUpTo(f, g, e)
  BY <1>2, <1>8, <1>9, <1>10, LineDone DEF e
<1>12. QED
  BY <1>3, <1>7, <1>11

\* The line of an entry is in the buffer as it is in the file.
EntryHere ==
    /\ TextFile(file) /\ Fits(file, data)
    /\ p \in 1 .. Len(file) /\ p \in Entries(file)
    /\ Done(file, data, p) /\ Ahead(file, data, p)
    /\ p = 1 \/ data[p - 1] = NUL

\* That is where split_data stands when it begins with one.
LEMMA EntryBegins ==
    ASSUME TextFile(file), Fits(file, data), p \in 1 .. Len(file),
           SplitUpTo(file, data, p), data[p] \notin Blank \cup {LF, NUL, "[", ";"}
    PROVE  EntryHere
<1>1. /\ Done(file, data, p) /\ Ahead(file, data, p) /\ data[p] = file[p] /\ Begins(file, p)
      /\ p = 1 \/ data[p - 1] = NUL
  BY LineBegins
<1>2. DOMAIN file = 1 .. Len(file)
  BY FileType
<1>3. p \in Entries(file)
  BY <1>1, <1>2 DEF Entries
<1>4. QED
  BY <1>1, <1>3 DEF EntryHere

\* The '=' that split_data finds is that of the line, if it has one,
LEMMA EqualsFound ==
    ASSUME EntryHere
    PROVE  /\ Equals = EqualsAt(file, p)
           /\ data[Equals] = "=" <=> HasEquals(file, p)
<1> DEFINE e == EqualsAt(file, p)
           n == Len(file) + 1
<1>1. TextFile(file) /\ Fits(file, data) /\ Ahead(file, data, p) /\ p \in Entries(file)
  BY DEF EntryHere
<1>2. Len(file) \in Nat /\ p \in 1 .. n /\ DOMAIN file = 1 .. Len(file) /\ data[n] = NUL
  BY <1>1, FileType, FitsType DEF EntryHere
<1>3. Equals = e
  BY <1>1, <1>2, ScanAhead DEF Equals, EqualsAt
<1>4. Stops(file, p, {"=", LF}, e)
  BY <1>1, <1>2, UntilStops DEF EqualsAt
<1>5. HasEquals(file, p) <=> e \in 1 .. Len(file) /\ file[e] = "="
  BY <1>1, <1>2 DEF HasEquals
<1> HIDE DEF e
<1>6. e \in p .. n
  BY <1>4 DEF Stops
<1>7. e \in 1 .. Len(file) => data[e] = file[e]
  BY <1>1, <1>2, <1>6 DEF Ahead
<1>8. e \notin 1 .. Len(file) => data[e] = NUL
  BY <1>2, <1>6
<1>9. NUL # "="
  BY DEF NUL
<1>10. data[e] = "=" <=> e \in 1 .. Len(file) /\ file[e] = "="
  BY <1>7, <1>8, <1>9
<1>11. QED
  BY <1>3, <1>5, <1>10 DEF e

\* and so is where the value begins.
LEMMA ValueFound ==
    ASSUME EntryHere, HasEquals(file, p)
    PROVE  /\ ValueAt = ValueFrom(file, p)
           /\ ValueAt \in p + 1 .. LineStop(file, p)
           /\ data[ValueAt] \in {LF, NUL} <=> ValueAt = LineStop(file, p)
           /\ ValueAt # LineStop(file, p) =>
                 ValueAt \in 1 .. Len(file) /\ data[ValueAt] = file[ValueAt]
<1> DEFINE n == Len(file) + 1
           e == EqualsAt(file, p)
           v == ValueFrom(file, p)
           s == LineStop(file, p)
           w == ValueAt
           P(j) == /\ data[j] \notin Blank
                   /\ \A k \in e + 1 .. j - 1 : data[k] \in Blank
<1>1. TextFile(file) /\ Fits(file, data) /\ Ahead(file, data, p) /\ p \in 1 .. Len(file)
  BY DEF EntryHere
<1>2. Len(file) \in Nat /\ data[n] = NUL /\ Len(data) = n /\ p \in 1 .. n
  BY <1>1, FitsType
<1>3. e \in p .. Len(file) /\ v \in e + 1 .. n
  BY <1>1, EqualsIn
<1>4. /\ \A k \in e + 1 .. v - 1 : file[k] \in Blank
      /\ v <= Len(file) => file[v] \notin Blank
  BY <1>1, EqualsIn
<1>5. v <= s /\ s = LineStop(file, v)
  BY <1>1, EqualsIn
<1>6. w = CHOOSE j \in e + 1 .. n : P(j)
  BY <1>2, EqualsFound DEF ValueAt, end
<1>7. \A k \in p .. Len(file) : data[k] = file[k]
  BY <1>1 DEF Ahead
<1> HIDE DEF e, v, s, w
<1>8. v \in 1 .. n /\ v \in p + 1 .. n
  BY <1>1, <1>2, <1>3
<1>9. data[v] \notin Blank
  <2>1. CASE v = n
    BY <1>2, <2>1 DEF NUL, Blank, SP, CR
  <2>2. CASE v # n
    <3>1. v \in p .. Len(file) /\ v <= Len(file)
      BY <1>1, <1>2, <1>8, <2>2
    <3>2. QED
      BY <1>4, <1>7, <3>1
  <2>3. QED
    BY <2>1, <2>2
<1>10. \A k \in e + 1 .. v - 1 : data[k] \in Blank
  <2>1. \A k \in e + 1 .. v - 1 : k \in p .. Len(file)
    BY <1>1, <1>2, <1>3
  <2>2. QED
    BY <1>4, <1>7, <2>1
<1>11. v \in e + 1 .. n /\ P(v)
  BY <1>3, <1>9, <1>10
<1> HIDE DEF P
<1>12. w \in e + 1 .. n /\ P(w)
  BY <1>6, <1>11
<1>13. w = v
  <2>1. ~ (w < v)
    <3> SUFFICES ASSUME w < v PROVE FALSE
      OBVIOUS
    <3>1. w \in e + 1 .. v - 1
      BY <1>2, <1>3, <1>12
    <3>2. QED
      BY <1>10, <1>12, <3>1 DEF P
  <2>2. ~ (v < w)
    <3> SUFFICES ASSUME v < w PROVE FALSE
      OBVIOUS
    <3>1. v \in e + 1 .. w - 1
      BY <1>2, <1>3, <1>12
    <3>2. QED
      BY <1>9, <1>12, <3>1 DEF P
  <2>3. QED
    BY <1>2, <1>3, <1>12, <2>1, <2>2
<1>14. s \in v .. n /\ (s <= Len(file) => file[s] = LF)
  BY <1>1, <1>5, <1>8, LineStopAt
<1>15. \A k \in v .. s - 1 : file[k] # LF
  BY <1>1, <1>5, <1>8, LineStopAt
<1>16. v # s => v \in 1 .. Len(file) /\ data[v] = file[v] /\ data[v] \notin {LF, NUL}
  <2> SUFFICES ASSUME v # s
               PROVE  v \in 1 .. Len(file) /\ data[v] = file[v] /\ data[v] \notin {LF, NUL}
    OBVIOUS
  <2>1. v \in 1 .. Len(file) /\ v \in p .. Len(file) /\ v \in v .. s - 1
    BY <1>1, <1>2, <1>8, <1>14
  <2>2. file[v] # LF /\ file[v] # NUL
    BY <1>1, <1>15, <2>1, FileType
  <2>3. QED
    BY <1>7, <2>1, <2>2
<1>17. v = s => data[v] \in {LF, NUL}
  <2> SUFFICES ASSUME v = s PROVE data[v] \in {LF, NUL}
    OBVIOUS
  <2>1. CASE v = n
    BY <1>2, <2>1
  <2>2. CASE v # n
    <3>1. v \in p .. Len(file) /\ v <= Len(file)
      BY <1>1, <1>2, <1>8, <2>2
    <3>2. QED
      BY <1>7, <1>14, <3>1
  <2>3. QED
    BY <2>1, <2>2
<1>18. v \in p + 1 .. s
  BY <1>1, <1>2, <1>8, <1>14
<1>19. data[v] \in {LF, NUL} <=> v = s
  BY <1>16, <1>17
<1>20. QED
  BY <1>13, <1>16, <1>18, <1>19 DEF v, s, w

\* KeyCut zeroes what is between the key and the value.
LEMMA KeyCutIs ==
    ASSUME EntryHere, HasEquals(file, p), NEW k \in 1 .. Len(file) + 1
    PROVE  KeyCut[k] = IF k \in KeyEnd(file, p) .. ValueFrom(file, p) - 1
                       THEN NUL ELSE data[k]
<1> DEFINE n == Len(file) + 1
           e == EqualsAt(file, p)
           v == ValueFrom(file, p)
           a == KeyEnd(file, p)
           c == Len(Key(file, p))
           h == trim_back(data, e - 1)
<1>1. TextFile(file) /\ Fits(file, data) /\ Ahead(file, data, p) /\ p \in 1 .. Len(file)
  BY DEF EntryHere
<1>2. Len(file) \in Nat /\ DOMAIN data = 1 .. n /\ n \in Nat
  BY <1>1, FitsType
<1>3. e \in p .. Len(file) /\ v \in e + 1 .. n
  BY <1>1, EqualsIn
<1>4. c \in Nat /\ p + c <= e
  BY <1>1, KeyAt
<1>5. /\ \A l \in p + c .. e - 1 : file[l] \in Blank
      /\ c # 0 => file[p + c - 1] \notin Blank
  BY <1>1, KeyAt
<1>6. a = p + c
  BY DEF KeyEnd
<1>7. KeyCut = Zeros(h, e, v)
  BY EqualsFound, ValueFound DEF KeyCut
<1> HIDE DEF e, v, a, c
<1>8. \A l \in p .. Len(file) : data[l] = file[l]
  BY <1>1 DEF Ahead
<1>9. a \in p .. e /\ e \in Nat /\ e - 1 \in Nat /\ v \in Nat
  BY <1>1, <1>2, <1>3, <1>4, <1>6
<1>10. \A l \in a .. e - 1 : data[l] \in Blank
  <2>1. \A l \in a .. e - 1 : l \in p .. Len(file) /\ l \in p + c .. e - 1
    BY <1>1, <1>2, <1>3, <1>6, <1>9
  <2>2. QED
    BY <1>5, <1>8, <2>1
<1>11. a = 1 \/ data[a - 1] \notin Blank
  <2>1. CASE c = 0
    <3>1. a = p
      BY <1>1, <1>6, <2>1
    <3>2. p = 1 \/ data[p - 1] = NUL
      BY DEF EntryHere
    <3>3. NUL \notin Blank
      BY DEF NUL, Blank, SP, CR
    <3>4. QED
      BY <3>1, <3>2, <3>3
  <2>2. CASE c # 0
    <3> DEFINE b == a - 1
    <3>1. b = p + c - 1 /\ b \in p .. Len(file)
      BY <1>1, <1>2, <1>3, <1>4, <1>6, <1>9, <2>2
    <3> HIDE DEF b
    <3>2. file[b] \notin Blank
      BY <1>5, <2>2, <3>1
    <3>3. data[b] \notin Blank
      BY <1>8, <3>1, <3>2
    <3>4. QED
      BY <3>3 DEF b
  <2>3. QED
    BY <2>1, <2>2
<1>12. \A l \in 1 .. n : h[l] = IF l \in a .. e - 1 THEN NUL ELSE data[l]
  <2> DEFINE j == e - 1
  <2>1. j \in Nat /\ a \in 1 .. j + 1
    BY <1>1, <1>9
  <2>2. \A l \in a .. j : data[l] \in Blank
    BY <1>10
  <2> HIDE DEF j
  <2>3. \A l \in 1 .. n : trim_back(data, j)[l] = IF l \in a .. j THEN NUL ELSE data[l]
    BY <1>2, <1>11, <2>1, <2>2, TrimBackIs
  <2>4. QED
    BY <2>3 DEF j
<1>13. DOMAIN h = 1 .. n
  BY <1>2 DEF trim_back
<1> HIDE DEF h, n
<1>14. Zeros(h, e, v)[k] = IF k \in e .. v - 1 THEN NUL ELSE h[k]
  BY <1>2, <1>9, <1>13, ZerosIs DEF n
<1>15. k \in 1 .. n
  BY DEF n
<1>16. KeyCut[k] = IF k \in e .. v - 1 THEN NUL ELSE IF k \in a .. e - 1 THEN NUL ELSE data[k]
  BY <1>7, <1>12, <1>14, <1>15
<1>17. k \in Int
  BY <1>2, <1>15
<1>18. k \in a .. v - 1 <=> k \in e .. v - 1 \/ k \in a .. e - 1
  BY <1>3, <1>9, <1>17
<1>19. KeyCut[k] = IF k \in a .. v - 1 THEN NUL ELSE data[k]
  BY <1>16, <1>18
<1>20. QED
  BY <1>19 DEF a, v

\* A line without a '=' or without a value is no item.
LEMMA NoPairHere ==
    ASSUME EntryHere, ~ HasValue
    PROVE  p \notin Items(file)
<1>1. TextFile(file) /\ p \in Entries(file) /\ p \in 1 .. Len(file)
  BY DEF EntryHere
<1>2. p \notin Headers(file)
  BY <1>1 DEF Entries, Headers
<1>3. p \notin Pairs(file)
  <2> SUFFICES ASSUME p \in Pairs(file) PROVE FALSE
    OBVIOUS
  <2>1. HasEquals(file, p) /\ Value(file, p) # << >>
    BY DEF Pairs, HasEquals
  <2>2. data[ValueAt] \in {LF, NUL}
    BY <2>1, EqualsFound DEF HasValue
  <2>3. ValueFrom(file, p) = LineStop(file, p)
    BY <2>1, <2>2, ValueFound
  <2>4. ~ IsQuoted(file, p)
    <3> DEFINE v == ValueFrom(file, p)
    <3>1. DOMAIN file = 1 .. Len(file)
      BY <1>1, FileType
    <3>2. v <= Len(file) => file[v] = LF
      <4>1. p \in 1 .. Len(file) + 1
        BY <1>1, FileType
      <4>2. LineStop(file, p) <= Len(file) => file[LineStop(file, p)] = LF
        BY <1>1, <4>1, LineStopAt
      <4>3. QED
        BY <2>3, <4>2
    <3> HIDE DEF v
    <3>3. LF # QUOTE
      BY QuoteIs
    <3>4. ~ (v \in 1 .. Len(file) /\ file[v] = QUOTE)
      BY <3>2, <3>3
    <3>5. QED
      BY <3>1, <3>4 DEF IsQuoted, v
  <2>5. Value(file, p) \in Seq(Chars) /\ Len(Value(file, p)) = 0
    BY <1>1, <2>1, <2>3, <2>4, PlainAt
  <2>6. Value(file, p) = << >>
    BY <2>5, EmptySeq
  <2>7. QED
    BY <2>1, <2>6
<1>4. QED
  BY <1>2, <1>3 DEF Items

\* A pair is in the buffer, and everything else of its line is zero.
LEMMA PairDone ==
    ASSUME NEW f, TextFile(f), NEW d, NEW g, NEW i \in Pairs(f), Done(f, d, i),
           \A k \in 1 .. i - 1 : g[k] = d[k],
           KeyIn(f, g, i), ValueIn(f, g, i),
           \A k \in i .. LineStop(f, i) - 1 :
              g[k] # NUL => \/ k \in i .. KeyEnd(f, i) - 1
                            \/ k \in ValueFrom(f, i) .. ValueEnd(f, i) - 1,
           Ahead(f, g, LineStop(f, i))
    PROVE  SplitUpTo(f, g, LineStop(f, i))
<1>1. i \in Items(f)
  BY DEF Items
<1>2. i \in 1 .. Len(f) /\ Begins(f, i) /\ f[i] \notin Blank \cup {LF}
  BY <1>1, ItemAt
<1>3. f[i] # "["
  BY DEF Pairs, Entries
<1>4. i \notin Headers(f)
  BY <1>3 DEF Headers
<1>5. ItemIn(f, g, i)
  BY <1>4 DEF ItemIn
<1>6. \A k \in i .. LineStop(f, i) - 1 : g[k] # NUL => i \in Items(f) /\ Covers(f, i, k)
  BY <1>1, Zenon DEF Covers
<1>7. QED
  BY <1>1, <1>2, <1>3, <1>5, <1>6, LineDone

\* A pair with a plain value is an item.
LEMMA PlainPair ==
    ASSUME EntryHere, HasValue, data[ValueAt] # QUOTE
    PROVE  SplitUpTo(file, trim_back(KeyCut, Scan(KeyCut, ValueAt, {LF}) - 1),
                     Scan(KeyCut, ValueAt, {LF}))
<1> DEFINE n == Len(file) + 1
           e == EqualsAt(file, p)
           v == ValueFrom(file, p)
           s == LineStop(file, p)
           a == KeyEnd(file, p)
           b == ValueEnd(file, p)
           c == Len(Key(file, p))
           w == Len(Value(file, p))
           h == KeyCut
           g == trim_back(h, s - 1)
<1>1. TextFile(file) /\ Fits(file, data) /\ Ahead(file, data, p) /\ p \in 1 .. Len(file)
  BY DEF EntryHere
<1>2. Len(file) \in Nat /\ n \in Nat /\ Len(data) = n
  BY <1>1, FitsType
<1>3. HasEquals(file, p)
  BY EqualsFound DEF HasValue
<1>4. ValueAt = v /\ v \in p + 1 .. s /\ v # s
  BY <1>3, ValueFound DEF HasValue
<1>5. v \in 1 .. Len(file) /\ data[v] = file[v]
  BY <1>3, <1>4, ValueFound
<1>6. ~ IsQuoted(file, p)
  BY <1>4, <1>5 DEF IsQuoted
<1>7. s \in p .. n /\ s = LineStop(file, v)
  <2>1. p \in 1 .. Len(file) + 1
    BY <1>1, <1>2
  <2>2. QED
    BY <1>1, <1>3, <2>1, EqualsIn, LineStopAt
<1>8. e \in p .. Len(file) /\ v \in e + 1 .. n
  BY <1>1, <1>3, EqualsIn
<1>9. c \in Nat /\ p + c <= e /\ \A k \in 1 .. c : Key(file, p)[k] = file[p + k - 1]
  BY <1>1, <1>3, KeyAt
<1>10. Value(file, p) \in Seq(Chars) /\ w \in Nat /\ v + w <= s /\ w # 0
  BY <1>1, <1>3, <1>4, <1>6, PlainAt
<1>11. /\ \A k \in 1 .. w : Value(file, p)[k] = file[v + k - 1]
       /\ \A l \in v + w .. s - 1 : file[l] \in Blank
       /\ file[v + w - 1] \notin Blank
  BY <1>1, <1>3, <1>4, <1>6, <1>10, PlainAt
<1>12. p \in Pairs(file)
  <2>1. Value(file, p) # << >>
    BY <1>10
  <2>2. QED
    BY <1>3, <2>1 DEF Pairs, HasEquals
<1>13. Fits(file, h)
  <2>1. p \in 1 .. end /\ Buffer(data) /\ Len(data) = end
    BY <1>1, <1>2 DEF end, Fits
  <2>2. QED
    BY <1>2, <2>1, KeyCutType DEF Fits
<1>14. \A k \in 1 .. n : h[k] = IF k \in a .. v - 1 THEN NUL ELSE data[k]
  BY <1>3, KeyCutIs
<1>15. a = p + c /\ b = v + w
  BY DEF KeyEnd, ValueEnd
<1>16. Ahead(file, h, v) => Scan(h, v, {LF}) = s
  <2>1. v \in 1 .. Len(file) + 1
    BY <1>2, <1>5
  <2>2. QED
    BY <1>1, <1>7, <1>13, <2>1, ScanAhead DEF LineStop
<1>17. \A k \in p .. Len(file) : data[k] = file[k] /\ file[k] # NUL
  <2>1. \A k \in 1 .. Len(file) : file[k] # NUL
    BY <1>1, FileType
  <2>2. QED
    BY <1>1, <2>1 DEF Ahead
<1>18. DOMAIN h = 1 .. n
  BY <1>1, <1>13, FitsType
<1> HIDE DEF e, v, s, a, b, c, w, h
<1>19. a \in p .. e /\ b \in v + 1 .. s /\ p \in Nat /\ v \in Nat /\ s \in Nat /\ e \in Nat
  BY <1>1, <1>2, <1>5, <1>7, <1>8, <1>9, <1>10, <1>15
<1>20. Ahead(file, h, v)
  <2>1. \A k \in v .. Len(file) : k \in 1 .. n /\ k \notin a .. v - 1 /\ k \in p .. Len(file)
    BY <1>1, <1>2, <1>8, <1>19
  <2>2. QED
    BY <1>14, <1>17, <2>1 DEF Ahead
<1>21. \A k \in v .. Len(file) : h[k] = file[k]
  BY <1>20 DEF Ahead
<1>22. \A k \in 1 .. n : g[k] = IF k \in b .. s - 1 THEN NUL ELSE h[k]
  <2> DEFINE j == s - 1
  <2>1. j \in Nat /\ b \in 1 .. j + 1
    BY <1>5, <1>19
  <2>2. \A l \in b .. j : h[l] \in Blank
    <3>1. \A l \in b .. j : l \in v .. Len(file) /\ l \in v + w .. s - 1
      BY <1>2, <1>7, <1>15, <1>19
    <3>2. QED
      BY <1>11, <1>21, <3>1
  <2>3. h[b - 1] \notin Blank
    <3> DEFINE m == b - 1
    <3>1. m \in v .. Len(file)
      BY <1>2, <1>7, <1>19
    <3>2. m = v + w - 1
      <4>1. w \in Nat
        BY <1>10
      <4>2. QED
        BY <1>15, <1>19, <4>1
    <3> HIDE DEF m
    <3>3. h[m] \notin Blank
      BY <1>11, <1>21, <3>1, <3>2
    <3>4. QED
      BY <3>3 DEF m
  <2> HIDE DEF j, n
  <2>4. \A k \in 1 .. n : trim_back(h, j)[k] = IF k \in b .. j THEN NUL ELSE h[k]
    BY <1>2, <1>18, <2>1, <2>2, <2>3, TrimBackIs
  <2>5. QED
    BY <2>4 DEF j
<1> HIDE DEF g
<1>23. \A k \in 1 .. p - 1 : g[k] = data[k]
  <2>1. \A k \in 1 .. p - 1 : k \in 1 .. n /\ k \notin b .. s - 1 /\ k \notin a .. v - 1
    BY <1>1, <1>2, <1>8, <1>19
  <2>2. QED
    BY <1>14, <1>22, <2>1
<1>24. \A k \in p .. a - 1 : g[k] = file[k]
  <2>1. \A k \in p .. a - 1 : /\ k \in 1 .. n /\ k \notin b .. s - 1 /\ k \notin a .. v - 1
                              /\ k \in p .. Len(file)
    BY <1>1, <1>2, <1>8, <1>19
  <2>2. QED
    BY <1>14, <1>17, <1>22, <2>1
<1>25. \A k \in v .. b - 1 : g[k] = file[k] /\ file[k] # NUL
  <2>1. \A k \in v .. b - 1 : /\ k \in 1 .. n /\ k \notin b .. s - 1 /\ k \in v .. Len(file)
                              /\ k \in p .. Len(file)
    BY <1>1, <1>2, <1>7, <1>8, <1>19
  <2>2. QED
    BY <1>17, <1>21, <1>22, <2>1
<1>26. KeyIn(file, g, p)
  <2>1. \A k \in 1 .. c : p + k - 1 \in p .. a - 1
    BY <1>9, <1>15, <1>19
  <2>2. \A k \in 1 .. c : g[p + k - 1] = Key(file, p)[k]
    BY <1>9, <1>24, <2>1
  <2>3. QED
    BY <2>2 DEF KeyIn, c
<1>27. ValueIn(file, g, p)
  <2>1. \A k \in 1 .. w : v + k - 1 \in v .. b - 1
    BY <1>10, <1>15, <1>19
  <2>2. \A k \in 1 .. w : g[v + k - 1] = Value(file, p)[k] /\ Value(file, p)[k] # NUL
    BY <1>11, <1>25, <2>1
  <2>3. b <= s
    BY <1>19
  <2>4. QED
    BY <1>10, <2>2, <2>3 DEF ValueIn, b, s, v, w
<1>28. \A k \in p .. s - 1 : g[k] # NUL => k \in p .. a - 1 \/ k \in v .. b - 1
  <2> SUFFICES ASSUME NEW k \in p .. s - 1, g[k] # NUL
               PROVE  k \in p .. a - 1 \/ k \in v .. b - 1
    OBVIOUS
  <2>1. k \in 1 .. n
    BY <1>1, <1>2, <1>7
  <2>2. k \notin b .. s - 1
    BY <1>22, <2>1
  <2>3. k \notin a .. v - 1
    BY <1>14, <1>22, <2>1, <2>2
  <2>4. QED
    BY <1>19, <2>2, <2>3
<1>29. Ahead(file, g, s)
  <2>1. \A k \in s .. Len(file) : k \in 1 .. n /\ k \notin b .. s - 1 /\ k \in v .. Len(file)
    BY <1>1, <1>2, <1>7, <1>19
  <2>2. QED
    BY <1>21, <1>22, <2>1 DEF Ahead
<1>30. SplitUpTo(file, g, s)
  <2>1. Done(file, data, p)
    BY DEF EntryHere
  <2>2. QED
    BY <1>1, <1>12, <1>23, <1>26, <1>27, <1>28, <1>29, <2>1, PairDone DEF a, b, s, v
<1>31. Scan(KeyCut, ValueAt, {LF}) = s
  BY <1>4, <1>16, <1>20 DEF h
<1>32. QED
  BY <1>30, <1>31 DEF g, h

-----------------------------------------------------------------------------
(* Each turn of unescape_quoted_value takes it further *)

\* The value of entry i is read up to m and written up to w.
Unescaping(f, d, i, m, w) ==
    /\ HasEquals(f, i) /\ IsQuoted(f, i)
    /\ Done(f, d, i) /\ KeyIn(f, d, i)
    /\ \A k \in KeyEnd(f, i) .. ValueFrom(f, i) - 1 : d[k] = NUL
    /\ Ahead(f, d, w)
    /\ m \in ValueFrom(f, i) + 1 .. Len(f) + 1 /\ w \in ValueFrom(f, i) .. m - 1
    /\ ~ Escaped(f, ValueFrom(f, i), m)
    /\ \A k \in ValueFrom(f, i) + 1 .. m - 1 : ~ Closing(f, ValueFrom(f, i), k)
    /\ Copied(f, d, ValueFrom(f, i), m, w)

\* A pair with a quoted value: the key is cut off.
LEMMA QuoteBegins ==
    ASSUME EntryHere, HasValue, data[ValueAt] = QUOTE
    PROVE  Unescaping(file, KeyCut, p, ValueAt + 1, ValueAt) /\ ValueAt = ValueFrom(file, p)
<1> DEFINE n == Len(file) + 1
           e == EqualsAt(file, p)
           v == ValueFrom(file, p)
           a == KeyEnd(file, p)
           c == Len(Key(file, p))
           h == KeyCut
<1>1. TextFile(file) /\ Fits(file, data) /\ Ahead(file, data, p) /\ p \in 1 .. Len(file)
  BY DEF EntryHere
<1>2. Len(file) \in Nat /\ n \in Nat
  BY <1>1, FileType
<1>3. HasEquals(file, p)
  BY EqualsFound DEF HasValue
<1>4. ValueAt = v /\ v # LineStop(file, p)
  BY <1>3, ValueFound DEF HasValue
<1>5. v \in 1 .. Len(file) /\ data[v] = file[v]
  BY <1>3, <1>4, ValueFound
<1>6. IsQuoted(file, p)
  <2>1. v \in DOMAIN file /\ file[v] = QUOTE
    BY <1>1, <1>4, <1>5, FileType
  <2>2. QED
    BY <2>1 DEF IsQuoted
<1>7. e \in p .. Len(file) /\ v \in e + 1 .. n
  BY <1>1, <1>3, EqualsIn
<1>8. c \in Nat /\ p + c <= e /\ \A k \in 1 .. c : Key(file, p)[k] = file[p + k - 1]
  BY <1>1, <1>3, KeyAt
<1>9. \A k \in 1 .. n : h[k] = IF k \in a .. v - 1 THEN NUL ELSE data[k]
  BY <1>3, KeyCutIs
<1>10. a = p + c
  BY DEF KeyEnd
<1>11. \A k \in p .. Len(file) : data[k] = file[k]
  BY <1>1 DEF Ahead
<1> HIDE DEF e, v, a, c, h
<1>12. a \in p .. e /\ p \in Nat /\ v \in Nat /\ e \in Nat
  BY <1>1, <1>2, <1>5, <1>7, <1>8, <1>10
<1>13. Done(file, h, p)
  <2>1. \A k \in 1 .. p - 1 : h[k] = data[k]
    <3>1. \A k \in 1 .. p - 1 : k \in 1 .. n /\ k \notin a .. v - 1
      BY <1>1, <1>2, <1>12
    <3>2. QED
      BY <1>9, <3>1
  <2>2. Done(file, data, p)
    BY DEF EntryHere
  <2>3. /\ p \in 1 .. Len(file) + 1 /\ p \in p .. Len(file) + 1
        /\ \A k \in p + 1 .. p - 1 : k \notin Items(file)
        /\ ~ (p < p)
        /\ \A k \in p .. p - 1 : h[k] # NUL => p \in Items(file) /\ Covers(file, p, k)
    BY <1>1, <1>2
  <2>4. QED
    BY <1>1, <2>1, <2>2, <2>3, DoneNext
<1>14. KeyIn(file, h, p)
  <2>1. \A k \in 1 .. c : /\ p + k - 1 \in 1 .. n /\ p + k - 1 \notin a .. v - 1
                          /\ p + k - 1 \in p .. Len(file)
    BY <1>1, <1>2, <1>7, <1>8, <1>10, <1>12
  <2>2. \A k \in 1 .. c : h[p + k - 1] = Key(file, p)[k]
    BY <1>8, <1>9, <1>11, <2>1
  <2>3. QED
    BY <2>2 DEF KeyIn, c
<1>15. \A k \in a .. v - 1 : h[k] = NUL
  <2>1. \A k \in a .. v - 1 : k \in 1 .. n
    BY <1>1, <1>2, <1>7, <1>12
  <2>2. QED
    BY <1>9, <2>1
<1>16. Ahead(file, h, v)
  <2>1. \A k \in v .. Len(file) : k \in 1 .. n /\ k \notin a .. v - 1 /\ k \in p .. Len(file)
    BY <1>1, <1>2, <1>7, <1>12
  <2>2. QED
    BY <1>9, <1>11, <2>1 DEF Ahead
<1>17. v + 1 \in v + 1 .. Len(file) + 1 /\ v \in v .. v + 1 - 1
  BY <1>2, <1>5, <1>12
<1>18. ~ Escaped(file, v, v + 1)
  BY <1>12, EscapedFirst
<1>19. \A k \in v + 1 .. v + 1 - 1 : ~ Closing(file, v, k)
  BY <1>12
<1>20. Copied(file, h, v, v + 1, v)
  <2>1. KeptUpTo(file, v, v + 1) = {}
    <3>1. \A l : l \notin v + 1 .. (v + 1) - 1
      BY <1>12
    <3>2. QED
      BY <3>1, Zenon DEF KeptUpTo
  <2>2. v - v = 0
    BY <1>12
  <2>3. QED
    BY <2>1, <2>2, RankedEmpty DEF Copied
<1>21. Unescaping(file, h, p, v + 1, v)
  BY <1>3, <1>6, <1>13, <1>14, <1>15, <1>16, <1>17, <1>18, <1>19, <1>20
     DEF Unescaping, a, v
<1>22. QED
  BY <1>4, <1>21 DEF h, v

\* What there is to know of the pointers and the character at m.
LEMMA UnescapingAt ==
    ASSUME NEW f, TextFile(f), NEW d, Fits(f, d), NEW i, NEW m, NEW w,
           Unescaping(f, d, i, m, w)
    PROVE  /\ Len(f) \in Nat /\ i \in 1 .. Len(f)
           /\ ValueFrom(f, i) \in i + 1 .. Len(f) /\ f[ValueFrom(f, i)] = QUOTE
           /\ KeyEnd(f, i) \in i .. ValueFrom(f, i) - 1
           /\ m \in ValueFrom(f, i) + 1 .. Len(f) + 1 /\ w \in ValueFrom(f, i) .. m - 1
           /\ \A k \in w .. Len(f) : d[k] = f[k] /\ f[k] # NUL
           /\ d[Len(f) + 1] = NUL /\ DOMAIN d = 1 .. Len(f) + 1
<1> DEFINE v == ValueFrom(f, i)
           e == EqualsAt(f, i)
           c == Len(Key(f, i))
<1>1. HasEquals(f, i) /\ IsQuoted(f, i) /\ Ahead(f, d, w)
  BY DEF Unescaping
<1>2. m \in v + 1 .. Len(f) + 1 /\ w \in v .. m - 1
  BY DEF Unescaping
<1>3. Len(f) \in Nat /\ d[Len(f) + 1] = NUL /\ DOMAIN d = 1 .. Len(f) + 1
  BY FitsType
<1>4. i \in 1 .. Len(f) /\ e \in i .. Len(f) /\ v \in e + 1 .. Len(f) + 1
  BY <1>1, EqualsIn
<1>5. v \in 1 .. Len(f) /\ f[v] = QUOTE
  BY <1>1, FileType DEF IsQuoted
<1>6. c \in Nat /\ i + c <= e
  BY <1>1, KeyAt
<1>7. KeyEnd(f, i) = i + c
  BY DEF KeyEnd
<1>8. \A k \in 1 .. Len(f) : f[k] # NUL
  BY FileType
<1> HIDE DEF v, e, c
<1>9. v \in i + 1 .. Len(f) /\ i + c \in i .. v - 1
  BY <1>3, <1>4, <1>5, <1>6
<1>10. \A k \in w .. Len(f) : k \in 1 .. Len(f)
  BY <1>2, <1>3, <1>4, <1>5
<1>11. \A k \in w .. Len(f) : d[k] = f[k] /\ f[k] # NUL
  BY <1>1, <1>8, <1>10 DEF Ahead
<1>12. QED
  BY <1>2, <1>3, <1>4, <1>5, <1>7, <1>9, <1>11 DEF v

\* The character at j is copied, and what comes before it stays.
LEMMA CopyNext ==
    ASSUME NEW f, TextFile(f), NEW d, Fits(f, d), NEW i, NEW m, NEW w,
           Unescaping(f, d, i, m, w), NEW j \in m .. Len(f),
           KeptUpTo(f, ValueFrom(f, i), j + 1) = KeptUpTo(f, ValueFrom(f, i), m) \cup {j},
           ~ Escaped(f, ValueFrom(f, i), j + 1),
           \A k \in m .. j : ~ Closing(f, ValueFrom(f, i), k)
    PROVE  Unescaping(f, [d EXCEPT ![w] = Meant(f, ValueFrom(f, i), j)], i, j + 1, w + 1)
<1> DEFINE v == ValueFrom(f, i)
           a == KeyEnd(f, i)
           g == [d EXCEPT ![w] = Meant(f, v, j)]
<1>1. /\ Len(f) \in Nat /\ i \in 1 .. Len(f) /\ v \in i + 1 .. Len(f)
      /\ a \in i .. v - 1 /\ m \in v + 1 .. Len(f) + 1 /\ w \in v .. m - 1
  BY UnescapingAt
<1>2. DOMAIN d = 1 .. Len(f) + 1
  BY UnescapingAt
<1>3. HasEquals(f, i) /\ IsQuoted(f, i) /\ Done(f, d, i) /\ KeyIn(f, d, i)
  BY DEF Unescaping
<1>4. \A k \in a .. v - 1 : d[k] = NUL
  BY DEF Unescaping
<1>5. Ahead(f, d, w) /\ Copied(f, d, v, m, w)
  BY DEF Unescaping
<1>6. \A k \in v + 1 .. m - 1 : ~ Closing(f, v, k)
  BY DEF Unescaping
<1>7. KeptUpTo(f, v, j + 1) = KeptUpTo(f, v, m) \cup {j} /\ ~ Escaped(f, v, j + 1)
      /\ \A k \in m .. j : ~ Closing(f, v, k)
  OBVIOUS
<1>8. a = i + Len(Key(f, i)) /\ Len(Key(f, i)) \in Nat
  BY <1>3, KeyAt DEF KeyEnd
<1> HIDE DEF v, a
<1>9. v \in Nat /\ m \in Nat /\ w \in Nat /\ j \in Nat /\ v < m /\ v <= w /\ m <= j /\ w < m
  BY <1>1
<1>10. w \in DOMAIN d
  BY <1>1, <1>2
<1>11. Copied(f, g, v, j + 1, w + 1)
  BY <1>5, <1>7, <1>9, <1>10, CopiedNext
<1>12. \A k : k # w => g[k] = d[k]
  BY <1>10
<1> HIDE DEF g
<1>13. Done(f, g, i)
  <2>1. \A k \in 1 .. i - 1 : g[k] = d[k]
    <3>1. \A k \in 1 .. i - 1 : k # w
      BY <1>1, <1>9
    <3>2. QED
      BY <1>12, <3>1
  <2>2. /\ i \in 1 .. Len(f) + 1 /\ i \in i .. Len(f) + 1
        /\ \A k \in i + 1 .. i - 1 : k \notin Items(f)
        /\ ~ (i < i)
        /\ \A k \in i .. i - 1 : g[k] # NUL => i \in Items(f) /\ Covers(f, i, k)
    BY <1>1
  <2>3. QED
    BY <1>3, <2>1, <2>2, DoneNext
<1>14. KeyIn(f, g, i)
  <2>1. \A k \in 1 .. Len(Key(f, i)) : i + k - 1 # w
    BY <1>1, <1>8, <1>9
  <2>2. QED
    BY <1>3, <1>12, <2>1 DEF KeyIn
<1>15. \A k \in a .. v - 1 : g[k] = NUL
  <2>1. \A k \in a .. v - 1 : k # w
    BY <1>1, <1>9
  <2>2. QED
    BY <1>4, <1>12, <2>1
<1>16. Ahead(f, g, w + 1)
  <2>1. \A k \in w + 1 .. Len(f) : k \in w .. Len(f) /\ k # w
    BY <1>1, <1>9
  <2>2. QED
    BY <1>5, <1>12, <2>1 DEF Ahead
<1>17. j + 1 \in v + 1 .. Len(f) + 1 /\ w + 1 \in v .. j + 1 - 1
  BY <1>1, <1>9
<1>18. \A k \in v + 1 .. j + 1 - 1 : ~ Closing(f, v, k)
  <2>1. \A k \in v + 1 .. j + 1 - 1 : k \in v + 1 .. m - 1 \/ k \in m .. j
    BY <1>1, <1>9
  <2>2. QED
    BY <1>6, <1>7, <2>1
<1>19. Unescaping(f, g, i, j + 1, w + 1)
  BY <1>3, <1>7, <1>11, <1>13, <1>14, <1>15, <1>16, <1>17, <1>18 DEF Unescaping, v, a
<1>20. QED
  BY <1>19 DEF g, v

\* A character that is no backslash,
LEMMA PlainCopied ==
    ASSUME NEW f, TextFile(f), NEW d, Fits(f, d), NEW i, NEW m, NEW w,
           Unescaping(f, d, i, m, w), m <= Len(f), d[m] \notin {QUOTE, CR, LF, "\\"}
    PROVE  Unescaping(f, [d EXCEPT ![w] = d[m]], i, m + 1, w + 1)
<1> DEFINE v == ValueFrom(f, i)
<1>1. /\ Len(f) \in Nat /\ i \in 1 .. Len(f) /\ v \in i + 1 .. Len(f)
      /\ m \in v + 1 .. Len(f) + 1 /\ w \in v .. m - 1
  BY UnescapingAt
<1>2. \A k \in w .. Len(f) : d[k] = f[k]
  BY UnescapingAt
<1>3. ~ Escaped(f, v, m)
  BY DEF Unescaping
<1> HIDE DEF v
<1>4. m \in Nat /\ v \in Nat /\ v < m /\ m \in m .. Len(f) /\ m \in w .. Len(f) /\ m # Len(f) + 1
  BY <1>1
<1>5. f[m] = d[m] /\ f[m] \notin {QUOTE, CR, LF, "\\"}
  BY <1>2, <1>4
<1>6. ~ Escapes(f, v, m)
  BY <1>5 DEF Escapes
<1>7. ~ Closing(f, v, m)
  BY <1>4, <1>5, <1>6 DEF Closing, LineOver
<1>8. KeptUpTo(f, v, m + 1) = KeptUpTo(f, v, m) \cup {m}
  BY <1>4, <1>6, KeptNext
<1>9. ~ Escaped(f, v, m + 1)
  BY <1>4, <1>6, EscapedNext
<1>10. Meant(f, v, m) = d[m]
  BY <1>3, <1>5 DEF Meant
<1>11. \A k \in m .. m : ~ Closing(f, v, k)
  BY <1>4, <1>7
<1>12. Unescaping(f, [d EXCEPT ![w] = Meant(f, v, m)], i, m + 1, w + 1)
  BY <1>4, <1>8, <1>9, <1>11, CopyNext DEF v
<1>13. QED
  BY <1>10, <1>12

\* and a backslash with the character it escapes.
LEMMA EscapeCopied ==
    ASSUME NEW f, TextFile(f), NEW d, Fits(f, d), NEW i, NEW m, NEW w,
           Unescaping(f, d, i, m, w), m <= Len(f), d[m] = "\\",
           d[m + 1] \notin {CR, LF, NUL}
    PROVE  Unescaping(f, [d EXCEPT ![w] = Unescaped(d[m + 1])], i, m + 2, w + 1)
<1> DEFINE v == ValueFrom(f, i)
           j == m + 1
<1>1. /\ Len(f) \in Nat /\ i \in 1 .. Len(f) /\ v \in i + 1 .. Len(f)
      /\ m \in v + 1 .. Len(f) + 1 /\ w \in v .. m - 1
  BY UnescapingAt
<1>2. (\A k \in w .. Len(f) : d[k] = f[k]) /\ d[Len(f) + 1] = NUL
  BY UnescapingAt
<1>3. ~ Escaped(f, v, m)
  BY DEF Unescaping
<1> HIDE DEF v
<1>4. m \in Nat /\ v \in Nat /\ v < m /\ m \in w .. Len(f) /\ m # Len(f) + 1
  BY <1>1
<1>5. f[m] = "\\"
  BY <1>2, <1>4
<1>6. j # Len(f) + 1
  BY <1>2
<1>7. j \in Nat /\ v < j /\ j \in m .. Len(f) /\ j \in w .. Len(f)
  BY <1>1, <1>4, <1>6
<1>8. Escapes(f, v, m)
  BY <1>3, <1>5 DEF Escapes
<1>9. Escaped(f, v, j)
  BY <1>4, <1>8, EscapedNext
<1>10. KeptUpTo(f, v, j) = KeptUpTo(f, v, m)
  BY <1>4, <1>8, KeptNext
<1>11. f[j] = d[j] /\ f[j] \notin {CR, LF}
  BY <1>2, <1>7
<1> HIDE DEF j
<1>12. ~ Escapes(f, v, j)
  BY <1>9 DEF Escapes
<1>13. KeptUpTo(f, v, j + 1) = KeptUpTo(f, v, m) \cup {j}
  BY <1>4, <1>7, <1>10, <1>12, KeptNext
<1>14. ~ Escaped(f, v, j + 1)
  BY <1>4, <1>7, <1>12, EscapedNext
<1>15. ~ LineOver(f, j)
  BY <1>6, <1>11 DEF LineOver
<1>16. ~ Closing(f, v, j)
  BY <1>9, <1>12, <1>15, Zenon DEF Closing
<1>17. ~ Closing(f, v, m)
  <2>1. ~ LineOver(f, m)
    BY <1>4, <1>5 DEF LineOver, CR, LF
  <2>2. f[m] # QUOTE
    BY <1>5, QuoteIs
  <2>3. ~ LineOver(f, m + 1)
    BY <1>15 DEF j
  <2>4. QED
    BY <2>1, <2>2, <2>3, Zenon DEF Closing
<1>18. \A k \in m .. j : ~ Closing(f, v, k)
  <2>1. \A k \in m .. j : k = m \/ k = j
    BY <1>4 DEF j
  <2>2. QED
    BY <1>16, <1>17, <2>1
<1>19. Meant(f, v, j) = Unescaped(d[j])
  BY <1>9, <1>11 DEF Meant
<1>20. Unescaping(f, [d EXCEPT ![w] = Meant(f, v, j)], i, j + 1, w + 1)
  BY <1>7, <1>13, <1>14, <1>18, CopyNext DEF v
<1>21. Unescaping(f, [d EXCEPT ![w] = Unescaped(d[j])], i, m + 2, w + 1)
  <2>1. j + 1 = m + 2
    BY <1>4 DEF j
  <2>2. QED
    BY <1>19, <1>20, <2>1
<1>22. QED
  BY <1>21 DEF j

\* What closes the value is what the grammar says closes it.
LEMMA QuoteCloses ==
    ASSUME NEW f, TextFile(f), NEW d, Fits(f, d), NEW i, NEW m, NEW w,
           Unescaping(f, d, i, m, w),
           \/ m = Len(f) + 1 \/ d[m] \in {QUOTE, CR, LF}
           \/ d[m] = "\\" /\ d[m + 1] \in {CR, LF, NUL}
    PROVE  /\ QuoteStop(f, ValueFrom(f, i)) = m
           /\ \A k \in i .. m - 1 : f[k] # LF
<1> DEFINE v == ValueFrom(f, i)
<1>1. /\ Len(f) \in Nat /\ i \in 1 .. Len(f) /\ v \in i + 1 .. Len(f)
      /\ m \in v + 1 .. Len(f) + 1 /\ w \in v .. m - 1
  BY UnescapingAt
<1>2. \A k \in w .. Len(f) : d[k] = f[k] /\ f[k] # NUL
  BY UnescapingAt
<1>3. d[Len(f) + 1] = NUL /\ f[v] = QUOTE
  BY UnescapingAt
<1>4. ~ Escaped(f, v, m) /\ \A k \in v + 1 .. m - 1 : ~ Closing(f, v, k)
  BY DEF Unescaping
<1>5. \A k \in i .. v - 1 : f[k] # LF
  <2>1. HasEquals(f, i)
    BY DEF Unescaping
  <2>2. QED
    BY <2>1, EqualsIn
<1> HIDE DEF v
<1>6. Closing(f, v, m)
  <2>1. CASE m = Len(f) + 1
    BY <2>1 DEF Closing, LineOver
  <2>2. CASE m # Len(f) + 1
    <3>1. m \in w .. Len(f)
      BY <1>1, <2>2
    <3>2. d[m] = f[m]
      BY <1>2, <3>1
    <3>3. CASE d[m] \in {CR, LF}
      BY <3>2, <3>3 DEF Closing, LineOver
    <3>4. CASE d[m] = QUOTE
      BY <1>4, <3>2, <3>4 DEF Closing
    <3>5. CASE d[m] = "\\" /\ d[m + 1] \in {CR, LF, NUL}
      <4> DEFINE j == m + 1
      <4>1. Escapes(f, v, m)
        BY <1>4, <3>2, <3>5 DEF Escapes
      <4>2. j = Len(f) + 1 \/ j \in w .. Len(f)
        BY <1>1, <3>1
      <4>3. d[j] \in {CR, LF, NUL}
        BY <3>5
      <4> HIDE DEF j
      <4>4. LineOver(f, j)
        BY <1>2, <4>2, <4>3 DEF LineOver
      <4>5. QED
        BY <4>1, <4>4 DEF Closing, j
    <3>6. QED
      BY <2>2, <3>3, <3>4, <3>5
  <2>3. QED
    BY <2>1, <2>2
<1>7. v \in 1 .. Len(f)
  BY <1>1
<1>8. QuoteStop(f, v) = m
  BY <1>1, <1>4, <1>6, <1>7, QuoteStopIs
<1>9. \A k \in i .. m - 1 : f[k] # LF
  <2> SUFFICES ASSUME NEW k \in i .. m - 1 PROVE f[k] # LF
    OBVIOUS
  <2>1. k \in i .. v - 1 \/ k = v \/ k \in v + 1 .. m - 1
    BY <1>1
  <2>2. CASE k \in v + 1 .. m - 1
    <3>1. ~ Closing(f, v, k)
      BY <1>4, <2>2
    <3>2. QED
      BY <3>1 DEF Closing, LineOver
  <2>3. QED
    BY <1>3, <1>5, <2>1, <2>2, QuoteIs
<1>10. QED
  BY <1>8, <1>9 DEF v

\* When a value is closed its line is done: without the value it is no item,
\* and with it it is a pair.
LEMMA QuoteDone ==
    ASSUME NEW f, TextFile(f), NEW d, Fits(f, d), NEW i, NEW m, NEW w,
           Unescaping(f, d, i, m, w),
           \/ m = Len(f) + 1 \/ d[m] \in {QUOTE, CR, LF}
           \/ d[m] = "\\" /\ d[m + 1] \in {CR, LF, NUL}
    PROVE  /\ w = ValueFrom(f, i) => SplitUpTo(f, discard_line(d, i), LineEnd(d, i))
           /\ w # ValueFrom(f, i) => SplitUpTo(f, discard_line(d, w), LineEnd(d, w))
<1> DEFINE n == Len(f) + 1
           v == ValueFrom(f, i)
           a == KeyEnd(f, i)
           b == ValueEnd(f, i)
           c == Len(Key(f, i))
           s == LineStop(f, i)
           x == Value(f, i)
<1>1. /\ Len(f) \in Nat /\ i \in 1 .. Len(f) /\ v \in i + 1 .. Len(f)
      /\ a \in i .. v - 1 /\ m \in v + 1 .. n /\ w \in v .. m - 1
  BY UnescapingAt
<1>2. \A k \in w .. Len(f) : d[k] = f[k] /\ f[k] # NUL
  BY UnescapingAt
<1>3. d[n] = NUL /\ DOMAIN d = 1 .. n /\ Len(d) = n
  BY FitsType
<1>4. HasEquals(f, i) /\ IsQuoted(f, i) /\ Done(f, d, i) /\ KeyIn(f, d, i)
  BY DEF Unescaping
<1>5. \A k \in a .. v - 1 : d[k] = NUL
  BY DEF Unescaping
<1>6. QuoteStop(f, v) = m /\ \A k \in i .. m - 1 : f[k] # LF
  BY QuoteCloses
<1>7. Copied(f, d, v, m, w)
  BY DEF Unescaping
<1>8. i \in 1 .. n /\ w \in i .. n /\ w \in 1 .. n /\ v <= w /\ w \in Nat /\ v \in 1 .. Len(f)
      /\ n \in Nat
  BY <1>1
<1>9. s = LineStop(f, w) /\ w <= s /\ s \in i .. n
  <2>1. \A k \in i .. w - 1 : f[k] # LF
    <3>1. \A k \in i .. w - 1 : k \in i .. m - 1
      BY <1>1
    <3>2. QED
      BY <1>6, <3>1
  <2>2. QED
    BY <1>8, <2>1, SameLine, LineStopAt
<1>10. /\ \A k \in i .. s - 1 : f[k] # LF
       /\ s <= Len(f) => f[s] = LF
  BY <1>8, LineStopAt
<1>11. /\ x \in Seq(Chars) /\ Len(x) = w - v
       /\ \A k \in 1 .. w - v : d[v + k - 1] = x[k] /\ x[k] # NUL
  <2>1. x = Quoted(f, v)
    BY <1>4 DEF Value, IsQuoted
  <2>2. m \in v + 1 .. Len(f) + 1
    BY <1>1
  <2> HIDE DEF v, x
  <2>3. QuoteStop(f, v) = m
    BY <1>6
  <2>4. /\ Quoted(f, v) \in Seq(Chars) /\ Len(Quoted(f, v)) = w - v
        /\ \A k \in 1 .. w - v : d[v + k - 1] = Quoted(f, v)[k] /\ Quoted(f, v)[k] # NUL
    BY <1>7, <1>8, <2>2, <2>3, QuotedIs
  <2>5. QED
    BY <2>1, <2>4
<1>12. /\ a = i + c /\ c \in Nat
       /\ \A k \in 1 .. c : d[i + k - 1] = Key(f, i)[k] /\ Key(f, i)[k] = f[i + k - 1]
  BY <1>4, KeyAt DEF KeyEnd, KeyIn
<1>13. b = w
  <2>1. b = v + Len(x)
    BY DEF ValueEnd
  <2> HIDE DEF v, x, b
  <2>2. QED
    BY <1>1, <1>8, <1>11, <2>1
<1>14. /\ Begins(f, i) /\ f[i] \notin Blank \cup {LF, "["}
  BY <1>4, EqualsIn
<1>15. ASSUME NEW j \in {i, w}
       PROVE  \A k \in 1 .. n : Zeros(d, j, s)[k] = IF k \in j .. s - 1 THEN NUL ELSE d[k]
  <2>1. j \in Nat /\ s \in Nat
    BY <1>1, <1>8, <1>9
  <2> HIDE DEF s, n
  <2>2. QED
    BY <1>3, <1>8, <2>1, ZerosIs
<1> HIDE DEF v, a, b, c, s, x
<1>16. CASE w = v
  <2> DEFINE g == Zeros(d, i, s)
  <2>1. \A k \in i .. s - 1 : d[k] # LF
    <3> SUFFICES ASSUME NEW k \in i .. s - 1 PROVE d[k] # LF
      OBVIOUS
    <3>1. f[k] # LF /\ NUL # LF
      BY <1>10 DEF NUL, LF
    <3>2. CASE k < a
      <4> DEFINE l == k - i + 1
      <4>1. l \in 1 .. c /\ i + l - 1 = k
        BY <1>1, <1>9, <1>12, <3>2
      <4> HIDE DEF l
      <4>2. d[i + l - 1] = f[i + l - 1]
        BY <1>12, <4>1
      <4>3. QED
        BY <3>1, <4>1, <4>2
    <3>3. CASE k \in a .. v - 1
      BY <1>5, <3>1, <3>3
    <3>4. CASE k >= v
      <4>1. k \in w .. Len(f)
        BY <1>1, <1>9, <1>16, <3>4
      <4>2. QED
        BY <1>2, <3>1, <4>1
    <3>5. QED
      BY <1>1, <1>9, <3>2, <3>3, <3>4
  <2>2. s = n \/ d[s] = LF
    <3>1. s = n \/ s \in w .. Len(f)
      BY <1>1, <1>8, <1>9
    <3>2. CASE s \in w .. Len(f)
      <4>1. s <= Len(f)
        BY <3>2
      <4>2. QED
        BY <1>2, <1>10, <3>2, <4>1
    <3>3. QED
      BY <3>1, <3>2
  <2>3. LineEnd(d, i) = s
    <3>1. i \in Nat
      BY <1>1
    <3> HIDE DEF n
    <3>2. QED
      BY <1>3, <1>8, <1>9, <2>1, <2>2, <3>1, LineEndIs
  <2>4. discard_line(d, i) = g
    BY <2>3 DEF discard_line
  <2>5. \A k \in 1 .. n : g[k] = IF k \in i .. s - 1 THEN NUL ELSE d[k]
    BY <1>15
  <2> HIDE DEF g
  <2>6. \A k \in 1 .. i - 1 : g[k] = d[k]
    <3>1. \A k \in 1 .. i - 1 : k \in 1 .. n /\ k \notin i .. s - 1
      BY <1>1
    <3>2. QED
      BY <2>5, <3>1
  <2>7. \A k \in i .. s - 1 : g[k] = NUL
    <3>1. \A k \in i .. s - 1 : k \in 1 .. n
      BY <1>1, <1>9
    <3>2. QED
      BY <2>5, <3>1
  <2>8. Ahead(f, g, s)
    <3>1. \A k \in s .. Len(f) : k \in 1 .. n /\ k \notin i .. s - 1 /\ k \in w .. Len(f)
      BY <1>1, <1>9
    <3>2. QED
      BY <1>2, <2>5, <3>1 DEF Ahead
  <2>9. i \notin Items(f)
    <3>1. Len(x) = 0
      BY <1>1, <1>11, <1>16
    <3>2. x = << >>
      BY <1>11, <3>1, EmptySeq
    <3>3. i \notin Pairs(f)
      BY <3>2 DEF Pairs, x
    <3>4. i \notin Headers(f)
      BY <1>14 DEF Headers
    <3>5. QED
      BY <3>3, <3>4 DEF Items
  <2>10. SplitUpTo(f, g, s)
    BY <1>1, <1>4, <1>14, <2>6, <2>7, <2>8, <2>9, LineDone DEF s
  <2>11. QED
    BY <1>16, <2>3, <2>4, <2>10 DEF v
<1>17. CASE w # v
  <2> DEFINE g == Zeros(d, w, s)
  <2>1. LineEnd(d, w) = s
    <3>1. Ahead(f, d, w)
      BY <1>2 DEF Ahead
    <3>2. QED
      BY <1>8, <1>9, <3>1, LineEndAhead
  <2>2. discard_line(d, w) = g
    BY <2>1 DEF discard_line
  <2>3. \A k \in 1 .. n : g[k] = IF k \in w .. s - 1 THEN NUL ELSE d[k]
    BY <1>15
  <2> HIDE DEF g
  <2>4. \A k \in 1 .. w - 1 : g[k] = d[k]
    <3>1. \A k \in 1 .. w - 1 : k \in 1 .. n /\ k \notin w .. s - 1
      BY <1>1
    <3>2. QED
      BY <2>3, <3>1
  <2>5. \A k \in 1 .. i - 1 : g[k] = d[k]
    <3>1. \A k \in 1 .. i - 1 : k \in 1 .. w - 1
      BY <1>1
    <3>2. QED
      BY <2>4, <3>1
  <2>6. KeyIn(f, g, i)
    <3>1. \A k \in 1 .. c : i + k - 1 \in 1 .. w - 1
      BY <1>1, <1>12
    <3>2. QED
      BY <1>12, <2>4, <3>1 DEF KeyIn, c
  <2>7. ValueIn(f, g, i)
    <3>1. Len(x) = w - v /\ b <= s
      BY <1>9, <1>11, <1>13
    <3>2. \A k \in 1 .. w - v : v + k - 1 \in 1 .. w - 1
      BY <1>1
    <3>3. \A k \in 1 .. w - v : g[v + k - 1] = x[k] /\ x[k] # NUL
      BY <1>11, <2>4, <3>2
    <3>4. QED
      BY <1>11, <3>1, <3>3 DEF ValueIn, b, s, v, x
  <2>8. i \in Pairs(f)
    <3>1. Len(x) # 0
      BY <1>1, <1>11, <1>17
    <3>2. x # << >>
      BY <3>1
    <3>3. QED
      BY <1>4, <3>2 DEF Pairs, HasEquals, x
  <2>9. \A k \in i .. s - 1 : g[k] # NUL => k \in i .. a - 1 \/ k \in v .. b - 1
    <3> SUFFICES ASSUME NEW k \in i .. s - 1, g[k] # NUL
                 PROVE  k \in i .. a - 1 \/ k \in v .. b - 1
      OBVIOUS
    <3>1. k \in 1 .. n
      BY <1>1, <1>9
    <3>2. k \notin w .. s - 1
      BY <2>3, <3>1
    <3>3. k < w
      BY <1>1, <1>8, <1>9, <3>2
    <3>4. k \in 1 .. w - 1
      BY <1>1, <3>1, <3>3
    <3>5. k \notin a .. v - 1
      BY <1>5, <2>4, <3>4
    <3>6. QED
      BY <1>1, <1>13, <3>3, <3>5
  <2>10. Ahead(f, g, s)
    <3>1. \A k \in s .. Len(f) : k \in 1 .. n /\ k \notin w .. s - 1 /\ k \in w .. Len(f)
      BY <1>1, <1>9
    <3>2. QED
      BY <1>2, <2>3, <3>1 DEF Ahead
  <2>11. SplitUpTo(f, g, s)
    BY <1>4, <2>5, <2>6, <2>7, <2>8, <2>9, <2>10, PairDone DEF a, b, s, v
  <2>12. QED
    BY <1>17, <2>1, <2>2, <2>11 DEF v
<1>18. QED
  BY <1>16, <1>17

-----------------------------------------------------------------------------
(* The strings that ini_get walks *)

\* The buffer when split_data is through.
Cut(f, d) == TextFile(f) /\ Fits(f, d) /\ Done(f, d, Len(f) + 1)

\* Where an item ends, and that none begins before that.
LEMMA ItemStop ==
    ASSUME NEW f, TextFile(f), NEW i \in Items(f)
    PROVE  /\ i \in 1 .. Len(f) /\ Len(f) \in Nat
           /\ Stop(f, i) \in i + 1 .. Len(f) + 1
           /\ \A k \in i + 1 .. Stop(f, i) : k \notin Items(f)
<1> DEFINE s == Stop(f, i)
<1>1. Len(f) \in Nat
  BY FileType
<1>2. i \in 1 .. Len(f) /\ Begins(f, i) /\ f[i] \notin Blank \cup {LF}
  BY ItemAt
<1>3. i \in 1 .. Len(f) + 1
  BY <1>1, <1>2
<1>4. CASE i \in Headers(f)
  <2>1. f[i] = "["
    BY <1>4 DEF Headers
  <2>2. s = NameStop(f, i)
    BY <1>4 DEF Stop
  <2>3. s \in i + 1 .. Len(f) + 1 /\ \A k \in i .. s - 1 : f[k] \notin {"]", LF}
    BY <1>2, <2>1, <2>2, HeaderStop
  <2> HIDE DEF s
  <2>4. s \in Nat
    BY <1>1, <1>2, <2>3
  <2>5. \A k \in i + 1 .. s : k \notin Items(f)
    BY <1>2, <2>3, <2>4, NoItemInside
  <2>6. QED
    BY <1>1, <1>2, <2>3, <2>5 DEF s
<1>5. CASE i \notin Headers(f)
  <2>1. f[i] # "["
    BY <1>5, ItemAt
  <2>2. s = LineStop(f, i)
    BY <1>5 DEF Stop
  <2>3. /\ s \in i .. Len(f) + 1 /\ \A k \in i .. s - 1 : f[k] # LF
        /\ s <= Len(f) => f[s] = LF
    BY <1>3, <2>2, LineStopAt
  <2> HIDE DEF s
  <2>4. s \in Nat
    BY <1>1, <1>2, <2>3
  <2>5. s # i
    BY <1>1, <1>2, <2>3
  <2>6. s \in i + 1 .. Len(f) + 1
    BY <1>1, <1>2, <2>3, <2>5
  <2>7. \A k \in i + 1 .. s : k \notin Items(f)
    BY <1>2, <2>1, <2>3, <2>4, NoItemInside
  <2>8. QED
    BY <1>1, <1>2, <2>6, <2>7 DEF s
<1>6. QED
  BY <1>4, <1>5

\* Of all items only this one has its strings there.
LEMMA OwnCells ==
    ASSUME NEW f, NEW d, Cut(f, d), NEW i \in Items(f), NEW k \in i .. Stop(f, i),
           k <= Len(f), d[k] # NUL
    PROVE  Covers(f, i, k)
<1>1. TextFile(f) /\ Done(f, d, Len(f) + 1)
  BY DEF Cut
<1>2. i \in 1 .. Len(f) /\ Len(f) \in Nat /\ Stop(f, i) \in i + 1 .. Len(f) + 1
  BY <1>1, ItemStop
<1>3. k \in 1 .. Len(f) + 1 - 1
  BY <1>2
<1>4. PICK j \in Items(f) : j < Len(f) + 1 /\ Covers(f, j, k)
  BY <1>1, <1>3 DEF Done
<1>5. j \in 1 .. Len(f) /\ Stop(f, j) \in j + 1 .. Len(f) + 1
  BY <1>1, ItemStop
<1>6. ItemIn(f, d, j)
  BY <1>1, <1>4 DEF Done
<1>7. k \in j .. Stop(f, j) - 1
  BY <1>1, <1>4, <1>6, CoversIn
<1>8. ~ (j < i)
  <2> SUFFICES ASSUME j < i PROVE FALSE
    OBVIOUS
  <2>1. i \in j + 1 .. Stop(f, j)
    BY <1>2, <1>5, <1>7
  <2>2. QED
    BY <1>1, <2>1, ItemStop
<1>9. ~ (i < j)
  <2> SUFFICES ASSUME i < j PROVE FALSE
    OBVIOUS
  <2>1. j \in i + 1 .. Stop(f, i)
    BY <1>2, <1>5, <1>7
  <2>2. QED
    BY <1>1, <2>1, ItemStop
<1>10. i = j
  BY <1>2, <1>5, <1>8, <1>9
<1>11. QED
  BY <1>4, <1>10

\* The string of a header.
LEMMA HeaderCells ==
    ASSUME NEW f, NEW d, Cut(f, d), NEW i \in Headers(f)
    PROVE  /\ Stop(f, i) = NameStop(f, i)
           /\ \A k \in i .. Stop(f, i) - 1 : d[k] = f[k] /\ d[k] # NUL
           /\ d[Stop(f, i)] = NUL /\ f[i] = "[" /\ i \notin Pairs(f)
<1> DEFINE s == Stop(f, i)
<1>1. TextFile(f) /\ Fits(f, d) /\ Done(f, d, Len(f) + 1) /\ i \in Items(f)
  BY DEF Cut, Items
<1>2. i \in 1 .. Len(f) /\ Len(f) \in Nat /\ s \in i + 1 .. Len(f) + 1
  BY <1>1, ItemStop
<1>3. s = NameStop(f, i)
  BY DEF Stop
<1>4. ItemIn(f, d, i)
  <2>1. i < Len(f) + 1
    BY <1>2
  <2>2. QED
    BY <1>1, <2>1 DEF Done
<1>5. \A k \in i .. s - 1 : d[k] = f[k]
  BY <1>3, <1>4, Zenon DEF ItemIn, HeaderIn
<1>6. f[i] = "["
  BY DEF Headers
<1>7. i \notin Pairs(f)
  BY <1>6 DEF Pairs, Entries
<1>8. s # Len(f) + 1 => ~ Covers(f, i, s)
  <2>1. s \notin i .. NameStop(f, i) - 1
    BY <1>2, <1>3
  <2>2. QED
    BY <1>7, <2>1, Zenon DEF Covers
<1>9. d[Len(f) + 1] = NUL
  BY <1>1, FitsType
<1>10. \A k \in 1 .. Len(f) : f[k] # NUL
  BY <1>1, FileType
<1>11. d[s] # NUL => s = Len(f) + 1
  <2> SUFFICES ASSUME d[s] # NUL, s # Len(f) + 1 PROVE FALSE
    OBVIOUS
  <2>1. Covers(f, i, s)
    <3>1. s \in i .. Stop(f, i) /\ s <= Len(f)
      BY <1>2
    <3> HIDE DEF s
    <3>2. QED
      BY <1>1, <3>1, OwnCells
  <2>2. QED
    BY <1>8, <2>1
<1> HIDE DEF s
<1>12. d[s] = NUL
  BY <1>9, <1>11
<1>13. \A k \in i .. s - 1 : d[k] = f[k] /\ d[k] # NUL
  <2>1. \A k \in i .. s - 1 : k \in 1 .. Len(f)
    BY <1>2
  <2>2. QED
    BY <1>5, <1>10, <2>1
<1>14. QED
  BY <1>3, <1>6, <1>7, <1>12, <1>13 DEF s

\* The strings of a pair.
LEMMA PairCells ==
    ASSUME NEW f, NEW d, Cut(f, d), NEW i \in Pairs(f)
    PROVE  /\ KeyEnd(f, i) \in i .. ValueFrom(f, i) - 1
           /\ ValueFrom(f, i) \in i + 1 .. ValueEnd(f, i) - 1
           /\ ValueEnd(f, i) \in i + 1 .. Stop(f, i)
           /\ KeyEnd(f, i) = i + Len(Key(f, i)) /\ Key(f, i) \in Seq(Chars)
           /\ ValueEnd(f, i) = ValueFrom(f, i) + Len(Value(f, i)) /\ Value(f, i) \in Seq(Chars)
           /\ KeyIn(f, d, i) /\ ValueIn(f, d, i)
           /\ \A k \in i .. KeyEnd(f, i) - 1 : d[k] = f[k] /\ d[k] # NUL
           /\ \A k \in KeyEnd(f, i) .. ValueFrom(f, i) - 1 : d[k] = NUL
           /\ \A k \in ValueFrom(f, i) .. ValueEnd(f, i) - 1 : d[k] # NUL
           /\ d[ValueEnd(f, i)] = NUL
           /\ f[i] # "[" /\ i \notin Headers(f)
<1> DEFINE n == Len(f) + 1
           s == Stop(f, i)
           e == EqualsAt(f, i)
           v == ValueFrom(f, i)
           a == KeyEnd(f, i)
           b == ValueEnd(f, i)
           c == Len(Key(f, i))
           w == Len(Value(f, i))
<1>1. TextFile(f) /\ Fits(f, d) /\ Done(f, d, n) /\ i \in Items(f)
  BY DEF Cut, Items
<1>2. i \in 1 .. Len(f) /\ Len(f) \in Nat /\ s \in i + 1 .. n
  BY <1>1, ItemStop
<1>3. f[i] # "["
  BY DEF Pairs, Entries
<1>4. i \notin Headers(f)
  BY <1>3 DEF Headers
<1>5. KeyIn(f, d, i) /\ ValueIn(f, d, i)
  <2>1. i < n
    BY <1>2
  <2>2. ItemIn(f, d, i)
    BY <1>1, <2>1 DEF Done
  <2>3. QED
    BY <2>2 DEF ItemIn
<1>6. HasEquals(f, i) /\ Value(f, i) # << >>
  BY <1>1, ItemAt
<1>7. s = LineStop(f, i)
  BY <1>4 DEF Stop
<1>8. e \in i .. Len(f) /\ v \in e + 1 .. n
  BY <1>1, <1>6, EqualsIn
<1>9. /\ c \in Nat /\ i + c <= e /\ Key(f, i) \in Seq(Chars)
      /\ \A k \in 1 .. c : Key(f, i)[k] = f[i + k - 1]
  BY <1>1, <1>6, KeyAt
<1>10. Value(f, i) \in Seq(Chars) /\ b <= s
  BY <1>5, <1>7 DEF ValueIn
<1>11. w \in Nat /\ w # 0
  <2>1. w \in Nat
    BY <1>10, LenProperties
  <2>2. w = 0 => Value(f, i) = << >>
    BY <1>10, EmptySeq
  <2>3. QED
    BY <1>6, <2>1, <2>2
<1>12. \A k \in 1 .. c : d[i + k - 1] = Key(f, i)[k]
  BY <1>5 DEF KeyIn
<1>13. \A k \in 1 .. w : d[v + k - 1] = Value(f, i)[k] /\ Value(f, i)[k] # NUL
  BY <1>5 DEF ValueIn
<1>14. a = i + c /\ b = v + w
  BY DEF KeyEnd, ValueEnd
<1>15. \A k \in 1 .. Len(f) : f[k] # NUL
  BY <1>1, FileType
<1>16. d[n] = NUL
  BY <1>1, FitsType
<1>17. \A k \in i .. s : k <= Len(f) /\ d[k] # NUL => k \in i .. a - 1 \/ k \in v .. b - 1
  <2> SUFFICES ASSUME NEW k \in i .. s, k <= Len(f), d[k] # NUL
               PROVE  k \in i .. a - 1 \/ k \in v .. b - 1
    OBVIOUS
  <2>1. Covers(f, i, k)
    BY <1>1, OwnCells
  <2>2. QED
    BY <1>4, <2>1, Zenon DEF Covers
<1> HIDE DEF n, s, e, v, a, b, c, w
<1>18. a \in i .. v - 1 /\ v \in i + 1 .. b - 1 /\ b \in i + 1 .. s
  <2>1. e \in Nat /\ v \in Nat /\ a \in Nat /\ b \in Nat
    BY <1>2, <1>8, <1>9, <1>11, <1>14
  <2>2. i <= a /\ a < v /\ v < b /\ b <= s /\ i < v
    BY <1>2, <1>8, <1>9, <1>10, <1>11, <1>14, <2>1
  <2>3. QED
    BY <1>2, <2>1, <2>2
<1>19. s \in Nat /\ n \in Nat /\ s <= n /\ n = Len(f) + 1 /\ i \in Nat
  BY <1>2 DEF n
<1>20. \A k \in i .. a - 1 : d[k] = f[k] /\ d[k] # NUL
  <2> SUFFICES ASSUME NEW k \in i .. a - 1 PROVE d[k] = f[k] /\ d[k] # NUL
    OBVIOUS
  <2> DEFINE l == k - i + 1
  <2>1. l \in 1 .. c /\ i + l - 1 = k
    BY <1>9, <1>14, <1>19
  <2> HIDE DEF l
  <2>2. d[i + l - 1] = f[i + l - 1]
    BY <1>9, <1>12, <2>1
  <2>3. k \in 1 .. Len(f)
    BY <1>2, <1>18, <1>19
  <2>4. QED
    BY <1>15, <2>1, <2>2, <2>3
<1>21. \A k \in a .. v - 1 : d[k] = NUL
  <2> SUFFICES ASSUME NEW k \in a .. v - 1, d[k] # NUL PROVE FALSE
    OBVIOUS
  <2>1. k \in i .. s /\ k <= Len(f)
    BY <1>18, <1>19
  <2>2. k \in i .. a - 1 \/ k \in v .. b - 1
    BY <1>17, <2>1
  <2>3. QED
    BY <1>18, <2>2
<1>22. \A k \in v .. b - 1 : d[k] # NUL
  <2> SUFFICES ASSUME NEW k \in v .. b - 1 PROVE d[k] # NUL
    OBVIOUS
  <2> DEFINE l == k - v + 1
  <2>1. l \in 1 .. w /\ v + l - 1 = k
    BY <1>11, <1>14, <1>18, <1>19
  <2> HIDE DEF l
  <2>2. d[v + l - 1] # NUL
    BY <1>13, <2>1
  <2>3. QED
    BY <2>1, <2>2
<1>23. d[b] = NUL
  <2> SUFFICES ASSUME d[b] # NUL PROVE FALSE
    OBVIOUS
  <2>1. b # n
    BY <1>16
  <2>2. b \in i .. s /\ b <= Len(f)
    BY <1>18, <1>19, <2>1
  <2>3. b \in i .. a - 1 \/ b \in v .. b - 1
    BY <1>17, <2>2
  <2>4. QED
    BY <1>18, <1>19, <2>3
<1>24. QED
  BY <1>3, <1>4, <1>5, <1>9, <1>10, <1>14, <1>18, <1>20, <1>21, <1>22, <1>23
     DEF s, v, a, b, c, w

\* Where next() stops.
LEMMA NextIs ==
    ASSUME NEW d, Buffer(d), NEW i \in 1 .. Len(d), NEW t, Scan(d, i, {}) = t
    PROVE  /\ next(d, i) \in t .. Len(d)
           /\ next(d, i) = Len(d) \/ d[next(d, i)] # NUL
           /\ \A k \in t .. next(d, i) - 1 : d[k] = NUL
<1> DEFINE n == Len(d)
           T == {j \in t .. n : j = n \/ d[j] # NUL}
           P(j) == /\ j = n \/ d[j] # NUL
                   /\ \A k \in t .. j - 1 : d[k] = NUL
<1>1. n \in Nat /\ t \in i .. n /\ i \in Nat
  BY BufferType, ScanStops
<1>2. T \in SUBSET Nat /\ n \in T
  BY <1>1
<1>3. PICK j \in T : \A k \in T : j <= k
  BY <1>2, First
<1>4. \A k \in t .. j - 1 : k \notin T /\ k \in t .. n
  BY <1>1, <1>3
<1>5. j \in t .. n /\ P(j)
  BY <1>3, <1>4
<1>6. next(d, i) = CHOOSE k \in t .. n : P(k)
  BY DEF next
<1> HIDE DEF P
<1>7. next(d, i) \in t .. n /\ P(next(d, i))
  BY <1>5, <1>6
<1>8. QED
  BY <1>7 DEF P

\* s stands at i, and a zero behind it, at t.
Spells(d, i, t, s) ==
    /\ d[t] = NUL /\ \A k \in i .. t - 1 : d[k] # NUL
    /\ s \in Seq(Chars) /\ Len(s) = t - i
    /\ \A k \in 1 .. t - i : d[i + k - 1] = s[k]

\* It is the string at i.
LEMMA StringIs ==
    ASSUME NEW d, Buffer(d), NEW i \in 1 .. Len(d), NEW t \in i .. Len(d),
           NEW s, Spells(d, i, t, s)
    PROVE  Scan(d, i, {}) = t /\ StringAt(d, i) = s
<1>0. /\ d[t] = NUL /\ \A k \in i .. t - 1 : d[k] # NUL
      /\ s \in Seq(Chars) /\ Len(s) = t - i
      /\ \A k \in 1 .. t - i : d[i + k - 1] = s[k]
  BY DEF Spells
<1>1. Len(d) \in Nat /\ d \in Seq(Chars) /\ i \in Nat /\ t \in Nat
  BY BufferType DEF Buffer
<1>2. Scan(d, i, {}) = t
  <2> DEFINE n == Len(d)
  <2>1. n \in Nat /\ Len(d) = n /\ t \in i .. n
    BY <1>1
  <2>2. d[t] \in {} \cup {NUL} /\ \A k \in i .. t - 1 : d[k] \notin {} \cup {NUL}
    BY <1>0
  <2> HIDE DEF n
  <2>3. QED
    BY <1>1, <2>1, <2>2, ScanIs
<1>3. StringAt(d, i) = SubSeq(d, i, t - 1)
  BY <1>2 DEF StringAt
<1> DEFINE x == SubSeq(d, i, t - 1)
           u == t - 1
<1>4. u \in i - 1 .. Len(d) /\ u - i + 1 = t - i
  BY <1>1
<1> HIDE DEF u
<1>5. /\ SubSeq(d, i, u) \in Seq(Chars) /\ Len(SubSeq(d, i, u)) = u - i + 1
      /\ \A k \in 1 .. u - i + 1 : SubSeq(d, i, u)[k] = d[i + k - 1]
  BY <1>1, <1>4, SubSeqProperties
<1>6. x = SubSeq(d, i, u)
  BY DEF u
<1> HIDE DEF x
<1>7. x \in Seq(Chars) /\ Len(x) = t - i /\ \A k \in 1 .. t - i : x[k] = s[k]
  BY <1>0, <1>4, <1>5, <1>6
<1>8. x = s
  BY <1>0, <1>7, SeqEqual
<1>9. QED
  BY <1>2, <1>3, <1>8 DEF x

\* ini_get reads a header as its section,
LEMMA HeaderReads ==
    ASSUME NEW f, NEW d, Cut(f, d), NEW i \in Headers(f)
    PROVE  /\ StringAt(d, i + 1) = Name(f, i)
           /\ Scan(d, i, {}) = Stop(f, i)
<1> DEFINE s == Stop(f, i)
<1>1. TextFile(f) /\ Fits(f, d) /\ i \in Items(f)
  BY DEF Cut, Items
<1>2. i \in 1 .. Len(f) /\ Len(f) \in Nat /\ s \in i + 1 .. Len(f) + 1
  BY <1>1, ItemStop
<1>3. /\ s = NameStop(f, i)
      /\ \A k \in i .. s - 1 : d[k] = f[k] /\ d[k] # NUL
      /\ d[s] = NUL
  BY HeaderCells
<1>4. Buffer(d) /\ Len(d) = Len(f) + 1
  BY <1>1 DEF Fits
<1>5. \A k \in 1 .. Len(f) : f[k] \in Chars
  BY <1>1, FileType
<1> HIDE DEF s
<1>6. Scan(d, i, {}) = s
  <2> DEFINE n == Len(f) + 1
  <2>1. n \in Nat /\ i \in Nat /\ s \in i .. n /\ Len(d) = n
    BY <1>2, <1>4
  <2>2. d[s] \in {} \cup {NUL} /\ \A k \in i .. s - 1 : d[k] \notin {} \cup {NUL}
    BY <1>3
  <2> HIDE DEF n
  <2>3. QED
    BY <2>1, <2>2, ScanIs
<1>7. StringAt(d, i + 1) = Name(f, i)
  <2> DEFINE m == i + 1
             u == s - 1
             x == SubSeq(f, m, u)
  <2>1. /\ m \in 1 .. Len(d) /\ s \in m .. Len(d) /\ m \in Int /\ u \in Int
        /\ (IF m <= u THEN u - m + 1 ELSE 0) = s - m /\ u - m + 1 = s - m
    BY <1>2, <1>4
  <2>2. \A k \in m .. u : k \in 1 .. Len(f) /\ k \in i .. s - 1
    BY <1>2
  <2>3. \A k \in m .. u : d[k] = f[k] /\ d[k] # NUL /\ f[k] \in Chars
    BY <1>3, <1>5, <2>2
  <2>4. \A k \in 1 .. s - m : m + k - 1 \in m .. u
    BY <1>2
  <2>5. Name(f, i) = x
    BY <1>3 DEF Name
  <2>6. \A k \in m .. s - 1 : d[k] # NUL
    BY <2>3
  <2> HIDE DEF m, u
  <2>7. /\ x \in Seq(Chars) /\ Len(x) = s - m
        /\ \A k \in 1 .. s - m : x[k] = f[m + k - 1]
    BY <2>1, <2>3, SubSeqProperties
  <2> HIDE DEF x
  <2>8. \A k \in 1 .. s - m : d[m + k - 1] = x[k]
    BY <2>3, <2>4, <2>7
  <2>9. Spells(d, m, s, x)
    BY <1>3, <2>6, <2>7, <2>8 DEF Spells
  <2>10. StringAt(d, m) = x
    BY <1>4, <2>1, <2>9, StringIs
  <2>11. QED
    BY <2>5, <2>10 DEF m
<1>8. QED
  BY <1>6, <1>7 DEF s

\* and a pair as its key and its value.
LEMMA PairReads ==
    ASSUME NEW f, NEW d, Cut(f, d), NEW i \in Pairs(f)
    PROVE  /\ StringAt(d, i) = Key(f, i)
           /\ next(d, i) = ValueFrom(f, i)
           /\ StringAt(d, ValueFrom(f, i)) = Value(f, i)
           /\ Scan(d, ValueFrom(f, i), {}) = ValueEnd(f, i)
<1> DEFINE s == Stop(f, i)
           v == ValueFrom(f, i)
           a == KeyEnd(f, i)
           b == ValueEnd(f, i)
           x == Key(f, i)
           y == Value(f, i)
<1>1. TextFile(f) /\ Fits(f, d) /\ i \in Items(f)
  BY DEF Cut, Items
<1>2. i \in 1 .. Len(f) /\ Len(f) \in Nat /\ s \in i + 1 .. Len(f) + 1
  BY <1>1, ItemStop
<1>3. a \in i .. v - 1 /\ v \in i + 1 .. b - 1 /\ b \in i + 1 .. s
  BY PairCells
<1>4. a = i + Len(x) /\ x \in Seq(Chars) /\ b = v + Len(y) /\ y \in Seq(Chars)
  BY PairCells
<1>5. \A k \in i .. a - 1 : d[k] # NUL
  BY PairCells
<1>6. \A k \in a .. v - 1 : d[k] = NUL
  BY PairCells
<1>7. (\A k \in v .. b - 1 : d[k] # NUL) /\ d[b] = NUL
  BY PairCells
<1>8. \A k \in 1 .. Len(x) : d[i + k - 1] = x[k]
  BY PairCells DEF KeyIn
<1>9. \A k \in 1 .. Len(y) : d[v + k - 1] = y[k]
  BY PairCells DEF ValueIn
<1>10. Buffer(d) /\ Len(d) = Len(f) + 1
  BY <1>1 DEF Fits
<1> HIDE DEF s, v, a, b, x, y
<1>11. Len(x) \in Nat /\ Len(y) \in Nat
  BY <1>4, LenProperties
<1>12. /\ i \in Nat /\ v \in Nat /\ a \in Nat /\ b \in Nat /\ s \in Nat
       /\ i \in 1 .. Len(d) /\ a \in i .. Len(d) /\ v \in 1 .. Len(d) /\ b \in v .. Len(d)
       /\ v \in a .. Len(d) /\ v # Len(d) /\ a \in a .. v - 1 /\ v \in v .. b - 1
  BY <1>2, <1>3, <1>10
<1>13. Len(x) = a - i /\ Len(y) = b - v
  BY <1>4, <1>11, <1>12
<1>14. d[a] = NUL
  BY <1>6, <1>12
<1>15. Scan(d, i, {}) = a /\ StringAt(d, i) = x
  <2>1. Spells(d, i, a, x)
    BY <1>4, <1>5, <1>8, <1>13, <1>14 DEF Spells
  <2>2. QED
    BY <1>10, <1>12, <2>1, StringIs
<1>16. Scan(d, v, {}) = b /\ StringAt(d, v) = y
  <2>1. Spells(d, v, b, y)
    BY <1>4, <1>7, <1>9, <1>13 DEF Spells
  <2>2. QED
    BY <1>10, <1>12, <2>1, StringIs
<1>17. next(d, i) = v
  <2> DEFINE j == next(d, i)
  <2>1. /\ j \in a .. Len(d)
        /\ j = Len(d) \/ d[j] # NUL
        /\ \A k \in a .. j - 1 : d[k] = NUL
    BY <1>10, <1>12, <1>15, NextIs
  <2> HIDE DEF j
  <2>2. ~ (j < v)
    <3> SUFFICES ASSUME j < v PROVE FALSE
      OBVIOUS
    <3>1. j \in a .. v - 1 /\ j # Len(d)
      BY <1>2, <1>10, <1>12, <2>1
    <3>2. QED
      BY <1>6, <2>1, <3>1
  <2>3. ~ (v < j)
    <3> SUFFICES ASSUME v < j PROVE FALSE
      OBVIOUS
    <3>1. v \in a .. j - 1
      BY <1>2, <1>10, <1>12, <2>1
    <3>2. QED
      BY <1>7, <1>12, <2>1, <3>1
  <2>4. j = v
    BY <1>2, <1>10, <1>12, <2>1, <2>2, <2>3
  <2>5. QED
    BY <2>4 DEF j
<1>18. QED
  BY <1>15, <1>16, <1>17 DEF v, b, x, y

\* The string at j is the next behind a.
NextString(f, d, a, j) ==
    /\ j \in a .. Len(f) + 1
    /\ j = Len(f) + 1 \/ d[j] # NUL
    /\ \A k \in a .. j - 1 : d[k] = NUL

\* All strings of the items before a end before a.
Apart(f, a) == \A i \in Items(f) : \A k : i < a /\ Covers(f, i, k) => k < a

\* So do those of an item that stop before a, and no other item begins between.
LEMMA ItemApart ==
    ASSUME NEW f, NEW d, Cut(f, d), NEW i \in Items(f), NEW a \in i + 1 .. Stop(f, i),
           \A k : Covers(f, i, k) => k < a
    PROVE  Apart(f, a) /\ \A j \in Items(f) : j > i => a <= j
<1>1. TextFile(f) /\ Done(f, d, Len(f) + 1)
  BY DEF Cut
<1>2. i \in 1 .. Len(f) /\ Len(f) \in Nat /\ Stop(f, i) \in i + 1 .. Len(f) + 1
  BY <1>1, ItemStop
<1>3. ASSUME NEW j \in Items(f), j > i PROVE a <= j
  <2>1. j \in 1 .. Len(f) /\ j \notin i + 1 .. Stop(f, i)
    BY <1>1, ItemStop
  <2>2. QED
    BY <1>2, <1>3, <2>1
<1>4. ASSUME NEW j \in Items(f), NEW k, j < a, Covers(f, j, k) PROVE k < a
  <2>1. j \in 1 .. Len(f) /\ Stop(f, j) \in j + 1 .. Len(f) + 1
    BY <1>1, ItemStop
  <2>2. ~ (j > i)
    <3> SUFFICES ASSUME j > i PROVE FALSE
      OBVIOUS
    <3>1. a <= j
      BY <1>3
    <3>2. QED
      BY <1>2, <1>4, <2>1, <3>1
  <2>3. CASE j = i
    BY <1>4, <2>3
  <2>4. CASE j < i
    <3>1. ItemIn(f, d, j)
      <4>1. j < Len(f) + 1
        BY <1>2, <2>1
      <4>2. QED
        BY <1>1, <4>1 DEF Done
    <3>2. k \in j .. Stop(f, j) - 1
      BY <1>1, <1>4, <3>1, CoversIn
    <3>3. i \notin j + 1 .. Stop(f, j)
      BY <1>1, ItemStop
    <3>4. QED
      BY <1>2, <2>1, <2>4, <3>2, <3>3
  <2>5. QED
    BY <1>2, <2>1, <2>2, <2>3, <2>4
<1>5. QED
  BY <1>3, <1>4 DEF Apart

\* Behind the strings of an item the next string is that of the next item,
\* unless that has an empty key.
LEMMA NextItem ==
    ASSUME NEW f, NEW d, Cut(f, d), NEW a \in 1 .. Len(f) + 1, Apart(f, a),
           NEW j, NextString(f, d, a, j)
    PROVE  /\ \A i \in Items(f) : a <= i /\ i < j => i \in EmptyKeys(f)
           /\ \/ \E i \in EmptyKeys(f) : a <= i /\ i < j
              \/ j = Len(f) + 1
              \/ j \in Items(f) /\ d[j] # NUL
<1>1. TextFile(f) /\ Done(f, d, Len(f) + 1) /\ Len(f) \in Nat
  BY FileType DEF Cut
<1>2. /\ j \in a .. Len(f) + 1
      /\ j = Len(f) + 1 \/ d[j] # NUL
      /\ \A k \in a .. j - 1 : d[k] = NUL
  BY DEF NextString
<1>3. ASSUME NEW i \in Items(f), a <= i, i < j PROVE i \in EmptyKeys(f)
  <2>1. i \in 1 .. Len(f) /\ Stop(f, i) \in i + 1 .. Len(f) + 1
    BY <1>1, ItemStop
  <2>2. d[i] = NUL
    <3>1. i \in a .. j - 1
      BY <1>1, <1>2, <1>3, <2>1
    <3>2. QED
      BY <1>2, <3>1
  <2>3. i \notin Headers(f)
    <3> SUFFICES ASSUME i \in Headers(f) PROVE FALSE
      OBVIOUS
    <3>1. i \in i .. Stop(f, i) - 1
      BY <2>1
    <3>2. QED
      BY <2>2, <3>1, HeaderCells
  <2>4. i \in Pairs(f)
    BY <2>3 DEF Items
  <2>5. KeyEnd(f, i) = i
    <3>1. i \notin i .. KeyEnd(f, i) - 1
      BY <2>2, <2>4, PairCells
    <3>2. KeyEnd(f, i) \in i .. ValueFrom(f, i) - 1
      BY <2>4, PairCells
    <3> HIDE DEF KeyEnd
    <3>3. QED
      BY <2>1, <3>1, <3>2
  <2>6. Key(f, i) = << >>
    <3>1. i = i + Len(Key(f, i)) /\ Key(f, i) \in Seq(Chars)
      BY <2>4, <2>5, PairCells
    <3>2. Len(Key(f, i)) = 0
      BY <2>1, <3>1, LenProperties
    <3>3. QED
      BY <3>1, <3>2, EmptySeq
  <2>7. QED
    BY <2>4, <2>6 DEF EmptyKeys
<1>4. CASE j # Len(f) + 1
  <2>1. d[j] # NUL /\ j \in 1 .. Len(f) + 1 - 1
    BY <1>1, <1>2, <1>4
  <2>2. PICK i \in Items(f) : i < Len(f) + 1 /\ Covers(f, i, j)
    BY <1>1, <2>1 DEF Done
  <2>3. i \in 1 .. Len(f)
    BY <1>1, ItemStop
  <2>4. ~ (i < a)
    <3> SUFFICES ASSUME i < a PROVE FALSE
      OBVIOUS
    <3>1. j < a
      BY <2>2 DEF Apart
    <3>2. QED
      BY <1>1, <1>2, <3>1
  <2>5. i <= j
    <3>1. ItemIn(f, d, i)
      BY <1>1, <2>2 DEF Done
    <3>2. j \in i .. Stop(f, i) - 1
      BY <1>1, <2>2, <3>1, CoversIn
    <3>3. QED
      BY <3>2
  <2>6. CASE i = j
    BY <1>3, <2>1, <2>6
  <2>7. CASE i # j
    <3>1. a <= i /\ i < j
      BY <1>1, <2>1, <2>3, <2>4, <2>5, <2>7
    <3>2. i \in EmptyKeys(f)
      BY <1>3, <3>1
    <3>3. QED
      BY <1>3, <3>1, <3>2
  <2>8. QED
    BY <2>6, <2>7
<1>5. QED
  BY <1>3, <1>4

-----------------------------------------------------------------------------
(* Each turn of ini_get takes it to the next item *)

\* An empty key comes before the first match, so that the strings are paired
\* one off.
Wrong(f, s, k) == \E i \in EmptyKeys(f) : \A j \in Matches(f, s, k) : i < j

\* ini_get stands at an item, or at the end, in section cs, and has passed
\* neither an empty key nor a match.
AtItem(f, d, s, k, cs, m) ==
    \/ Wrong(f, s, k)
    \/ /\ m = Len(f) + 1 \/ (m \in Items(f) /\ d[m] # NUL)
       /\ \A j \in EmptyKeys(f) \cup Matches(f, s, k) : m <= j
       /\ cs = SectionAt(f, m)

\* A match is a pair whose key is not empty.
LEMMA MatchKey ==
    ASSUME NEW f, NEW s, NEW k, NEW i \in Matches(f, s, k)
    PROVE  i \in Pairs(f) /\ i \in Items(f) /\ i \notin EmptyKeys(f)
<1>1. i \in Pairs(f) /\ SameText(Key(f, i), <<k>>)
  BY DEF Matches
<1>2. Key(f, i) # << >>
  <2> SUFFICES ASSUME Key(f, i) = << >> PROVE FALSE
    OBVIOUS
  <2>1. Len(<< >>) = Len(<<k>>)
    BY <1>1 DEF SameText
  <2>2. QED
    BY <2>1
<1>3. QED
  BY <1>1, <1>2 DEF EmptyKeys, Items

\* The headers before a position tell the section there.
NameOf(f, B) ==
    IF B = {} THEN << >> ELSE Name(f, CHOOSE j \in B : \A k \in B : k <= j)

\* Where no header stands between them, two positions are in one section.
LEMMA SameSection ==
    ASSUME NEW f, NEW a, NEW b,
           {h \in Headers(f) : h < a} = {h \in Headers(f) : h < b}
    PROVE  SectionAt(f, a) = SectionAt(f, b)
<1>1. SectionAt(f, a) = NameOf(f, {h \in Headers(f) : h < a})
  BY Zenon DEF SectionAt, NameOf
<1>2. SectionAt(f, b) = NameOf(f, {h \in Headers(f) : h < b})
  BY Zenon DEF SectionAt, NameOf
<1>3. QED
  BY <1>1, <1>2

\* On the way to the next string it passes nothing it should not.
LEMMA Arrives ==
    ASSUME NEW f, NEW d, Cut(f, d), NEW a \in 1 .. Len(f) + 1, Apart(f, a),
           NEW j, NextString(f, d, a, j), NEW s, NEW k, NEW cs,
           \A i \in EmptyKeys(f) \cup Matches(f, s, k) : a <= i,
           cs = SectionAt(f, a)
    PROVE  AtItem(f, d, s, k, cs, j)
<1>1. TextFile(f) /\ Len(f) \in Nat
  BY FileType DEF Cut
<1>2. j \in a .. Len(f) + 1
  BY DEF NextString
<1>3. \A i \in Items(f) : a <= i /\ i < j => i \in EmptyKeys(f)
  BY NextItem
<1>4. EmptyKeys(f) \subseteq Items(f) /\ Headers(f) \subseteq Items(f)
  BY DEF EmptyKeys, Items
<1>5. \A i \in Items(f) : i \in 1 .. Len(f)
  BY <1>1, ItemStop
<1>6. CASE \E i \in EmptyKeys(f) : a <= i /\ i < j
  <2>1. PICK e \in EmptyKeys(f) : a <= e /\ e < j
    BY <1>6
  <2>2. e \in 1 .. Len(f)
    BY <1>4, <1>5
  <2>3. ASSUME NEW i \in Matches(f, s, k) PROVE e < i
    <3>1. i \in Items(f) /\ i \notin EmptyKeys(f)
      BY MatchKey
    <3>2. i \in 1 .. Len(f) /\ a <= i
      BY <1>5, <3>1
    <3>3. ~ (i < j)
      BY <1>3, <3>1, <3>2
    <3>4. QED
      BY <1>1, <1>2, <2>1, <2>2, <3>2, <3>3
  <2>4. Wrong(f, s, k)
    BY <2>3 DEF Wrong
  <2>5. QED
    BY <2>4 DEF AtItem
<1>7. CASE ~ \E i \in EmptyKeys(f) : a <= i /\ i < j
  <2>1. j = Len(f) + 1 \/ (j \in Items(f) /\ d[j] # NUL)
    BY <1>7, NextItem
  <2>2. \A i \in Items(f) : ~ (a <= i /\ i < j)
    BY <1>3, <1>7
  <2>3. ASSUME NEW i \in EmptyKeys(f) \cup Matches(f, s, k) PROVE j <= i
    <3>1. i \in Items(f)
      BY <1>4, MatchKey
    <3>2. i \in 1 .. Len(f) /\ a <= i
      BY <1>5, <3>1
    <3>3. QED
      BY <1>1, <1>2, <2>2, <3>1, <3>2
  <2>4. {h \in Headers(f) : h < j} = {h \in Headers(f) : h < a}
    <3>1. ASSUME NEW h \in Headers(f) PROVE h < j <=> h < a
      <4>1. h \in Items(f) /\ h \in 1 .. Len(f)
        BY <1>4, <1>5
      <4>2. ~ (a <= h /\ h < j)
        BY <2>2, <4>1
      <4>3. QED
        BY <1>1, <1>2, <4>1, <4>2
    <3>2. QED
      BY <3>1, Zenon
  <2>5. SectionAt(f, j) = SectionAt(f, a)
    BY <2>4, SameSection
  <2>6. QED
    BY <2>1, <2>3, <2>5 DEF AtItem
<1>8. QED
  BY <1>6, <1>7

\* It begins at the first string.
LEMMA GetBegins ==
    ASSUME NEW f, NEW d, Cut(f, d), NEW s, NEW k
    PROVE  /\ d[1] = NUL => AtItem(f, d, s, k, << >>, next(d, 1))
           /\ d[1] # NUL => AtItem(f, d, s, k, << >>, 1)
<1>1. TextFile(f) /\ Fits(f, d)
  BY DEF Cut
<1>2. Len(f) \in Nat /\ Buffer(d) /\ Len(d) = Len(f) + 1 /\ 1 \in 1 .. Len(f) + 1
  BY <1>1, FileType DEF Fits
<1>3. \A i \in Items(f) : i \in 1 .. Len(f)
  BY <1>1, ItemStop
<1>4. Apart(f, 1)
  BY <1>3 DEF Apart
<1>5. \A i \in EmptyKeys(f) \cup Matches(f, s, k) : 1 <= i
  <2>1. \A i \in EmptyKeys(f) \cup Matches(f, s, k) : i \in Items(f)
    BY MatchKey DEF EmptyKeys, Items
  <2>2. QED
    BY <1>3, <2>1
<1>6. << >> = SectionAt(f, 1)
  <2>1. \A i \in Headers(f) : ~ (i < 1)
    BY <1>3 DEF Items
  <2>2. {i \in Headers(f) : i < 1} = {}
    BY <2>1, Zenon
  <2>3. QED
    BY <2>2 DEF SectionAt
<1>7. ASSUME NEW j, NextString(f, d, 1, j) PROVE AtItem(f, d, s, k, << >>, j)
  BY <1>2, <1>4, <1>5, <1>6, <1>7, Arrives
<1>8. d[1] = NUL => NextString(f, d, 1, next(d, 1))
  <2> SUFFICES ASSUME d[1] = NUL PROVE NextString(f, d, 1, next(d, 1))
    OBVIOUS
  <2> DEFINE n == Len(f) + 1
  <2>1. n \in Nat /\ Len(d) = n /\ 1 \in 1 .. n
    BY <1>2
  <2>2. d[1] \in {} \cup {NUL} /\ \A m \in 1 .. 1 - 1 : d[m] \notin {} \cup {NUL}
    OBVIOUS
  <2>3. Scan(d, 1, {}) = 1
    <3> HIDE DEF n
    <3>1. QED
      BY <2>1, <2>2, ScanIs
  <2>4. QED
    BY <1>2, <2>1, <2>3, NextIs DEF NextString
<1>9. d[1] # NUL => NextString(f, d, 1, 1)
  BY <1>2 DEF NextString
<1>10. QED
  BY <1>7, <1>8, <1>9

\* The strings before the end of the strings of an item are none to come.
LEMMA ItemPassed ==
    ASSUME NEW f, NEW d, Cut(f, d), NEW m \in Items(f), NEW a \in m + 1 .. Stop(f, m),
           NEW s, NEW k, m \notin EmptyKeys(f) \cup Matches(f, s, k),
           \A j \in EmptyKeys(f) \cup Matches(f, s, k) : m <= j
    PROVE  \A j \in EmptyKeys(f) \cup Matches(f, s, k) : a <= j
<1> SUFFICES ASSUME NEW j \in EmptyKeys(f) \cup Matches(f, s, k) PROVE a <= j
  OBVIOUS
<1>1. TextFile(f)
  BY DEF Cut
<1>2. j \in Items(f)
  BY MatchKey DEF EmptyKeys, Items
<1>3. j \in 1 .. Len(f) /\ m \in 1 .. Len(f) /\ Len(f) \in Nat
  BY <1>1, <1>2, ItemStop
<1>4. j \notin m + 1 .. Stop(f, m) /\ Stop(f, m) \in m + 1 .. Len(f) + 1
  BY <1>1, <1>2, ItemStop
<1>5. j # m /\ m <= j
  OBVIOUS
<1>6. QED
  BY <1>3, <1>4, <1>5

\* Past a header it is in the section of that header,
LEMMA GetPastHeader ==
    ASSUME NEW f, NEW d, Cut(f, d), NEW s, NEW k, NEW cs, NEW m \in 1 .. Len(f),
           AtItem(f, d, s, k, cs, m), d[m] = "["
    PROVE  AtItem(f, d, s, k, StringAt(d, m + 1), next(d, m))
<1>1. CASE Wrong(f, s, k)
  BY <1>1 DEF AtItem
<1>2. CASE ~ Wrong(f, s, k)
  <2> DEFINE a == Stop(f, m)
  <2>1. TextFile(f) /\ Fits(f, d) /\ Len(f) \in Nat
    BY FileType DEF Cut
  <2>2. m \in Items(f) /\ \A j \in EmptyKeys(f) \cup Matches(f, s, k) : m <= j
    <3>1. m # Len(f) + 1
      BY <2>1
    <3>2. QED
      BY <1>2, <3>1 DEF AtItem
  <2>3. m \in Headers(f)
    <3> SUFFICES ASSUME m \in Pairs(f) PROVE FALSE
      BY <2>2 DEF Items
    <3>1. f[m] # "[" /\ KeyEnd(f, m) \in m .. ValueFrom(f, m) - 1
      BY PairCells
    <3>2. \A l \in m .. KeyEnd(f, m) - 1 : d[l] = f[l]
      BY PairCells
    <3>3. \A l \in KeyEnd(f, m) .. ValueFrom(f, m) - 1 : d[l] = NUL
      BY PairCells
    <3>4. m \in m .. KeyEnd(f, m) - 1 \/ m \in KeyEnd(f, m) .. ValueFrom(f, m) - 1
      BY <3>1
    <3>5. NUL # "["
      BY DEF NUL
    <3>6. QED
      BY <3>1, <3>2, <3>3, <3>4, <3>5
  <2>4. a \in m + 1 .. Len(f) + 1
    BY <2>1, <2>2, ItemStop
  <2>5. a \in 1 .. Len(f) + 1 /\ a \in m + 1 .. a
    BY <2>1, <2>4
  <2>6. m \notin Pairs(f) /\ a = NameStop(f, m)
    BY <2>3, HeaderCells
  <2>7. \A l : Covers(f, m, l) => l < a
    <3> SUFFICES ASSUME NEW l, Covers(f, m, l) PROVE l < a
      OBVIOUS
    <3>1. l \in m .. NameStop(f, m) - 1
      BY <2>6, Zenon DEF Covers
    <3>2. QED
      BY <2>1, <2>4, <2>6, <3>1
  <2>8. Apart(f, a) /\ \A j \in Items(f) : j > m => a <= j
    BY <2>2, <2>5, <2>7, ItemApart
  <2>9. m \notin EmptyKeys(f) \cup Matches(f, s, k)
    BY <2>6, MatchKey DEF EmptyKeys
  <2>10. \A j \in EmptyKeys(f) \cup Matches(f, s, k) : a <= j
    BY <2>2, <2>5, <2>9, ItemPassed
  <2>11. Scan(d, m, {}) = a /\ StringAt(d, m + 1) = Name(f, m)
    BY <2>3, HeaderReads
  <2>12. Name(f, m) = SectionAt(f, a)
    <3> DEFINE before == {h \in Headers(f) : h < a}
               P(h) == h \in before /\ \A l \in before : l <= h
    <3>1. \A h \in Headers(f) : h \in Items(f) /\ h \in 1 .. Len(f)
      BY <2>1, ItemStop DEF Items
    <3>2. m \in before
      BY <2>1, <2>3, <2>4
    <3>3. \A l \in before : l <= m
      <4> SUFFICES ASSUME NEW l \in before, ~ (l <= m) PROVE FALSE
        OBVIOUS
      <4>1. l \in 1 .. Len(f) /\ l \in Items(f) /\ l < a
        BY <3>1
      <4>2. l > m
        BY <2>1, <4>1
      <4>3. a <= l
        BY <2>8, <4>1, <4>2
      <4>4. QED
        BY <2>1, <2>5, <4>1, <4>3
    <3>4. before \subseteq 1 .. Len(f)
      BY <3>1
    <3>5. SectionAt(f, a) = Name(f, CHOOSE h \in before : \A l \in before : l <= h)
      BY <3>2, Zenon DEF SectionAt
    <3> HIDE DEF before
    <3>6. \A h : P(h) => h = m
      <4> SUFFICES ASSUME NEW h, P(h) PROVE h = m
        OBVIOUS
      <4>1. h \in 1 .. Len(f) /\ h <= m /\ m <= h
        BY <3>2, <3>3, <3>4
      <4>2. QED
        BY <2>1, <4>1
    <3>7. (CHOOSE h \in before : \A l \in before : l <= h) = m
      BY <3>2, <3>3, <3>6
    <3>8. QED
      BY <3>5, <3>7
  <2>13. NextString(f, d, a, next(d, m))
    <3>1. Buffer(d) /\ Len(d) = Len(f) + 1 /\ m \in 1 .. Len(d)
      BY <2>1 DEF Fits
    <3> HIDE DEF a
    <3>2. /\ next(d, m) \in a .. Len(d)
          /\ next(d, m) = Len(d) \/ d[next(d, m)] # NUL
          /\ \A l \in a .. next(d, m) - 1 : d[l] = NUL
      BY <2>11, <3>1, NextIs
    <3>3. QED
      BY <3>1, <3>2 DEF NextString
  <2> HIDE DEF a
  <2>14. AtItem(f, d, s, k, SectionAt(f, a), next(d, m))
    BY <2>5, <2>8, <2>10, <2>13, Arrives
  <2>15. QED
    BY <2>11, <2>12, <2>14
<1>3. QED
  BY <1>1, <1>2

\* At a pair it has the key of that pair.
LEMMA PairHere ==
    ASSUME NEW f, NEW d, Cut(f, d), NEW s, NEW k, NEW cs, NEW m \in 1 .. Len(f),
           AtItem(f, d, s, k, cs, m), ~ Wrong(f, s, k), d[m] # "["
    PROVE  /\ m \in Pairs(f) /\ m \notin EmptyKeys(f)
           /\ \A j \in EmptyKeys(f) \cup Matches(f, s, k) : m <= j
           /\ cs = SectionAt(f, m)
           /\ m \in Matches(f, s, k) <=> /\ s = NULL \/ SameText(<<s>>, cs)
                                         /\ SameText(StringAt(d, m), <<k>>)
<1>1. TextFile(f) /\ Fits(f, d) /\ Len(f) \in Nat
  BY FileType DEF Cut
<1>2. /\ m \in Items(f) /\ d[m] # NUL /\ cs = SectionAt(f, m)
      /\ \A j \in EmptyKeys(f) \cup Matches(f, s, k) : m <= j
  <2>1. m # Len(f) + 1
    BY <1>1
  <2>2. QED
    BY <2>1 DEF AtItem
<1>3. m \in Pairs(f)
  <2> SUFFICES ASSUME m \in Headers(f) PROVE FALSE
    BY <1>2 DEF Items
  <2>1. f[m] = "[" /\ \A l \in m .. Stop(f, m) - 1 : d[l] = f[l]
    BY HeaderCells
  <2>2. Stop(f, m) \in m + 1 .. Len(f) + 1
    BY <1>1, <1>2, ItemStop
  <2>3. m \in m .. Stop(f, m) - 1
    BY <2>2
  <2>4. QED
    BY <2>1, <2>3
<1>4. m \notin EmptyKeys(f)
  <2> SUFFICES ASSUME m \in EmptyKeys(f) PROVE FALSE
    OBVIOUS
  <2>1. Key(f, m) = << >>
    BY DEF EmptyKeys
  <2>2. KeyEnd(f, m) = m
    BY <2>1 DEF KeyEnd
  <2>3. KeyEnd(f, m) \in m .. ValueFrom(f, m) - 1
    BY <1>3, PairCells
  <2>4. \A l \in KeyEnd(f, m) .. ValueFrom(f, m) - 1 : d[l] = NUL
    BY <1>3, PairCells
  <2>5. m \in KeyEnd(f, m) .. ValueFrom(f, m) - 1
    BY <2>2, <2>3
  <2>6. QED
    BY <1>2, <2>4, <2>5
<1>5. StringAt(d, m) = Key(f, m)
  BY <1>3, PairReads
<1>6. m \in Matches(f, s, k) <=> /\ s = NULL \/ SameText(<<s>>, SectionAt(f, m))
                                 /\ SameText(Key(f, m), <<k>>)
  BY <1>3, Zenon DEF Matches
<1>7. QED
  BY <1>2, <1>3, <1>4, <1>5, <1>6

\* Past a pair that is no match it stays in its section.
LEMMA GetPastPair ==
    ASSUME NEW f, NEW d, Cut(f, d), NEW s, NEW k, NEW cs, NEW m \in 1 .. Len(f),
           AtItem(f, d, s, k, cs, m), d[m] # "[",
           ~ /\ s = NULL \/ SameText(<<s>>, cs)
             /\ SameText(StringAt(d, m), <<k>>)
    PROVE  AtItem(f, d, s, k, cs, next(d, next(d, m)))
<1>1. CASE Wrong(f, s, k)
  BY <1>1 DEF AtItem
<1>2. CASE ~ Wrong(f, s, k)
  <2> DEFINE a == ValueEnd(f, m)
             v == ValueFrom(f, m)
             j == next(d, v)
  <2>1. TextFile(f) /\ Fits(f, d) /\ Len(f) \in Nat
    BY FileType DEF Cut
  <2>2. m \in Pairs(f) /\ m \notin EmptyKeys(f) /\ m \notin Matches(f, s, k)
        /\ \A i \in EmptyKeys(f) \cup Matches(f, s, k) : m <= i
    BY <1>2, PairHere
  <2>3. cs = SectionAt(f, m) /\ m \in Items(f)
    BY <1>2, <2>2, PairHere DEF Items
  <2>4. /\ KeyEnd(f, m) \in m .. v - 1 /\ v \in m + 1 .. a - 1
        /\ a \in m + 1 .. Stop(f, m) /\ m \notin Headers(f)
    BY <2>2, PairCells
  <2>5. Stop(f, m) \in m + 1 .. Len(f) + 1
    BY <2>1, <2>3, ItemStop
  <2>6. Scan(d, v, {}) = a /\ next(d, m) = v
    BY <2>2, PairReads
  <2> HIDE DEF a, v
  <2>7. a \in 1 .. Len(f) + 1 /\ v \in 1 .. Len(f) + 1
    BY <2>1, <2>4, <2>5
  <2>8. \A l : Covers(f, m, l) => l < a
    <3> SUFFICES ASSUME NEW l, Covers(f, m, l) PROVE l < a
      OBVIOUS
    <3>1. l \in m .. KeyEnd(f, m) - 1 \/ l \in v .. a - 1
      BY <2>4, Zenon DEF Covers, a, v
    <3>2. QED
      BY <2>1, <2>4, <2>7, <3>1
  <2>9. Apart(f, a) /\ \A i \in Items(f) : i > m => a <= i
    BY <2>3, <2>4, <2>8, ItemApart
  <2>10. \A i \in EmptyKeys(f) \cup Matches(f, s, k) : a <= i
    BY <2>2, <2>3, <2>4, ItemPassed
  <2>11. cs = SectionAt(f, a)
    <3>1. {h \in Headers(f) : h < m} = {h \in Headers(f) : h < a}
      <4>1. ASSUME NEW h \in Headers(f) PROVE h < m <=> h < a
        <5>1. h \in Items(f) /\ h \in 1 .. Len(f) /\ h # m
          BY <2>1, <2>4, ItemStop DEF Items
        <5>2. ~ (h > m /\ h < a)
          <6> SUFFICES ASSUME h > m, h < a PROVE FALSE
            OBVIOUS
          <6>1. a <= h
            BY <2>9, <5>1
          <6>2. QED
            BY <2>7, <5>1, <6>1
        <5>3. QED
          BY <2>4, <2>7, <5>1, <5>2
      <4>2. QED
        BY <4>1, Zenon
    <3>2. SectionAt(f, m) = SectionAt(f, a)
      BY <3>1, SameSection
    <3>3. QED
      BY <2>3, <3>2
  <2>12. NextString(f, d, a, j)
    <3>1. Buffer(d) /\ Len(d) = Len(f) + 1 /\ v \in 1 .. Len(d)
      BY <2>1, <2>7 DEF Fits
    <3>2. /\ j \in a .. Len(d)
          /\ j = Len(d) \/ d[j] # NUL
          /\ \A l \in a .. j - 1 : d[l] = NUL
      BY <2>6, <3>1, NextIs
    <3>3. QED
      BY <3>1, <3>2 DEF NextString
  <2> HIDE DEF j
  <2>13. AtItem(f, d, s, k, cs, j)
    BY <2>7, <2>9, <2>10, <2>11, <2>12, Arrives
  <2>14. QED
    BY <2>6, <2>13 DEF j
<1>3. QED
  BY <1>1, <1>2

\* What it finds is the value of the first match,
LEMMA GetFinds ==
    ASSUME NEW f, NEW d, Cut(f, d), NEW s, NEW k, NEW cs, NEW m \in 1 .. Len(f),
           AtItem(f, d, s, k, cs, m), d[m] # "[",
           s = NULL \/ SameText(<<s>>, cs), SameText(StringAt(d, m), <<k>>)
    PROVE  \/ Wrong(f, s, k)
           \/ /\ Matches(f, s, k) # {}
              /\ StringAt(d, next(d, m)) = Value(f, FirstMatch(f, s, k))
<1> SUFFICES ASSUME ~ Wrong(f, s, k)
             PROVE  /\ Matches(f, s, k) # {}
                    /\ StringAt(d, next(d, m)) = Value(f, FirstMatch(f, s, k))
  OBVIOUS
<1> DEFINE M == Matches(f, s, k)
<1>1. m \in Pairs(f) /\ m \in M
  BY PairHere
<1>2. \A j \in M : m <= j
  BY PairHere
<1>3. \A j \in M : j \in 1 .. Len(f)
  <2>1. TextFile(f)
    BY DEF Cut
  <2>2. QED
    BY <2>1, MatchKey, ItemStop
<1>4. FirstMatch(f, s, k) = CHOOSE i \in M : \A j \in M : i <= j
  BY DEF FirstMatch
<1> HIDE DEF M
<1>5. \A i \in M : (\A j \in M : i <= j) => i = m
  <2> SUFFICES ASSUME NEW i \in M, \A j \in M : i <= j PROVE i = m
    OBVIOUS
  <2>1. i \in 1 .. Len(f) /\ i <= m /\ m <= i
    BY <1>1, <1>2, <1>3
  <2>2. QED
    BY <2>1
<1>6. FirstMatch(f, s, k) = m
  BY <1>1, <1>2, <1>4, <1>5
<1>7. StringAt(d, next(d, m)) = Value(f, m)
  BY <1>1, PairReads
<1>8. QED
  BY <1>1, <1>6, <1>7 DEF M

\* and where it comes to the end there is none.
LEMMA GetMisses ==
    ASSUME NEW f, NEW d, Cut(f, d), NEW s, NEW k, NEW cs,
           AtItem(f, d, s, k, cs, Len(f) + 1)
    PROVE  Wrong(f, s, k) \/ Matches(f, s, k) = {}
<1> SUFFICES ASSUME ~ Wrong(f, s, k), NEW i \in Matches(f, s, k) PROVE FALSE
  OBVIOUS
<1>1. TextFile(f)
  BY DEF Cut
<1>2. i \in 1 .. Len(f) /\ Len(f) \in Nat
  BY <1>1, MatchKey, ItemStop
<1>3. Len(f) + 1 <= i
  BY DEF AtItem
<1>4. QED
  BY <1>2, <1>3

-----------------------------------------------------------------------------
(* What holds between the loops: the buffer and the file *)

\* What ini_get was asked for.
Sought == Matches(file, asked.section, asked.key)
Shifted == Wrong(file, asked.section, asked.key)

\* How far the parser has come with the file.
ParsedSoFar ==
    /\ doing = "split" => SplitUpTo(file, data, p)
    /\ doing = "unescape" =>
          /\ Unescaping(file, data, line_start, p, q)
          /\ value_start = ValueFrom(file, line_start)
    /\ doing \in {"ready", "get", "found", "missing"} => Done(file, data, Len(file) + 1)
    /\ doing = "get" => AtItem(file, data, asked.section, asked.key, current_section, p)
    /\ doing = "found" =>
          \/ Shifted
          \/ /\ Sought # {}
             /\ StringAt(data, p) = Value(file, FirstMatch(file, asked.section, asked.key))
    /\ doing = "missing" => Shifted \/ Sought = {}

Parsed == TextFile(file) /\ doing # "none" => Fits(file, data) /\ ParsedSoFar

\* This is what there is to show while split_data runs.
LEMMA StillSplitting ==
    ASSUME doing' = "split", SplitUpTo(file', data', p')
    PROVE  ParsedSoFar'
  BY DEF ParsedSoFar

\* And this while a quoted value is read.
LEMMA StillUnescaping ==
    ASSUME doing' = "unescape", Unescaping(file', data', line_start', p', q'),
           value_start' = ValueFrom(file', line_start')
    PROVE  ParsedSoFar'
  BY DEF ParsedSoFar

\* The buffer is as long as the file and its zero.
LEMMA InFile ==
    ASSUME Inv, Parsed, TextFile(file), doing # "none"
    PROVE  /\ Fits(file, data) /\ ParsedSoFar /\ Buffer(data)
           /\ Len(file) \in Nat /\ Len(data) = Len(file) + 1 /\ end = Len(file) + 1
           /\ p \in 1 .. Len(file) + 1
<1>1. Fits(file, data) /\ ParsedSoFar
  BY DEF Parsed
<1>2. Buffer(data) /\ Len(file) \in Nat /\ Len(data) = Len(file) + 1
  BY <1>1, FileType DEF Fits
<1>3. p \in 1 .. Len(data)
  BY InvPoints DEF Points
<1>4. QED
  BY <1>1, <1>2, <1>3 DEF end

\* Each turn of split_data makes of the file what the grammar says.
LEMMA SplitParsed ==
    ASSUME Inv, Parsed, TextFile(file), file' = file,
           SplitBlank \/ SplitHeader \/ SplitComment \/ SplitNoPair
                      \/ SplitPlain \/ SplitQuoted \/ SplitDone
    PROVE  Fits(file, data') /\ ParsedSoFar'
<1>1. doing = "split"
  BY DEF SplitBlank, SplitHeader, SplitComment, SplitNoPair, SplitPlain, SplitQuoted,
         SplitDone, SplitLine, Splitting
<1>2. /\ Fits(file, data) /\ SplitUpTo(file, data, p) /\ Buffer(data)
      /\ Len(file) \in Nat /\ Len(data) = Len(file) + 1 /\ end = Len(file) + 1
      /\ p \in 1 .. Len(file) + 1
  BY <1>1, InFile DEF ParsedSoFar
<1>3. p < end => p \in 1 .. Len(file)
  BY <1>2
<1>4. ASSUME NEW d, NEW m, data' = d, p' = m, doing' = "split",
             SplitUpTo(file, d, m), Buffer(d), Len(d) = Len(data)
      PROVE  Fits(file, data') /\ ParsedSoFar'
  <2>1. SplitUpTo(file', data', p')
    BY <1>4
  <2>2. Fits(file, data')
    BY <1>2, <1>4 DEF Fits
  <2>3. QED
    BY <1>4, <2>1, <2>2, StillSplitting
<1>5. CASE SplitBlank
  <2>1. /\ data' = Zeros(data, p, p + 1) /\ p' = p + 1 /\ doing' = "split" /\ p < end
        /\ data[p] \in Blank \cup {LF, NUL}
    BY <1>1, <1>5 DEF SplitBlank, Splitting
  <2>2. SplitUpTo(file, Zeros(data, p, p + 1), p + 1)
    BY <1>2, <1>3, <2>1, BlankDone
  <2>3. Buffer(Zeros(data, p, p + 1)) /\ Len(Zeros(data, p, p + 1)) = Len(data)
    BY <1>2, ZerosKeep
  <2>4. QED
    BY <1>4, <2>1, <2>2, <2>3
<1>6. CASE SplitHeader
  <2> DEFINE j == Scan(data, p, {"]", LF})
  <2>1. /\ data' = Zeros(data, j, j + 1) /\ p' = j /\ doing' = "split" /\ p < end
        /\ data[p] = "["
    BY <1>1, <1>6 DEF SplitHeader, Splitting
  <2>2. SplitUpTo(file, Zeros(data, j, j + 1), j)
    BY <1>2, <1>3, <2>1, HeaderDone
  <2> HIDE DEF j
  <2>3. Buffer(Zeros(data, j, j + 1)) /\ Len(Zeros(data, j, j + 1)) = Len(data)
    BY <1>2, ZerosKeep
  <2>4. QED
    BY <1>4, <2>1, <2>2, <2>3
<1>7. ASSUME data' = discard_line(data, p), p' = LineEnd(data, p), doing' = "split",
             p < end, data[p] \notin Blank \cup {LF, NUL, "["}, p \notin Items(file)
      PROVE  Fits(file, data') /\ ParsedSoFar'
  <2>1. SplitUpTo(file, discard_line(data, p), LineEnd(data, p))
    BY <1>2, <1>3, <1>7, NothingDone
  <2>2. Buffer(discard_line(data, p)) /\ Len(discard_line(data, p)) = Len(data)
    BY <1>2, ZerosKeep DEF discard_line
  <2>3. QED
    BY <1>4, <1>7, <2>1, <2>2
<1>8. CASE SplitComment
  <2>1. /\ data' = discard_line(data, p) /\ p' = LineEnd(data, p) /\ doing' = "split"
        /\ p < end /\ data[p] = ";"
    BY <1>1, <1>8 DEF SplitComment, Splitting
  <2>2. ";" \notin Blank \cup {LF, NUL, "["}
    BY DEF Blank, SP, CR, LF, NUL
  <2>3. file[p] = ";"
    <3>1. p <= Len(file) /\ Here(file, data, p)
      <4>1. p <= Len(file)
        <5>1. p \in 1 .. Len(file)
          BY <1>3, <2>1, Zenon
        <5>2. QED
          BY <1>2, <5>1
      <4>2. Here(file, data, p)
        BY <1>2, Zenon DEF SplitUpTo
      <4>3. QED
        BY <4>1, <4>2
    <3>2. data[p] \notin {NUL, LF}
      BY <2>1 DEF LF, NUL
    <3>3. data[p] = file[p]
      BY <3>1, <3>2, Zenon DEF Here
    <3>4. QED
      BY <2>1, <3>3
  <2>4. p \notin Items(file)
    BY <2>3 DEF Items, Headers, Pairs, Entries
  <2>5. QED
    BY <1>7, <2>1, <2>2, <2>4
<1>9. ASSUME SplitLine
      PROVE  /\ EntryHere /\ p < end /\ line_start' = p
             /\ data[p] \notin Blank \cup {LF, NUL, "[", ";"}
  <2>1. p < end /\ line_start' = p /\ data[p] \notin Blank \cup {LF, NUL, "[", ";"}
    BY <1>9 DEF SplitLine, Splitting
  <2>2. EntryHere
    BY <1>2, <1>3, <2>1, EntryBegins
  <2>3. QED
    BY <2>1, <2>2
<1>10. CASE SplitNoPair
  <2>1. /\ SplitLine /\ ~ HasValue /\ doing' = "split"
        /\ data' = discard_line(data, p) /\ p' = LineEnd(data, p)
    BY <1>1, <1>10 DEF SplitNoPair
  <2>2. p \notin Items(file)
    BY <1>9, <2>1, NoPairHere
  <2>3. QED
    BY <1>7, <1>9, <2>1, <2>2
<1>11. CASE SplitPlain
  <2> DEFINE j == Scan(KeyCut, ValueAt, {LF})
  <2>1. /\ SplitLine /\ HasValue /\ data[ValueAt] # QUOTE /\ doing' = "split"
        /\ data' = trim_back(KeyCut, j - 1) /\ p' = j
    BY <1>1, <1>11 DEF SplitPlain
  <2>2. SplitUpTo(file, trim_back(KeyCut, j - 1), j)
    BY <1>9, <2>1, PlainPair
  <2>3. Buffer(KeyCut) /\ Len(KeyCut) = Len(data)
    BY <1>2, <2>1, KeyCutType DEF end
  <2> HIDE DEF j
  <2>4. Buffer(trim_back(KeyCut, j - 1)) /\ Len(trim_back(KeyCut, j - 1)) = Len(data)
    BY <2>3, ZerosKeep
  <2>5. QED
    BY <1>4, <2>1, <2>2, <2>4
<1>12. CASE SplitQuoted
  <2>1. /\ SplitLine /\ HasValue /\ data[ValueAt] = QUOTE /\ doing' = "unescape"
        /\ data' = KeyCut /\ p' = ValueAt + 1 /\ q' = ValueAt /\ value_start' = ValueAt
    BY <1>12 DEF SplitQuoted
  <2>2. Unescaping(file, KeyCut, p, ValueAt + 1, ValueAt) /\ ValueAt = ValueFrom(file, p)
    BY <1>9, <2>1, QuoteBegins
  <2>3. Buffer(KeyCut) /\ Len(KeyCut) = Len(data)
    BY <1>2, <2>1, KeyCutType DEF end
  <2>4. Fits(file, data')
    BY <1>2, <2>1, <2>3 DEF Fits
  <2>5. line_start' = p
    BY <1>9, <2>1
  <2>6. Unescaping(file', data', line_start', p', q')
    BY <2>1, <2>2, <2>5
  <2>7. value_start' = ValueFrom(file', line_start')
    BY <2>1, <2>2, <2>5
  <2>8. QED
    BY <2>1, <2>4, <2>6, <2>7, StillUnescaping
<1>13. CASE SplitDone
  <2>1. ~ (p < end) /\ doing' = "ready" /\ data' = data
    BY <1>13 DEF SplitDone
  <2>2. p = Len(file) + 1
    BY <1>2, <2>1
  <2>3. Done(file, data, Len(file) + 1)
    BY <1>2, <2>2 DEF SplitUpTo
  <2>4. Done(file', data', Len(file') + 1)
    BY <2>1, <2>3
  <2>5. ParsedSoFar'
    BY <2>1, <2>4 DEF ParsedSoFar
  <2>6. QED
    BY <1>2, <2>1, <2>5
<1>14. QED
  BY <1>5, <1>6, <1>8, <1>10, <1>11, <1>12, <1>13

\* So does each turn of unescape_quoted_value.
LEMMA UnescapeParsed ==
    ASSUME Inv, Inv', Parsed, TextFile(file), file' = file,
           CopyPlain \/ CopyEscape \/ CloseQuote
    PROVE  Fits(file, data') /\ ParsedSoFar'
<1> DEFINE m == line_start
<1>1. doing = "unescape"
  BY DEF CopyPlain, CopyEscape, CloseQuote
<1>2. /\ Fits(file, data) /\ Unescaping(file, data, m, p, q)
      /\ value_start = ValueFrom(file, m) /\ Buffer(data)
      /\ Len(file) \in Nat /\ Len(data) = Len(file) + 1 /\ end = Len(file) + 1
      /\ p \in 1 .. Len(file) + 1
  BY <1>1, InFile DEF ParsedSoFar
<1>3. Closes <=> p = Len(file) + 1 \/ data[p] \in {QUOTE, CR, LF}
  <2>1. p >= end <=> p = Len(file) + 1
    BY <1>2
  <2>2. Closes <=> p >= end \/ data[p] \in {QUOTE, CR, LF}
    BY Zenon DEF Closes
  <2>3. QED
    BY <2>1, <2>2
<1>4. ASSUME NEW c, data' = [data EXCEPT ![q] = c], doing' = "unescape",
             UNCHANGED <<line_start, value_start>>, q' = q + 1,
             Unescaping(file, [data EXCEPT ![q] = c], m, p', q + 1)
      PROVE  Fits(file, data') /\ ParsedSoFar'
  <2>1. Buffer(data')
    BY <1>4 DEF Inv, Loaded
  <2>2. Len(data') = Len(data)
    <3>1. data \in Seq(Chars) /\ data' \in Seq(Chars)
      BY <1>2, <2>1 DEF Buffer
    <3>2. DOMAIN data' = DOMAIN data
      BY <1>4
    <3>3. QED
      BY <3>1, <3>2, LenProperties
  <2>3. Fits(file, data')
    BY <1>2, <2>1, <2>2 DEF Fits
  <2>4. Unescaping(file', data', line_start', p', q')
    BY <1>4
  <2>5. value_start' = ValueFrom(file', line_start')
    BY <1>2, <1>4
  <2>6. QED
    BY <1>4, <2>3, <2>4, <2>5, StillUnescaping
<1>5. CASE CopyPlain
  <2>1. /\ ~ Closes /\ data[p] # "\\" /\ data' = [data EXCEPT ![q] = data[p]]
        /\ doing' = "unescape" /\ UNCHANGED <<line_start, value_start>>
        /\ q' = q + 1 /\ p' = p + 1
    BY <1>1, <1>5 DEF CopyPlain
  <2>2. p <= Len(file) /\ data[p] \notin {QUOTE, CR, LF, "\\"}
    BY <1>2, <1>3, <2>1
  <2>3. Unescaping(file, [data EXCEPT ![q] = data[p]], m, p + 1, q + 1)
    BY <1>2, <2>2, PlainCopied
  <2>4. QED
    BY <1>4, <2>1, <2>3
<1>6. CASE CopyEscape
  <2>1. /\ ~ Closes /\ data[p] = "\\" /\ data[p + 1] \notin {CR, LF, NUL}
        /\ data' = [data EXCEPT ![q] = Unescaped(data[p + 1])]
        /\ doing' = "unescape" /\ UNCHANGED <<line_start, value_start>>
        /\ q' = q + 1 /\ p' = p + 2
    BY <1>1, <1>6 DEF CopyEscape
  <2>2. p <= Len(file)
    BY <1>2, <1>3, <2>1
  <2>3. Unescaping(file, [data EXCEPT ![q] = Unescaped(data[p + 1])], m, p + 2, q + 1)
    BY <1>2, <2>1, <2>2, EscapeCopied
  <2>4. QED
    BY <1>4, <2>1, <2>3
<1>7. CASE CloseQuote
  <2> DEFINE from == IF q = value_start THEN m ELSE q
  <2>1. /\ Closes \/ (data[p] = "\\" /\ data[p + 1] \in {CR, LF, NUL})
        /\ data' = discard_line(data, from) /\ p' = LineEnd(data, from)
        /\ doing' = "split"
    BY <1>7 DEF CloseQuote
  <2>2. \/ p = Len(file) + 1 \/ data[p] \in {QUOTE, CR, LF}
        \/ data[p] = "\\" /\ data[p + 1] \in {CR, LF, NUL}
    BY <1>3, <2>1
  <2>3. /\ q = ValueFrom(file, m) => SplitUpTo(file, discard_line(data, m), LineEnd(data, m))
        /\ q # ValueFrom(file, m) => SplitUpTo(file, discard_line(data, q), LineEnd(data, q))
    BY <1>2, <2>2, QuoteDone
  <2>4. SplitUpTo(file, discard_line(data, from), LineEnd(data, from))
    BY <1>2, <2>3
  <2> HIDE DEF from
  <2>5. Buffer(discard_line(data, from)) /\ Len(discard_line(data, from)) = Len(data)
    BY <1>2, ZerosKeep DEF discard_line
  <2>6. Fits(file, data')
    BY <1>2, <2>1, <2>5 DEF Fits
  <2>7. SplitUpTo(file', data', p')
    BY <2>1, <2>4
  <2>8. QED
    BY <2>1, <2>6, <2>7, StillSplitting
<1>8. QED
  BY <1>5, <1>6, <1>7

\* ini_get comes to the first string that answers, if there is one.
LEMMA GetParsed ==
    ASSUME Inv, Parsed, TextFile(file), file' = file,
           Get \/ \E section, key : CallGet(section, key)
    PROVE  Fits(file, data') /\ ParsedSoFar'
<1>1. doing \in {"ready", "get"} /\ data' = data /\ doing' \in {"get", "found", "missing"}
  BY DEF Get, CallGet, GetSection, GetOther, GetFound, GetMissing
<1>2. /\ Fits(file, data) /\ Done(file, data, Len(file) + 1) /\ Cut(file, data)
      /\ end = Len(file) + 1 /\ Len(file) \in Nat /\ p \in 1 .. Len(file) + 1
  <2>1. /\ Fits(file, data) /\ Done(file, data, Len(file) + 1)
        /\ end = Len(file) + 1 /\ Len(file) \in Nat /\ p \in 1 .. Len(file) + 1
    BY <1>1, InFile DEF ParsedSoFar
  <2>2. QED
    BY <2>1 DEF Cut
<1>3. Fits(file, data') /\ Done(file', data', Len(file') + 1)
  BY <1>1, <1>2
<1>4. ASSUME doing' = "get",
             AtItem(file', data', asked'.section, asked'.key, current_section', p')
      PROVE  ParsedSoFar'
  BY <1>3, <1>4 DEF ParsedSoFar
<1>5. ASSUME NEW section, NEW key, CallGet(section, key)
      PROVE  ParsedSoFar'
  <2>1. /\ doing' = "get" /\ asked' = [section |-> section, key |-> key]
        /\ current_section' = << >> /\ p' = IF data[1] = NUL THEN next(data, 1) ELSE 1
    BY <1>5 DEF CallGet
  <2>2. AtItem(file, data, section, key, << >>, p')
    BY <1>2, <2>1, GetBegins
  <2>3. asked'.section = section /\ asked'.key = key
    BY <2>1
  <2>4. AtItem(file', data', asked'.section, asked'.key, current_section', p')
    BY <1>1, <2>1, <2>2, <2>3
  <2>5. QED
    BY <1>4, <2>1, <2>4
<1> DEFINE s == asked.section
           k == asked.key
           cs == current_section
<1>6. CASE Get
  <2>1. doing = "get" /\ AtItem(file, data, s, k, cs, p) /\ asked' = asked
    <3>1. doing = "get" /\ asked' = asked
      BY <1>6 DEF Get, GetSection, GetOther, GetFound, GetMissing, getVars
    <3>2. QED
      BY <1>1, <3>1, InFile DEF ParsedSoFar
  <2>2. p < end => p \in 1 .. Len(file)
    BY <1>2
  <2>3. asked'.section = s /\ asked'.key = k
    BY <2>1
  <2> HIDE DEF s, k, cs
  <2>4. CASE GetSection
    <3>1. /\ doing' = "get" /\ p < end /\ data[p] = "["
          /\ current_section' = StringAt(data, p + 1) /\ p' = next(data, p)
      BY <2>1, <2>4 DEF GetSection
    <3>2. AtItem(file, data, s, k, StringAt(data, p + 1), next(data, p))
      BY <1>2, <2>1, <2>2, <3>1, GetPastHeader
    <3>3. AtItem(file', data', asked'.section, asked'.key, current_section', p')
      BY <1>1, <2>3, <3>1, <3>2
    <3>4. QED
      BY <1>3, <1>4, <3>1, <3>3
  <2>5. CASE GetOther
    <3>1. /\ doing' = "get" /\ p < end /\ data[p] # "[" /\ ~ Wanted
          /\ current_section' = cs /\ p' = next(data, next(data, p))
      BY <2>1, <2>5 DEF GetOther, getVars, cs
    <3>2. ~ /\ s = NULL \/ SameText(<<s>>, cs)
            /\ SameText(StringAt(data, p), <<k>>)
      BY <3>1, Zenon DEF Wanted, s, k, cs
    <3>3. AtItem(file, data, s, k, cs, next(data, next(data, p)))
      BY <1>2, <2>1, <2>2, <3>1, <3>2, GetPastPair
    <3>4. AtItem(file', data', asked'.section, asked'.key, current_section', p')
      BY <1>1, <2>3, <3>1, <3>3
    <3>5. QED
      BY <1>3, <1>4, <3>1, <3>4
  <2>6. CASE GetFound
    <3>1. /\ doing' = "found" /\ p < end /\ data[p] # "[" /\ Wanted /\ p' = next(data, p)
      BY <2>6 DEF GetFound
    <3>2. (s = NULL \/ SameText(<<s>>, cs)) /\ SameText(StringAt(data, p), <<k>>)
      BY <3>1, Zenon DEF Wanted, s, k, cs
    <3>3. \/ Wrong(file, s, k)
          \/ /\ Matches(file, s, k) # {}
             /\ StringAt(data, next(data, p)) = Value(file, FirstMatch(file, s, k))
      BY <1>2, <2>1, <2>2, <3>1, <3>2, GetFinds
    <3>4. \/ Shifted'
          \/ Sought' # {} /\ StringAt(data', p') =
                Value(file', FirstMatch(file', asked'.section, asked'.key))
      BY <1>1, <2>3, <3>1, <3>3 DEF Shifted, Sought
    <3>5. QED
      BY <1>3, <3>1, <3>4 DEF ParsedSoFar
  <2>7. CASE GetMissing
    <3>1. doing' = "missing" /\ ~ (p < end)
      BY <2>7 DEF GetMissing
    <3>2. p = Len(file) + 1
      BY <1>2, <3>1
    <3>3. Wrong(file, s, k) \/ Matches(file, s, k) = {}
      BY <1>2, <2>1, <3>2, GetMisses
    <3>4. Shifted' \/ Sought' = {}
      BY <2>3, <3>3 DEF Shifted, Sought
    <3>5. QED
      BY <1>3, <3>1, <3>4 DEF ParsedSoFar
  <2>8. QED
    BY <1>6, <2>4, <2>5, <2>6, <2>7 DEF Get
<1>7. QED
  BY <1>3, <1>5, <1>6

\* Every step keeps what the buffer has to do with the file.
LEMMA NextParsed == ASSUME Inv, Parsed, [Next]_vars PROVE Parsed'
<1> SUFFICES ASSUME TextFile(file'), doing' # "none" PROVE Fits(file', data') /\ ParsedSoFar'
  BY DEF Parsed
<1>1. Inv'
  BY NextInv
<1>2. file' = file /\ TextFile(file)
  <2>1. file' = file
    BY DEF Next, Load, LoadFails, Parse, AskPort, FrontFound, BackFound, NoPort, Free,
           MakeContext, MakeSockets, BindFront, BindBack, SetOptions, Throw, mainVars, vars
  <2>2. QED
    BY <2>1
<1>3. CASE Load
  <2>1. data' = Append(file, NUL) /\ p' = 1 /\ doing' = "split"
    BY <1>3 DEF Load
  <2>2. file \in Seq(Chars) /\ NUL \in Chars
    BY <1>2 DEF TextFile, Chars
  <2> DEFINE d == Append(file, NUL)
  <2>3. Len(d) = Len(file) + 1 /\ Len(file) \in Nat /\ \A j \in 1 .. Len(file) : d[j] = file[j]
    BY <2>2, AppendProperties, LenProperties
  <2>4. Buffer(data')
    BY <1>1, <2>1 DEF Inv, Loaded
  <2>5. Fits(file', data')
    BY <1>2, <2>1, <2>3, <2>4 DEF Fits
  <2> HIDE DEF d
  <2>6. \A i \in Items(file) : ~ (i < 1)
    BY <1>2, ItemStop
  <2>7. Done(file, d, 1)
    BY <2>6 DEF Done
  <2>8. Ahead(file, d, 1 + 1)
    BY <2>3 DEF Ahead
  <2>9. Here(file, d, 1)
    BY <2>3, BeginsFirst DEF Here
  <2>10. SplitUpTo(file', data', p')
    BY <1>2, <2>1, <2>7, <2>8, <2>9 DEF SplitUpTo, d
  <2>11. QED
    BY <2>1, <2>5, <2>10, StillSplitting
<1>4. CASE Parse
  <2>1. CASE Get
    BY <1>2, <2>1, GetParsed
  <2>2. CASE Split
    BY <1>1, <1>2, <2>2, SplitParsed, UnescapeParsed DEF Split
  <2>3. QED
    BY <1>4, <2>1, <2>2 DEF Parse
<1>5. CASE AskPort
  BY <1>2, <1>5, GetParsed DEF AskPort
<1>6. CASE FrontFound \/ BackFound
  <2>1. UNCHANGED data /\ doing = "found" /\ doing' = "ready"
    BY <1>6 DEF FrontFound, BackFound
  <2>2. Fits(file, data) /\ Done(file, data, Len(file) + 1)
    BY <1>2, <2>1, InFile DEF ParsedSoFar
  <2>3. QED
    BY <1>2, <2>1, <2>2 DEF ParsedSoFar
<1>7. CASE Free
  BY <1>7 DEF Free
<1>8. CASE UNCHANGED iniVars
  <2>1. /\ UNCHANGED <<data, doing, p, line_start, q, value_start, current_section, asked>>
        /\ doing # "none"
    BY <1>8 DEF iniVars
  <2>2. Fits(file, data) /\ ParsedSoFar
    BY <1>2, <2>1, InFile
  <2>3. Fits(file', data')
    BY <1>2, <2>1, <2>2
  <2>4. ParsedSoFar'
    BY <1>2, <2>1, <2>2 DEF ParsedSoFar, Shifted, Sought
  <2>5. QED
    BY <2>3, <2>4
<1>9. QED
  BY <1>3, <1>4, <1>5, <1>6, <1>7, <1>8
     DEF Next, LoadFails, NoPort, MakeContext, MakeSockets, BindFront, BindBack,
         SetOptions, Throw, vars

\* At every turn of every loop the buffer holds what the grammar says of the
\* part of the file that is behind, and the file itself ahead.
THEOREM ParsesTheFile == Spec => []Parsed
<1>1. Init => Parsed
  BY DEF Init, Parsed
<1>2. Inv /\ Parsed /\ [Next]_vars => Parsed'
  BY NextParsed
<1>3. QED
  BY <1>1, <1>2, InitInv, NextInv, PTL DEF Spec

\* For every text file, what ini_get finds or misses is what the file says, as
\* long as no line before has an empty key.
THEOREM ReadsTheFile == Spec => []ReadsWhatTheFileSays
<1>1. Inv /\ Parsed => ReadsWhatTheFileSays
  <2> SUFFICES ASSUME Inv, Parsed, Text(file), doing \in {"found", "missing"}
               PROVE  ReadsWhatTheFileSays
    BY DEF ReadsWhatTheFileSays
  <2>1. TextFile(file)
    BY DEF TextFile, Inv, Fresh
  <2>2. ParsedSoFar
    BY <2>1, InFile
  <2>3. \/ doing = "missing" /\ Sought = {}
        \/ /\ doing = "found" /\ Sought # {}
           /\ StringAt(data, p) = Value(file, FirstMatch(file, asked.section, asked.key))
        \/ Shifted
    BY <2>2 DEF ParsedSoFar
  <2>4. QED
    BY <2>3, Zenon DEF ReadsWhatTheFileSays, Sought, Shifted, Wrong
<1>2. QED
  BY <1>1, ParsesTheFile, InitInv, NextInv, PTL DEF Spec

-----------------------------------------------------------------------------
(* What holds in main(): the ports and the file *)

\* The port is what the file gives to the key, if that is a number.
Given(f, port, key) ==
    \/ EmptyKeys(f) # {}
    \/ /\ Matches(f, "ProxyServer", key) # {}
       /\ port = Scanned(Value(f, FirstMatch(f, "ProxyServer", key)), port)

\* main() asks for a port, or has it, or has bound it.
Asking == doing \in {"get", "found"} =>
              /\ pc \in DOMAIN KeyOf
              /\ asked = [section |-> "ProxyServer", key |-> KeyOf[pc]]
HasFront == {"back", "free", "context", "sockets", "bind front", "bind back", "options",
             "Start"}
HasBack  == HasFront \ {"back"}

Ports ==
    /\ Asking
    /\ bound = [front |-> bound.front, back |-> bound.back]
    /\ TextFile(file) /\ pc \in HasFront => Given(file, front_port, "front_port")
    /\ TextFile(file) /\ pc \in HasBack => Given(file, back_port, "back_port")
    /\ pc \in {"bind back", "options", "Start"} => ListensOn(front_port, bound.front)
    /\ pc \in {"options", "Start"} =>
          ListensOn(back_port, bound.back) /\ bound.front # bound.back

\* A number is read the same way twice, and what is none leaves the port alone.
LEMMA ScannedTwice ==
    ASSUME NEW v, NEW old
    PROVE  Scanned(v, old) = Scanned(v, Scanned(v, old))
  BY Zenon DEF Scanned

\* What ini_sget found is what the file gives.
LEMMA FoundGiven ==
    ASSUME Inv, Parsed, Ports, TextFile(file), doing = "found", NEW old
    PROVE  Given(file, Scanned(StringAt(data, p), old), KeyOf[pc])
<1> DEFINE k == KeyOf[pc]
<1>1. asked.section = "ProxyServer" /\ asked.key = k
  <2>1. asked = [section |-> "ProxyServer", key |-> k]
    BY DEF Ports, Asking
  <2> HIDE DEF k
  <2>2. QED
    BY <2>1
<1> HIDE DEF k
<1>2. CASE Shifted
  <2>1. EmptyKeys(file) # {}
    BY <1>2 DEF Shifted, Wrong
  <2>2. QED
    BY <2>1 DEF Given, k
<1>3. CASE ~ Shifted
  <2> DEFINE v == Value(file, FirstMatch(file, "ProxyServer", k))
  <2>1. Matches(file, "ProxyServer", k) # {} /\ StringAt(data, p) = v
    BY <1>1, <1>3, InFile DEF ParsedSoFar, Sought
  <2> HIDE DEF v
  <2>2. Scanned(v, old) = Scanned(v, Scanned(v, old))
    BY ScannedTwice
  <2>3. QED
    BY <2>1, <2>2 DEF Given, k, v
<1>4. QED
  BY <1>2, <1>3

\* A port that bind() takes is the one it was given, and not taken yet.
LEMMA BindableListens ==
    ASSUME NEW port, NEW at \in Bindable(port)
    PROVE  ListensOn(port, at) /\ at \notin {bound.front, bound.back}
  BY DEF Bindable, ListensOn

\* Every step of main() keeps its ports.
LEMMA NextPorts == ASSUME Inv, Parsed, Ports, [Next]_vars PROVE Ports'
<1>1. file' = file
  BY DEF Next, Load, LoadFails, Parse, AskPort, FrontFound, BackFound, NoPort, Free,
         MakeContext, MakeSockets, BindFront, BindBack, SetOptions, Throw, mainVars, vars
<1>2. CASE Load \/ LoadFails
  BY <1>2 DEF Load, LoadFails, iniVars, Ports, Asking, HasFront, HasBack, KeyOf
<1>3. ASSUME UNCHANGED mainVars, Asking'
      PROVE  Ports'
  BY <1>3 DEF mainVars, Ports
<1>4. CASE Parse
  <2>1. doing' \in {"get", "found"} => doing = "get" /\ asked' = asked
    BY <1>4 DEF Parse, Split, Get, SplitBlank, SplitHeader, SplitComment, SplitNoPair,
         SplitPlain, SplitQuoted, SplitDone, SplitLine, Splitting, CopyPlain, CopyEscape,
         CloseQuote, GetSection, GetOther, GetFound, GetMissing, getVars
  <2>2. UNCHANGED mainVars
    BY <1>4 DEF Parse
  <2>3. Asking'
    BY <2>1, <2>2 DEF Ports, Asking, mainVars, KeyOf
  <2>4. QED
    BY <1>3, <2>2, <2>3
<1>5. CASE AskPort
  <2>1. /\ pc \in DOMAIN KeyOf /\ UNCHANGED mainVars
        /\ asked' = [section |-> "ProxyServer", key |-> KeyOf[pc]]
    BY <1>5 DEF AskPort, CallGet
  <2>2. Asking'
    BY <2>1 DEF Asking, mainVars, KeyOf
  <2>3. QED
    BY <1>3, <2>1, <2>2
<1>6. CASE FrontFound
  <2> DEFINE new == Scanned(StringAt(data, p), front_port)
  <2>1. /\ pc = "front" /\ doing = "found" /\ pc' = "back" /\ doing' = "ready"
        /\ front_port' = new /\ bound' = bound
    BY <1>6 DEF FrontFound
  <2>2. TextFile(file) => Given(file, new, "front_port")
    BY <2>1, FoundGiven DEF KeyOf
  <2> HIDE DEF new
  <2>3. TextFile(file') => Given(file', front_port', "front_port")
    BY <1>1, <2>1, <2>2
  <2>4. QED
    BY <2>1, <2>3 DEF Ports, Asking, HasFront, HasBack
<1>7. CASE BackFound
  <2> DEFINE new == Scanned(StringAt(data, p), back_port)
  <2>1. /\ pc = "back" /\ doing = "found" /\ pc' = "free" /\ doing' = "ready"
        /\ back_port' = new /\ front_port' = front_port /\ bound' = bound
    BY <1>7 DEF BackFound
  <2>2. TextFile(file) => Given(file, new, "back_port")
    BY <2>1, FoundGiven DEF KeyOf
  <2> HIDE DEF new
  <2>3. TextFile(file') => Given(file', back_port', "back_port")
    BY <1>1, <2>1, <2>2
  <2>4. TextFile(file') => Given(file', front_port', "front_port")
    BY <1>1, <2>1 DEF Ports, HasFront
  <2>5. QED
    BY <2>1, <2>3, <2>4 DEF Ports, Asking, HasFront, HasBack
<1>8. CASE NoPort \/ Throw
  BY <1>8 DEF NoPort, Throw, iniVars, Ports, Asking, HasFront, HasBack, KeyOf
<1>9. ASSUME UNCHANGED <<front_port, back_port>>,
             pc \in HasBack, pc' \in HasBack, doing' \in {doing, "none"},
             UNCHANGED asked,
             bound' = [front |-> bound'.front, back |-> bound'.back],
             pc' \in {"bind back", "options", "Start"} => ListensOn(front_port, bound'.front),
             pc' \in {"options", "Start"} =>
                ListensOn(back_port, bound'.back) /\ bound'.front # bound'.back
      PROVE  Ports'
  <2>1. doing' \notin {"get", "found"}
    <3>1. pc \notin DOMAIN KeyOf
      BY <1>9 DEF HasBack, HasFront, KeyOf
    <3>2. QED
      BY <1>9, <3>1 DEF Ports, Asking
  <2>2. TextFile(file') => Given(file', front_port', "front_port")
    BY <1>1, <1>9 DEF Ports, HasBack
  <2>3. TextFile(file') => Given(file', back_port', "back_port")
    BY <1>1, <1>9 DEF Ports
  <2>4. QED
    BY <1>9, <2>1, <2>2, <2>3 DEF Ports, Asking
<1>10. CASE Free \/ MakeContext \/ MakeSockets
  BY <1>9, <1>10 DEF Ports, Free, MakeContext, MakeSockets, iniVars, getVars, HasBack, HasFront
<1>11. CASE BindFront
  <2>1. PICK at \in Bindable(front_port) : bound' = [bound EXCEPT !.front = at]
    BY <1>11 DEF BindFront
  <2>2. bound' = [front |-> at, back |-> bound.back]
    BY <2>1 DEF Ports
  <2>3. ListensOn(front_port, bound'.front)
    BY <2>2, BindableListens
  <2>4. /\ UNCHANGED <<front_port, back_port, doing, asked>>
        /\ pc = "bind front" /\ pc' = "bind back"
    BY <1>11 DEF BindFront, iniVars, getVars
  <2>5. QED
    BY <1>9, <2>2, <2>3, <2>4 DEF HasBack, HasFront
<1>12. CASE BindBack
  <2>1. PICK at \in Bindable(back_port) : bound' = [bound EXCEPT !.back = at]
    BY <1>12 DEF BindBack
  <2>2. bound' = [front |-> bound.front, back |-> at]
    BY <2>1 DEF Ports
  <2>3. ListensOn(back_port, bound'.back) /\ bound'.front # bound'.back
    BY <2>2, BindableListens
  <2>4. /\ UNCHANGED <<front_port, back_port, doing, asked>>
        /\ pc = "bind back" /\ pc' = "options"
    BY <1>12 DEF BindBack, iniVars, getVars
  <2>5. ListensOn(front_port, bound'.front)
    BY <2>2, <2>4 DEF Ports
  <2>6. QED
    BY <1>9, <2>2, <2>3, <2>4, <2>5 DEF HasBack, HasFront
<1>13. CASE SetOptions
  BY <1>9, <1>13 DEF SetOptions, iniVars, HasBack, HasFront, Ports
<1>14. CASE UNCHANGED vars
  BY <1>3, <1>14 DEF vars, iniVars, mainVars, Ports, Asking
<1>15. QED
  BY <1>2, <1>4, <1>5, <1>6, <1>7, <1>8, <1>10, <1>11, <1>12, <1>13, <1>14 DEF Next

\* For every text file, the loop only starts with its sockets on two different
\* ports, which are those of the file (modulo 2^16, 0 being any) as long as no
\* line has an empty key and both are numbers.
THEOREM PortsFromTheFile == Spec => []StartsOnConfiguredPorts
<1>1. Init => Parsed /\ Ports
  BY DEF Init, Parsed, Ports, Asking, HasFront, HasBack
<1>2. Inv /\ Ports => StartsOnConfiguredPorts
  <2> SUFFICES ASSUME Inv, Ports, Text(file), pc = "Start"
               PROVE  StartsOnConfiguredPorts
    BY DEF StartsOnConfiguredPorts
  <2>1. TextFile(file)
    BY DEF TextFile, Inv, Fresh
  <2>2. Given(file, front_port, "front_port") /\ Given(file, back_port, "back_port")
    BY <2>1 DEF Ports, HasFront, HasBack
  <2>3. /\ ListensOn(front_port, bound.front) /\ ListensOn(back_port, bound.back)
        /\ bound.front # bound.back
    BY DEF Ports
  <2>4. QED
    BY <2>2, <2>3, Zenon DEF StartsOnConfiguredPorts, Given, Configured
<1>3. Inv /\ Parsed /\ Ports /\ [Next]_vars => Parsed' /\ Ports'
  BY NextParsed, NextPorts
<1>4. QED
  BY <1>1, <1>2, <1>3, InitInv, NextInv, PTL DEF Spec
=============================================================================
