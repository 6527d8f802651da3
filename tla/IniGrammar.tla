----------------------------- MODULE IniGrammar -----------------------------
(***************************************************************************)
(* What a configuration file f says, for comparison with what the parser   *)
(* of Ini makes of it: where its headers and pairs begin, and what they    *)
(* say.  Everything is said of positions in the file, without the buffer   *)
(* and without the loops.  It is meant for files without zeros.            *)
(***************************************************************************)
EXTENDS Ini, FiniteSets

Text(f) == \A i \in DOMAIN f : f[i] # NUL

\* The first position from i on with a character of S, or behind the end.
Until(f, i, S) ==
    CHOOSE j \in i .. Len(f) + 1 :
        /\ j = Len(f) + 1 \/ f[j] \in S
        /\ \A k \in i .. j - 1 : f[k] \notin S

LineStop(f, i) == Until(f, i, {LF})

\* What stands at i .. j, without the blanks at its end.
Trimmed(f, i, j) ==
    SubSeq(f, i, CHOOSE k \in i - 1 .. j : /\ k = i - 1 \/ f[k] \notin Blank
                                           /\ \A l \in k + 1 .. j : f[l] \in Blank)

\* Between i and the line's begin, or the last "]" of the line, are blanks.
Leads(f, i) ==
    \E c \in 0 .. i - 1 : /\ c = 0 \/ f[c] \in {LF, "]"}
                          /\ \A k \in c + 1 .. i - 1 : f[k] \in Blank

\* Something new begins at i: a line, or what follows headers that are closed.
Begins(f, i) ==
    /\ Leads(f, i)
    /\ \A k \in 1 .. i - 1 :
          f[k] \notin Blank /\ (\A l \in k .. i - 1 : f[l] # LF) /\ Leads(f, k)
             => f[k] = "[" /\ \E l \in k .. i - 1 : f[l] = "]"

-----------------------------------------------------------------------------
(* Headers *)

Headers(f)    == {i \in DOMAIN f : f[i] = "[" /\ Begins(f, i)}
NameStop(f, i) == Until(f, i, {"]", LF})
Name(f, i)    == SubSeq(f, i + 1, NameStop(f, i) - 1)

\* The section that is open at position i.
SectionAt(f, i) ==
    LET before == {j \in Headers(f) : j < i}
    IN  IF before = {} THEN << >>
        ELSE Name(f, CHOOSE j \in before : \A k \in before : k <= j)

-----------------------------------------------------------------------------
(* Quoted values; the opening quote is at v *)

\* An odd number of backslashes stands right before k.
Escaped(f, v, k) ==
    \E j \in v + 1 .. k - 1 : /\ (k - j) % 2 = 1
                              /\ \A l \in j .. k - 1 : f[l] = "\\"
                              /\ j = v + 1 \/ f[j - 1] # "\\"
Escapes(f, v, k) == f[k] = "\\" /\ ~ Escaped(f, v, k)

\* The value ends before k: there is the quote, the end of the line, or a
\* backslash at that end.
LineOver(f, k) == k = Len(f) + 1 \/ f[k] \in {CR, LF}
Closing(f, v, k) ==
    \/ LineOver(f, k)
    \/ f[k] = QUOTE /\ ~ Escaped(f, v, k)
    \/ Escapes(f, v, k) /\ LineOver(f, k + 1)

QuoteStop(f, v) ==
    CHOOSE k \in v + 1 .. Len(f) + 1 :
        Closing(f, v, k) /\ \A l \in v + 1 .. k - 1 : ~ Closing(f, v, l)

\* Its characters are those that do not escape another.
KeptUpTo(f, v, k) == {l \in v + 1 .. k - 1 : ~ Escapes(f, v, l)}
Meant(f, v, k)    == IF Escaped(f, v, k) THEN Unescaped(f[k]) ELSE f[k]
Rank(T, k)        == Cardinality({l \in T : l < k}) + 1

Quoted(f, v) ==
    LET kept == KeptUpTo(f, v, QuoteStop(f, v))
    IN  [n \in 1 .. Cardinality(kept) |->
            Meant(f, v, CHOOSE k \in kept : Rank(kept, k) = n)]

-----------------------------------------------------------------------------
(* Pairs *)

EqualsAt(f, i) == Until(f, i, {"=", LF})
ValueFrom(f, i) == Until(f, EqualsAt(f, i) + 1, Chars \ Blank)

Key(f, i) == Trimmed(f, i, EqualsAt(f, i) - 1)

Value(f, i) ==
    LET v == ValueFrom(f, i) IN
    IF v \in DOMAIN f /\ f[v] = QUOTE THEN Quoted(f, v)
    ELSE Trimmed(f, v, LineStop(f, v) - 1)

\* Where a line, or the rest of one, begins that is no header and no comment.
Entries(f) == {i \in DOMAIN f : f[i] \notin Blank \cup {LF, "[", ";"} /\ Begins(f, i)}

Pairs(f) ==
    {i \in Entries(f) : /\ EqualsAt(f, i) \in DOMAIN f
                        /\ f[EqualsAt(f, i)] = "="
                        /\ Value(f, i) # << >>}

EmptyKeys(f) == {i \in Pairs(f) : Key(f, i) = << >>}

\* The pairs that give the key a value in the section.
Matches(f, section, key) ==
    {i \in Pairs(f) : /\ SameText(Key(f, i), <<key>>)
                      /\ section = NULL \/ SameText(<<section>>, SectionAt(f, i))}

FirstMatch(f, section, key) ==
    CHOOSE i \in Matches(f, section, key) :
        \A j \in Matches(f, section, key) : i <= j
=============================================================================
