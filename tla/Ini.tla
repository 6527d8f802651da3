--------------------------------- MODULE Ini ---------------------------------
(***************************************************************************)
(* The parser of configuration files (ini.c).  split_data cuts the file in *)
(* place into strings: section headers, keys and values, with zeros        *)
(* between them and over everything else.  ini_get then walks the strings  *)
(* and takes them for headers and pairs by their order alone.              *)
(*                                                                         *)
(* A file is a sequence of characters, where a word, a maximal run of      *)
(* letters, digits and the like, counts as one.  Pointers are indices: 1   *)
(* is ini->data, and end, the terminating zero, is ini->end.  One step is  *)
(* one turn of the loop of split_data, of unescape_quoted_value or of      *)
(* ini_get.                                                                *)
(***************************************************************************)
EXTENDS Naturals, Sequences

CONSTANTS Words,      (* the words of files                                *)
          Lower       (* tolower(): Lower[w] is w in lower case            *)

ASSUME LowerAssumption == Lower \in [Words -> Words]

NUL == "nul"
LF  == "lf"
CR  == "cr"
NULL == "NULL"        \* no section given: any will do
SP  == "sp"           \* a blank or a tab: ini.c treats them alike
QUOTE == "\""

Blank == {SP, CR}

\* The characters of a file.
Chars == Words \cup Blank \cup {NUL, LF, "[", "]", ";", "=", QUOTE, "\\"}

VARIABLES data,             (* ini->data, the terminating zero included    *)
          doing,            (* which loop runs, or how the last one ended  *)
          p,                (* its pointer p                               *)
          line_start,       (* of split_data                               *)
          q,                (* the write head of unescape_quoted_value     *)
          value_start,      (* where that value begins                     *)
          current_section,  (* of ini_get                                  *)
          asked             (* the section and the key ini_get looks for   *)

iniVars == <<data, doing, p, line_start, q, value_start, current_section, asked>>
getVars == <<current_section, asked>>
quoteVars == <<q, value_start>>

end == Len(data)

-----------------------------------------------------------------------------
(* Strings in the buffer *)

\* The first position from i on that holds a character of S or a zero: where
\* i + strcspn(i, S) points.
Scan(d, i, S) ==
    CHOOSE j \in i .. Len(d) :
        /\ d[j] \in S \cup {NUL}
        /\ \A k \in i .. j - 1 : d[k] \notin S \cup {NUL}

StringAt(d, i) == SubSeq(d, i, Scan(d, i, {}) - 1)

\* The first position from i on where the next string begins, or the end.
next(d, i) ==
    CHOOSE j \in Scan(d, i, {}) .. Len(d) :
        /\ j = Len(d) \/ d[j] # NUL
        /\ \A k \in Scan(d, i, {}) .. j - 1 : d[k] = NUL

\* strcmpci(a, b) == 0
LowerCase(c) == IF c \in Words THEN Lower[c] ELSE c
SameText(a, b) ==
    /\ Len(a) = Len(b)
    /\ \A i \in 1 .. Len(a) : LowerCase(a[i]) = LowerCase(b[i])

\* Zeros at positions i up to but not including j.
Zeros(d, i, j) ==
    [k \in DOMAIN d |-> IF i <= k /\ k < j THEN NUL ELSE d[k]]

LineEnd(d, i) ==
    CHOOSE j \in i .. Len(d) :
        /\ j = Len(d) \/ d[j] = LF
        /\ \A k \in i .. j - 1 : d[k] # LF

discard_line(d, i) == Zeros(d, i, LineEnd(d, i))

\* The blanks that end at position i become zeros.
trim_back(d, i) ==
    [k \in DOMAIN d |->
        IF k <= i /\ \A j \in k .. i : d[j] \in Blank THEN NUL ELSE d[k]]

-----------------------------------------------------------------------------
(* split_data *)

Splitting == doing = "split" /\ p < end

SplitBlank ==
    /\ Splitting
    /\ data[p] \in Blank \cup {LF, NUL}
    /\ data' = Zeros(data, p, p + 1)
    /\ p' = p + 1
    /\ UNCHANGED <<doing, line_start, quoteVars, getVars>>

\* A header becomes the string "[name"; without a ']' the line ends it.
SplitHeader ==
    /\ Splitting
    /\ data[p] = "["
    /\ p' = Scan(data, p, {"]", LF})
    /\ data' = Zeros(data, p', p' + 1)
    /\ UNCHANGED <<doing, line_start, quoteVars, getVars>>

SplitComment ==
    /\ Splitting
    /\ data[p] = ";"
    /\ data' = discard_line(data, p)
    /\ p' = LineEnd(data, p)
    /\ UNCHANGED <<doing, line_start, quoteVars, getVars>>

\* Any other line: the '=' or what stands in its place, the buffer with the
\* key trimmed and '=' and the blanks behind it zeroed, and where the value
\* begins.
Equals == Scan(data, p, {"=", LF})
ValueAt ==
    CHOOSE j \in Equals + 1 .. end :
        /\ data[j] \notin Blank
        /\ \A k \in Equals + 1 .. j - 1 : data[k] \in Blank
KeyCut == Zeros(trim_back(data, Equals - 1), Equals, ValueAt)

HasValue == data[Equals] = "=" /\ data[ValueAt] \notin {LF, NUL}

SplitLine ==
    /\ Splitting
    /\ data[p] \notin Blank \cup {LF, NUL, "[", ";"}
    /\ line_start' = p

\* Mutant: of a line without a value the key stays.
SplitNoPairKeepsKey ==
    /\ SplitLine
    /\ ~ HasValue
    /\ data' = IF data[Equals] = "=" THEN KeyCut ELSE discard_line(data, p)
    /\ p' = LineEnd(data, p)
    /\ UNCHANGED <<doing, quoteVars, getVars>>

\* A line without a '=' or without a value leaves nothing.
SplitNoPair ==
    /\ SplitLine
    /\ ~ HasValue
    /\ data' = discard_line(data, p)
    /\ p' = LineEnd(data, p)
    /\ UNCHANGED <<doing, quoteVars, getVars>>

SplitPlain ==
    /\ SplitLine
    /\ HasValue
    /\ data[ValueAt] # QUOTE
    /\ p' = Scan(KeyCut, ValueAt, {LF})
    /\ data' = trim_back(KeyCut, p' - 1)
    /\ UNCHANGED <<doing, quoteVars, getVars>>

SplitQuoted ==
    /\ SplitLine
    /\ HasValue
    /\ data[ValueAt] = QUOTE
    /\ data' = KeyCut
    /\ doing' = "unescape"
    /\ q' = ValueAt
    /\ value_start' = ValueAt
    /\ p' = ValueAt + 1
    /\ UNCHANGED getVars

SplitDone ==
    /\ doing = "split"
    /\ ~ (p < end)
    /\ doing' = "ready"
    /\ UNCHANGED <<data, p, line_start, quoteVars, getVars>>

-----------------------------------------------------------------------------
(* unescape_quoted_value, and what split_data does with its result *)

Closes == p >= end \/ data[p] \in {QUOTE, CR, LF}

Unescaped(c) == CASE c = "r" -> CR [] c = "n" -> LF [] c = "t" -> SP
                  [] OTHER -> c

CopyPlain ==
    /\ doing = "unescape"
    /\ ~ Closes
    /\ data[p] # "\\"
    /\ data' = [data EXCEPT ![q] = data[p]]
    /\ q' = q + 1
    /\ p' = p + 1
    /\ UNCHANGED <<doing, line_start, value_start, getVars>>

\* Mutant: a backslash takes the next character, whatever it is.
CopyAnyEscape ==
    /\ doing = "unescape"
    /\ ~ Closes
    /\ data[p] = "\\"
    /\ data' = [data EXCEPT ![q] = Unescaped(data[p + 1])]
    /\ q' = q + 1
    /\ p' = p + 2
    /\ UNCHANGED <<doing, line_start, value_start, getVars>>

CopyEscape ==
    /\ doing = "unescape"
    /\ ~ Closes
    /\ data[p] = "\\"
    /\ data[p + 1] \notin {CR, LF, NUL}
    /\ data' = [data EXCEPT ![q] = Unescaped(data[p + 1])]
    /\ q' = q + 1
    /\ p' = p + 2
    /\ UNCHANGED <<doing, line_start, value_start, getVars>>

\* The closing quote, the end of the line, or a backslash at that end.  The
\* rest of the line goes, and the whole line if the value is empty.
CloseQuote ==
    /\ doing = "unescape"
    /\ \/ Closes
       \/ data[p] = "\\" /\ data[p + 1] \in {CR, LF, NUL}
    /\ LET from == IF q = value_start THEN line_start ELSE q IN
       /\ data' = discard_line(data, from)
       /\ p' = LineEnd(data, from)
    /\ doing' = "split"
    /\ UNCHANGED <<line_start, quoteVars, getVars>>

Split == \/ SplitBlank \/ SplitHeader \/ SplitComment
         \/ SplitNoPair \/ SplitPlain \/ SplitQuoted \/ SplitDone
         \/ CopyPlain \/ CopyEscape \/ CloseQuote

-----------------------------------------------------------------------------
(* ini_get *)

CallGet(section, key) ==
    /\ doing = "ready"
    /\ doing' = "get"
    /\ asked' = [section |-> section, key |-> key]
    /\ current_section' = << >>
    /\ p' = IF data[1] = NUL THEN next(data, 1) ELSE 1
    /\ UNCHANGED <<data, line_start, quoteVars>>

\* Mutant: a header does not move p.
GetSectionStays ==
    /\ doing = "get"
    /\ p < end
    /\ data[p] = "["
    /\ current_section' = StringAt(data, p + 1)
    /\ UNCHANGED <<data, doing, p, line_start, quoteVars, asked>>

GetSection ==
    /\ doing = "get"
    /\ p < end
    /\ data[p] = "["
    /\ current_section' = StringAt(data, p + 1)
    /\ p' = next(data, p)
    /\ UNCHANGED <<data, doing, line_start, quoteVars, asked>>

Wanted == /\ asked.section = NULL \/ SameText(<<asked.section>>, current_section)
          /\ SameText(StringAt(data, p), <<asked.key>>)

GetOther ==
    /\ doing = "get"
    /\ p < end
    /\ data[p] # "["
    /\ ~ Wanted
    /\ p' = next(data, next(data, p))
    /\ UNCHANGED <<data, doing, line_start, quoteVars, getVars>>

\* p is left at the value.
GetFound ==
    /\ doing = "get"
    /\ p < end
    /\ data[p] # "["
    /\ Wanted
    /\ p' = next(data, p)
    /\ doing' = "found"
    /\ UNCHANGED <<data, line_start, quoteVars, getVars>>

GetMissing ==
    /\ doing = "get"
    /\ ~ (p < end)
    /\ doing' = "missing"
    /\ UNCHANGED <<data, p, line_start, quoteVars, getVars>>

Get == GetSection \/ GetOther \/ GetFound \/ GetMissing

-----------------------------------------------------------------------------

\* Type invariant.  The pointers stay within the buffer and the terminating
\* zero is never overwritten, so no loop runs past the end of the memory.
\* While a quoted value is unescaped the write head is behind the read head,
\* as the comment at ini.c:71 says.
InBuffer ==
    /\ doing \in {"none", "split", "unescape", "ready", "get", "found", "missing"}
    /\ doing # "none" =>
          /\ data # << >> /\ data[end] = NUL
          /\ p \in 1 .. end
          /\ line_start \in 1 .. end
    /\ doing = "unescape" => value_start \in 1 .. end /\ q \in value_start .. p - 1
=============================================================================
