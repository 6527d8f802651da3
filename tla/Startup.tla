------------------------------- MODULE Startup -------------------------------
(***************************************************************************)
(* main() and the constructor of Server: the two ports are read from the   *)
(* configuration file, the context and the ROUTER sockets are made and     *)
(* bound, and the loop of ZmqServer starts.  An error of the parser ends   *)
(* the process with -1; one of libzmq is an exception nobody catches.      *)
(***************************************************************************)
EXTENDS IniGrammar, Integers

CONSTANTS Files,      (* the files the process may find                    *)
          Number,     (* Number[w]: what sscanf("%d") makes of the word w; *)
                      (* other words do not begin with a number            *)
          Garbage,    (* what an uninitialised int may hold                *)
          Taken,      (* ports other processes hold                        *)
          Ephemeral   (* ports the system chooses from                     *)

ASSUME StartupAssumption ==
    /\ Files \subseteq Seq(Chars)
    /\ DOMAIN Number \subseteq Words
    /\ {"ProxyServer", "front_port", "back_port"} \subseteq Words
    /\ Garbage \subseteq Int
    /\ Number \in [DOMAIN Number -> Int]

VARIABLES file,        (* the file on disk                                 *)
          pc,          (* where main() is, or "exit" (-1), "dead", "Start" *)
          front_port,
          back_port,
          bound        (* where its two sockets listen, or NoListener      *)

mainVars == <<file, pc, front_port, back_port, bound>>
vars == <<iniVars, mainVars>>

NoListener == 0

Init ==
    /\ data = << >>
    /\ doing = "none"
    /\ p = 0 /\ line_start = 1 /\ q = 0 /\ value_start = 0
    /\ current_section = << >>
    /\ asked = [section |-> NULL, key |-> NULL]
    /\ file \in Files
    /\ pc = "load"
    /\ front_port \in Garbage
    /\ back_port \in Garbage
    /\ bound = [front |-> NoListener, back |-> NoListener]

\* ini_load.  split_data follows before it returns.
Load ==
    /\ pc = "load"
    /\ data' = Append(file, NUL)
    /\ p' = 1
    /\ doing' = "split"
    /\ pc' = "front"
    /\ UNCHANGED <<line_start, quoteVars, getVars, file, front_port, back_port, bound>>

\* No memory for the struct, no file, or a file that is shorter than its
\* size: NULL.  No memory for its contents: the store through ini->data.
LoadFails ==
    /\ pc = "load"
    /\ pc' \in {"exit", "dead"}
    /\ UNCHANGED <<iniVars, file, front_port, back_port, bound>>

Parse == (Split \/ Get) /\ UNCHANGED mainVars

KeyOf == [front |-> "front_port", back |-> "back_port"]

AskPort ==
    /\ pc \in DOMAIN KeyOf
    /\ CallGet("ProxyServer", KeyOf[pc])
    /\ UNCHANGED mainVars

\* sscanf("%d"): blanks in front are passed over.
Digits(v) == CHOOSE i \in 1 .. Len(v) + 1 :
                 /\ i = Len(v) + 1 \/ v[i] \notin Blank \cup {LF}
                 /\ \A j \in 1 .. i - 1 : v[j] \in Blank \cup {LF}
IsNumber(v) == Digits(v) <= Len(v) /\ v[Digits(v)] \in DOMAIN Number
Scanned(v, old) == IF IsNumber(v) THEN Number[v[Digits(v)]] ELSE old

\* ini_sget says 1 whatever sscanf says: a value that is no number leaves
\* the port as it was.
FrontFound ==
    /\ pc = "front" /\ doing = "found"
    /\ front_port' = Scanned(StringAt(data, p), front_port)
    /\ doing' = "ready"
    /\ pc' = "back"
    /\ UNCHANGED <<data, p, line_start, quoteVars, getVars, file, back_port, bound>>

\* Mutant: the second call also writes front_port.
BackFoundWritesFront ==
    /\ pc = "back" /\ doing = "found"
    /\ front_port' = Scanned(StringAt(data, p), front_port)
    /\ doing' = "ready"
    /\ pc' = "free"
    /\ UNCHANGED <<data, p, line_start, quoteVars, getVars, file, back_port, bound>>

BackFound ==
    /\ pc = "back" /\ doing = "found"
    /\ back_port' = Scanned(StringAt(data, p), back_port)
    /\ doing' = "ready"
    /\ pc' = "free"
    /\ UNCHANGED <<data, p, line_start, quoteVars, getVars, file, front_port, bound>>

NoPort ==
    /\ pc \in DOMAIN KeyOf /\ doing = "missing"
    /\ pc' = "exit"
    /\ UNCHANGED <<iniVars, file, front_port, back_port, bound>>

\* ini_free
Free ==
    /\ pc = "free"
    /\ data' = << >>
    /\ doing' = "none"
    /\ pc' = "context"
    /\ UNCHANGED <<p, line_start, quoteVars, getVars, file, front_port, back_port, bound>>

\* zmq_ctx_new, and the two zmq_socket.
MakeContext ==
    /\ pc = "context"
    /\ pc' = "sockets"
    /\ UNCHANGED <<iniVars, file, front_port, back_port, bound>>

MakeSockets ==
    /\ pc = "sockets"
    /\ pc' = "bind front"
    /\ UNCHANGED <<iniVars, file, front_port, back_port, bound>>

\* The ports bind() on tcp://*:port may take.  For "0" libzmq lets the system
\* choose; of any other number it keeps 16 bits, and refuses it if they are 0.
Bindable(port) == (IF port = 0 THEN Ephemeral ELSE {port % 65536})
                    \ (Taken \cup {bound.front, bound.back, NoListener})

BindFront ==
    /\ pc = "bind front"
    /\ \E at \in Bindable(front_port) : bound' = [bound EXCEPT !.front = at]
    /\ pc' = "bind back"
    /\ UNCHANGED <<iniVars, file, front_port, back_port>>

BindBack ==
    /\ pc = "bind back"
    /\ \E at \in Bindable(back_port) : bound' = [bound EXCEPT !.back = at]
    /\ pc' = "options"
    /\ UNCHANGED <<iniVars, file, front_port, back_port>>

\* The two timeouts, then Start().
SetOptions ==
    /\ pc = "options"
    /\ pc' = "Start"
    /\ UNCHANGED <<iniVars, file, front_port, back_port, bound>>

\* libzmq may refuse any of these calls; a port that cannot be bound always.
Throw ==
    /\ pc \in {"context", "sockets", "bind front", "bind back", "options"}
    /\ pc' = "dead"
    /\ bound' = [front |-> NoListener, back |-> NoListener]
    /\ UNCHANGED <<iniVars, file, front_port, back_port>>

Over == pc \in {"exit", "dead", "Start"}

Next == \/ Load \/ LoadFails \/ Parse \/ AskPort \/ FrontFound \/ BackFound \/ NoPort
        \/ Free \/ MakeContext \/ MakeSockets \/ BindFront \/ BindBack \/ SetOptions
        \/ Throw
        \/ Over /\ UNCHANGED vars

\* One thread, which runs until it is over.
Spec == Init /\ [][Next]_vars /\ WF_vars(Next)

-----------------------------------------------------------------------------

\* What ini_get finds is what the file says, and the first time it says so,
\* as long as no line before it has an empty key: such a line leaves a value
\* without a key, and from there on the strings are paired one off.
ReadsWhatTheFileSays ==
    Text(file) /\ doing \in {"found", "missing"} =>
        LET matches == Matches(file, asked.section, asked.key)
            first   == FirstMatch(file, asked.section, asked.key)
        IN  \/ doing = "missing" /\ matches = {}
            \/ doing = "found" /\ matches # {} /\ StringAt(data, p) = Value(file, first)
            \/ \E i \in EmptyKeys(file) : \A j \in matches : i < j

\* The value the file gives to a key.
Configured(key) == Value(file, FirstMatch(file, "ProxyServer", key))

\* A socket listens at the port it was given, of which 16 bits count, or
\* anywhere if that is 0.
ListensOn(port, at) == at # NoListener /\ (port = 0 \/ at = port % 65536)

\* The loop only starts with its two sockets on different ports, each the one
\* the file gives (modulo 2^16; 0 is any port).  The exceptions are a value
\* that is no number, which leaves whatever the uninitialised int holds, and a
\* line with an empty key: a missing key, another section or a bad line never
\* make main() go on with what it has.
StartsOnConfiguredPorts ==
    Text(file) /\ pc = "Start" =>
        /\ ListensOn(front_port, bound.front) /\ ListensOn(back_port, bound.back)
        /\ bound.front # bound.back
        /\ \/ EmptyKeys(file) # {}
           \/ /\ Matches(file, "ProxyServer", "front_port") # {}
              /\ Matches(file, "ProxyServer", "back_port") # {}
              /\ front_port = Scanned(Configured("front_port"), front_port)
              /\ back_port = Scanned(Configured("back_port"), back_port)

\* Whatever the file, the parser comes to its end, and main() gets as far as
\* the loop or ends.
StartupEnds == <>Over
=============================================================================
