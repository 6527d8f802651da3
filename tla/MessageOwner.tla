---------------------------- MODULE MessageOwner ----------------------------
(***************************************************************************)
(* zmq::message_t (zmq.hpp): who owns the contents of a message and when   *)
(* they are freed, through construction, move, copy, rebuild, send and     *)
(* receive, and through the calls of these that throw.                     *)
(*                                                                         *)
(* A handle is a place that may hold a zmq_msg_t: a message_t of the       *)
(* program, or a place in the pipe of a socket.  The value there is a      *)
(* message with its bytes inside it, one that refers to contents on the    *)
(* heap, or one that was closed.  libzmq counts the references to contents *)
(* and frees them, with the function the caller gave for its own buffers,  *)
(* when the last one is closed.                                            *)
(***************************************************************************)
EXTENDS Integers, FiniteSets

CONSTANTS Objects,   (* places for a message_t                             *)
          Transit,   (* places in the pipe                                 *)
          Contents,  (* heap blocks, each made once                        *)
          Absent,    (* no zmq_msg_t here                                  *)
          Closed,    (* a zmq_msg_t after zmq_msg_close()                  *)
          Inline     (* a valid one with nothing on the heap               *)

Handles == Objects \cup Transit

ASSUME OwnerAssumption ==
    /\ IsFiniteSet(Handles)
    /\ Objects \cap Transit = {}
    /\ Absent # Closed /\ Absent # Inline /\ Closed # Inline
    /\ {Absent, Closed, Inline} \cap Contents = {}

VARIABLES msg,       (* what each handle holds                             *)
          refs,      (* libzmq's count of references, per contents         *)
          freed,     (* how often each contents was freed                  *)
          made,      (* history: contents a call has taken over            *)
          copied,    (* history: contents copy() was called on             *)
          call       (* history: the last call, and whether it threw       *)

vars == <<msg, refs, freed, made, copied, call>>

Init ==
    /\ msg = [h \in Handles |-> Absent]
    /\ refs = [b \in Contents |-> 0]
    /\ freed = [b \in Contents |-> 0]
    /\ made = {}
    /\ copied = {}
    /\ call = [fn |-> "none", threw |-> FALSE]

Is(o)      == msg[o] # Absent
Usable(o)  == msg[o] \notin {Absent, Closed}

Returns(fn) == call' = [fn |-> fn, threw |-> FALSE]
Throws(fn)  == call' = [fn |-> fn, threw |-> TRUE]

-----------------------------------------------------------------------------
(* libzmq *)

\* The references after a handle that holds v is closed.
Dropped(v) == IF v \in Contents THEN [refs EXCEPT ![v] = @ - 1] ELSE refs

\* zmq_msg_close() of v: its contents are freed with the last reference.
Close(v) ==
    /\ refs' = Dropped(v)
    /\ freed' = IF v \in Contents /\ refs[v] = 1
                THEN [freed EXCEPT ![v] = @ + 1] ELSE freed

\* New contents at handle h with one reference, what h held being closed.
Fill(h, b) ==
    /\ b \in Contents \ made
    /\ made' = made \cup {b}
    /\ refs' = [Dropped(msg[h]) EXCEPT ![b] = 1]
    /\ freed' = IF msg[h] \in Contents /\ refs[msg[h]] = 1
                THEN [freed EXCEPT ![msg[h]] = @ + 1] ELSE freed
    /\ msg' = [msg EXCEPT ![h] = b]

NoFill(h) ==
    /\ Close(msg[h])
    /\ msg' = [msg EXCEPT ![h] = Inline]
    /\ UNCHANGED made

-----------------------------------------------------------------------------
(* Construction and destruction *)

\* message_t(), and message_t(size), (first, last) and (data, size) of few
\* bytes, which stay inside the zmq_msg_t.
Construct(o) ==
    /\ ~ Is(o)
    /\ NoFill(o)
    /\ Returns("construct")
    /\ UNCHANGED copied

\* message_t(size), (first, last), (data, size), and (data, size, ffn, hint),
\* which makes the caller's buffer the contents.
ConstructFilled(o, b) ==
    /\ ~ Is(o)
    /\ Fill(o, b)
    /\ Returns("construct")
    /\ UNCHANGED copied

\* Out of memory: there is no object, and a buffer stays its caller's.
ConstructThrows(o) ==
    /\ ~ Is(o)
    /\ Throws("construct")
    /\ UNCHANGED <<msg, refs, freed, made, copied>>

\* Mutant: the moved-from message is left as it is.
MoveConstructKeeps(o, rhs) ==
    /\ ~ Is(o)
    /\ Is(rhs)
    /\ msg' = [msg EXCEPT ![o] = msg[rhs]]
    /\ Returns("move")
    /\ UNCHANGED <<refs, freed, made, copied>>

\* message_t(message_t&&): the value is taken over, open or closed, and rhs
\* is made a new empty message.
MoveConstruct(o, rhs) ==
    /\ ~ Is(o)
    /\ Is(rhs)
    /\ msg' = [msg EXCEPT ![o] = msg[rhs], ![rhs] = Inline]
    /\ Returns("move")
    /\ UNCHANGED <<refs, freed, made, copied>>

\* Mutant: rhs is closed, as after a move out of it.
MoveAssignCloses(o, rhs) ==
    /\ Is(o) /\ Is(rhs)
    /\ msg' = [msg EXCEPT ![o] = msg[rhs], ![rhs] = Closed]
    /\ Returns("move")
    /\ Close(msg[o])
    /\ UNCHANGED <<made, copied>>

\* operator=(message_t&&) swaps.
MoveAssign(o, rhs) ==
    /\ Is(o) /\ Is(rhs)
    /\ msg' = [msg EXCEPT ![o] = msg[rhs], ![rhs] = msg[o]]
    /\ Returns("move")
    /\ UNCHANGED <<refs, freed, made, copied>>

\* The destructor closes; on a closed message zmq_msg_close() fails, which the
\* assertion ignores in a release build.
Destroy(o) ==
    /\ Is(o)
    /\ Close(msg[o])
    /\ msg' = [msg EXCEPT ![o] = Absent]
    /\ Returns("destroy")
    /\ UNCHANGED <<made, copied>>

-----------------------------------------------------------------------------
(* rebuild *)

\* rebuild(), and rebuild(size) and (data, size) of few bytes.
Rebuild(o) ==
    /\ Usable(o)
    /\ NoFill(o)
    /\ Returns("rebuild")
    /\ UNCHANGED copied

\* Mutant: the old message is not closed first.
RebuildFilledLeaks(o, b) ==
    /\ Usable(o)
    /\ b \in Contents \ made
    /\ made' = made \cup {b}
    /\ refs' = [refs EXCEPT ![b] = 1]
    /\ msg' = [msg EXCEPT ![o] = b]
    /\ Returns("rebuild")
    /\ UNCHANGED <<freed, copied>>

\* rebuild(size), (data, size) and (data, size, ffn, hint).
RebuildFilled(o, b) ==
    /\ Usable(o)
    /\ Fill(o, b)
    /\ Returns("rebuild")
    /\ UNCHANGED copied

\* Out of memory once the old message is closed.
RebuildThrows(o) ==
    /\ Usable(o)
    /\ Close(msg[o])
    /\ msg' = [msg EXCEPT ![o] = Closed]
    /\ Throws("rebuild")
    /\ UNCHANGED <<made, copied>>

-----------------------------------------------------------------------------
(* move() and copy() *)

\* move(&src): the destination is closed, takes the value of src, and src is
\* made a new empty message.  Of an object to itself: the contents are closed.
Move(o, src) ==
    /\ Usable(o) /\ Usable(src)
    /\ Close(msg[o])
    /\ msg' = IF o = src THEN [msg EXCEPT ![o] = Inline]
              ELSE [msg EXCEPT ![o] = msg[src], ![src] = Inline]
    /\ Returns("move()")
    /\ UNCHANGED <<made, copied>>

\* copy(&src): the destination is closed, and both messages refer to the
\* contents; bytes inside the zmq_msg_t are copied.
Copy(o, src) ==
    /\ o # src
    /\ Usable(o) /\ Usable(src)
    /\ msg' = [msg EXCEPT ![o] = msg[src]]
    /\ IF msg[o] = msg[src] THEN UNCHANGED <<refs, freed>>
       ELSE /\ freed' = IF msg[o] \in Contents /\ refs[msg[o]] = 1
                        THEN [freed EXCEPT ![msg[o]] = @ + 1] ELSE freed
            /\ refs' = IF msg[src] \in Contents
                       THEN [Dropped(msg[o]) EXCEPT ![msg[src]] = @ + 1]
                       ELSE Dropped(msg[o])
    /\ copied' = copied \cup ({msg[src]} \cap Contents)
    /\ Returns("copy()")
    /\ UNCHANGED made

\* A message copied to itself is closed before it is looked at again.
CopyItself(o) ==
    /\ Usable(o)
    /\ Close(msg[o])
    /\ msg' = [msg EXCEPT ![o] = Closed]
    /\ Returns("copy()")
    /\ UNCHANGED <<made, copied>>

-----------------------------------------------------------------------------
(* send and recv *)

\* socket_t::send takes the message over and leaves an empty one.
Send(o, p) ==
    /\ Usable(o)
    /\ msg[p] = Absent
    /\ msg' = [msg EXCEPT ![p] = msg[o], ![o] = Inline]
    /\ Returns("send")
    /\ UNCHANGED <<refs, freed, made, copied>>

\* send returns false on EAGAIN and throws on any other error, and leaves the
\* message alone.
SendFails(o) ==
    /\ Usable(o)
    /\ Returns("send") \/ Throws("send")
    /\ UNCHANGED <<msg, refs, freed, made, copied>>

\* socket_t::recv from a peer of the same process, which passes contents on.
Recv(o, p) ==
    /\ Usable(o)
    /\ Is(p)
    /\ Close(msg[o])
    /\ msg' = [msg EXCEPT ![o] = msg[p], ![p] = Absent]
    /\ Returns("recv")
    /\ UNCHANGED <<made, copied>>

\* So does recv, but libzmq empties the message before it looks for another;
\* not if it fails at once, in a context that is being closed.
RecvFails(o) ==
    /\ Usable(o)
    /\ Returns("recv") \/ Throws("recv")
    /\ NoFill(o) \/ UNCHANGED <<msg, refs, freed, made>>
    /\ UNCHANGED copied

\* The I/O thread has written the message out, or dropped it with its pipe.
Sent(p) ==
    /\ Is(p)
    /\ Close(msg[p])
    /\ msg' = [msg EXCEPT ![p] = Absent]
    /\ Returns("none")
    /\ UNCHANGED <<made, copied>>

\* Mutant: the result of zmq_msg_close() is not looked at.
ClosedRebuilds(o) ==
    /\ msg[o] = Closed
    /\ \/ /\ msg' = [msg EXCEPT ![o] = Inline]
          /\ Returns("rebuild")
       \/ /\ Throws("send")
          /\ UNCHANGED msg
    /\ UNCHANGED <<refs, freed, made, copied>>

\* On a closed message, or with one as the source, every call of libzmq fails
\* with EFAULT, and message_t and socket_t throw: rebuild too, which begins
\* with a close.
ClosedThrows(o) ==
    /\ msg[o] = Closed
    /\ \E fn \in {"rebuild", "move()", "copy()", "send", "recv"} : Throws(fn)
    /\ UNCHANGED <<msg, refs, freed, made, copied>>

Object(o) ==
    \/ Construct(o) \/ ConstructThrows(o) \/ Destroy(o)
    \/ Rebuild(o) \/ RebuildThrows(o)
    \/ CopyItself(o) \/ SendFails(o) \/ RecvFails(o) \/ ClosedThrows(o)
    \/ \E b \in Contents : ConstructFilled(o, b) \/ RebuildFilled(o, b)
    \/ \E p \in Transit : Send(o, p) \/ Recv(o, p)

Pair(o, other) == \/ MoveConstruct(o, other) \/ MoveAssign(o, other)
                  \/ Move(o, other) \/ Copy(o, other)

Next ==
    \/ \E o \in Objects : Object(o) \/ \E other \in Objects : Pair(o, other)
    \/ \E p \in Transit : Sent(p)

Spec == Init /\ [][Next]_vars

-----------------------------------------------------------------------------

\* Type invariant; no count of references falls below zero.
TypeOK ==
    /\ msg \in [Handles -> Contents \cup {Absent, Closed, Inline}]
    /\ refs \in [Contents -> Nat]
    /\ freed \in [Contents -> Nat]
    /\ made \subseteq Contents
    /\ copied \subseteq Contents

Holders(m, b) == {h \in Handles : m[h] = b}

\* Whatever is moved, copied, rebuilt, sent, or thrown out of on the way,
\* contents are freed once, at the moment the last message that refers to
\* them is gone; a buffer a call threw on is never freed, it is still its
\* caller's.
FreedOnce ==
    \A b \in Contents :
        /\ refs[b] = Cardinality(Holders(msg, b))
        /\ freed[b] = IF b \in made /\ refs[b] = 0 THEN 1 ELSE 0

\* Two messages refer to the same bytes only if someone called copy(): no
\* other call makes the data of one change with the data of another.
SharedOnlyByCopy ==
    \A g, h \in Handles : msg[g] = msg[h] /\ msg[g] \in Contents \ copied => g = h

ClosedOnes(m) == {o \in Handles : m[o] = Closed}

\* There are more closed messages only after a rebuild that threw or a copy of
\* a message to itself.  A closed message is beyond repair by rebuild(),
\* move(), copy() or recv: it goes with its object, or on to another one with
\* a move.
ClosedForGood ==
    [][LET grows == Cardinality(ClosedOnes(msg')) > Cardinality(ClosedOnes(msg))
           falls == Cardinality(ClosedOnes(msg')) < Cardinality(ClosedOnes(msg))
       IN  /\ grows => \/ call'.fn = "rebuild" /\ call'.threw
                       \/ call'.fn = "copy()"
           /\ falls => call'.fn = "destroy"]_vars
=============================================================================
