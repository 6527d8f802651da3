---------------------------- MODULE MultipartOps ----------------------------
(***************************************************************************)
(* The operations of zmq::multipart_t that go frame by frame: append,      *)
(* prepend, clone, send and recv (zmq_addon.hpp), one turn of a loop per   *)
(* step.  The program owns two objects, "msg" and "other", and sends over  *)
(* a PAIR socket, as multipart_t::test() does; its peer receives into an   *)
(* object of its own, "got".  Peers come and go between two frames.        *)
(*                                                                         *)
(* A frame is what message_t owns; frames are numbered as they are made.   *)
(***************************************************************************)
EXTENDS Multipart, FiniteSets

CONSTANTS MaxFrames,  (* bound: how many frames are made                   *)
          MaxCopies,  (* bound: how many of them are cloned                *)
          HWM,        (* messages the pipe takes                           *)
          MaxSends    (* bound: how many messages are given to send        *)

ASSUME OpsAssumption == HWM \in Nat \ {0} /\ {MaxFrames, MaxCopies, MaxSends} \subseteq Nat

Frames == 1 .. MaxFrames

Own  == {"msg", "other"}
Objs == Own \cup {"got"}

Idle == [fn |-> "none", on |-> "msg", from |-> "msg"]

VARIABLES m_parts,      (* per object, its deque                           *)
          call,         (* the call that runs, and its arguments           *)
          reading,      (* recv at the peer: "idle" once it has returned   *)
                        (* true, "running", or "failed"                    *)
          wire,         (* the pipe: frames and their more flags           *)
          peer,         (* a peer is connected                             *)
          made,         (* how many frames were made                       *)
          copied,       (* history: frames that were cloned                *)
          before,       (* history: what the loop that runs is about       *)
          sends,        (* history: the messages send was called with      *)
          failed,       (* history: the places at which a send failed      *)
          sent,         (* history: the places of the frames in the pipe   *)
          came,         (* history: the places of the frames in "got"      *)
          lost          (* history: where a message was cut: the last      *)
                        (* place that went with a peer or a failed recv    *)

\* A place is where a frame stood in the messages that were sent: the number of
\* the send, and where in its message.
pipeVars == <<reading, wire, peer>>
places   == <<sends, failed, sent, came, lost>>
history  == <<copied, before, places>>
vars == <<m_parts, call, pipeVars, made, history>>

Init ==
    /\ m_parts = [o \in Objs |-> << >>]
    /\ call = Idle
    /\ reading = "idle"
    /\ wire = << >>
    /\ peer = TRUE
    /\ made = 0
    /\ copied = {} /\ before = << >>
    /\ sends = << >> /\ failed = {} /\ sent = << >> /\ came = << >> /\ lost = {}

Running(fn) == call.fn = fn
Return == call' = Idle /\ before' = << >>
Parts(o) == m_parts[o]

-----------------------------------------------------------------------------
(* Calls that are one step *)

\* push, pushmem, pushstr, pushtyp and add, addmem, addstr, addtyp.
Make(o) ==
    /\ Running("none")
    /\ made < MaxFrames
    /\ made' = made + 1
    /\ m_parts' \in {[m_parts EXCEPT ![o] = push(@, made')],
                     [m_parts EXCEPT ![o] = add(@, made')]}
    /\ UNCHANGED <<call, pipeVars, history>>

\* pop, popstr, poptyp and remove; the caller is done with the frame.
Take(o) ==
    /\ Running("none")
    /\ ~ empty(Parts(o))
    /\ m_parts' \in {[m_parts EXCEPT ![o] = pop(@)],
                     [m_parts EXCEPT ![o] = remove(@)]}
    /\ UNCHANGED <<call, pipeVars, made, history>>

\* clear, or the destructor and a new object.
Clear(o) ==
    /\ Running("none")
    /\ m_parts' = [m_parts EXCEPT ![o] = << >>]
    /\ UNCHANGED <<call, pipeVars, made, history>>

\* Mutant: the other object keeps its frames.
MoveKeeps(o, from) ==
    /\ Running("none")
    /\ o # from
    /\ m_parts' = [m_parts EXCEPT ![o] = Parts(from)]
    /\ UNCHANGED <<call, pipeVars, made, history>>

\* Move construction and assignment: the frames change hands.
Move(o, from) ==
    /\ Running("none")
    /\ o # from
    /\ m_parts' = [m_parts EXCEPT ![o] = Parts(from), ![from] = << >>]
    /\ UNCHANGED <<call, pipeVars, made, history>>

-----------------------------------------------------------------------------
(* append and prepend.  Nothing keeps an object from being given to itself. *)

Call(fn, o, from) ==
    /\ Running("none")
    /\ call' = [fn |-> fn, on |-> o, from |-> from]
    /\ UNCHANGED <<m_parts, pipeVars, made, copied>>

CallAppend(o, from) ==
    /\ Call("append", o, from)
    /\ before' = Parts(o) \o Parts(from)
    /\ UNCHANGED places

CallPrepend(o, from) ==
    /\ Call("prepend", o, from)
    /\ before' = Parts(from) \o Parts(o)
    /\ UNCHANGED places

\* The object m_parts[from] without the frame taken from it, and m_parts[on]
\* with that frame put in.
AppendOne ==
    /\ Running("append")
    /\ ~ empty(Parts(call.from))
    /\ LET taken == [m_parts EXCEPT ![call.from] = pop(@)] IN
       m_parts' = [taken EXCEPT ![call.on] = add(@, front(Parts(call.from)))]
    /\ UNCHANGED <<call, pipeVars, made, history>>

\* Mutant: pop() where the code has remove().
PrependFront ==
    /\ Running("prepend")
    /\ ~ empty(Parts(call.from))
    /\ LET taken == [m_parts EXCEPT ![call.from] = pop(@)] IN
       m_parts' = [taken EXCEPT ![call.on] = push(@, front(Parts(call.from)))]
    /\ UNCHANGED <<call, pipeVars, made, history>>

PrependOne ==
    /\ Running("prepend")
    /\ ~ empty(Parts(call.from))
    /\ LET taken == [m_parts EXCEPT ![call.from] = remove(@)] IN
       m_parts' = [taken EXCEPT ![call.on] = push(@, back(Parts(call.from)))]
    /\ UNCHANGED <<call, pipeVars, made, history>>

\* Mutant: the loop looks at the wrong object.
ConcatReturnOther ==
    /\ Running("append") \/ Running("prepend")
    /\ empty(Parts(call.on))
    /\ Return
    /\ UNCHANGED <<m_parts, pipeVars, made, copied, places>>

ConcatReturn ==
    /\ Running("append") \/ Running("prepend")
    /\ empty(Parts(call.from))
    /\ Return
    /\ UNCHANGED <<m_parts, pipeVars, made, copied, places>>

-----------------------------------------------------------------------------
(* other = msg.clone(), the new object being empty at first.  Bound: no frame *)
(* is cloned twice, and MaxCopies are in all.                                *)

CallClone ==
    /\ Call("clone", "other", "msg")
    /\ \A i \in 1 .. size(Parts("msg")) : Parts("msg")[i] \notin copied
    /\ Cardinality(copied) + size(Parts("msg")) <= MaxCopies
    /\ empty(Parts("other"))
    /\ before' = Parts("msg")
    /\ UNCHANGED places

CloneOne ==
    /\ Running("clone")
    /\ size(Parts("other")) < size(Parts("msg"))
    /\ LET f == Parts("msg")[size(Parts("other")) + 1] IN
       /\ m_parts' = [m_parts EXCEPT !["other"] = add(@, f)]
       /\ copied' = copied \cup {f}
    /\ UNCHANGED <<call, pipeVars, made, before, places>>

CloneReturn ==
    /\ Running("clone")
    /\ ~ (size(Parts("other")) < size(Parts("msg")))
    /\ Return
    /\ UNCHANGED <<m_parts, pipeVars, made, copied, places>>

-----------------------------------------------------------------------------
(* send *)

\* The pipe takes a first frame if a message fits and any later one; a frame
\* of a message whose pipe went away opens the message anew on the next pipe.
Whole(w)    == {i \in 1 .. Len(w) : ~ w[i].more}
MidMessage  == wire # << >> /\ wire[Len(wire)].more
Writable    == peer /\ (MidMessage \/ Cardinality(Whole(wire)) < HWM)

\* The place of the frame that goes next.
NextPlace == LET n == Len(sends) IN
             [send |-> n, at |-> size(sends[n]) - size(Parts("msg")) + 1]

CallSend ==
    /\ Len(sends) < MaxSends
    /\ Call("send", "msg", "msg")
    /\ sends' = IF empty(Parts("msg")) THEN sends ELSE Append(sends, Parts("msg"))
    /\ UNCHANGED <<before, failed, sent, came, lost>>

SendOne ==
    /\ Running("send")
    /\ ~ empty(Parts("msg"))
    /\ Writable
    /\ LET rest == pop(Parts("msg")) IN
       /\ wire' = Append(wire, [frame |-> front(Parts("msg")),
                                more  |-> size(rest) > 0])
       /\ m_parts' = [m_parts EXCEPT !["msg"] = rest]
    /\ sent' = Append(sent, NextPlace)
    /\ UNCHANGED <<call, reading, peer, made, copied, before, sends, failed, came, lost>>

\* Mutant: the frame is popped only once it is sent.
SendFailsKeepsFrame ==
    /\ Running("send")
    /\ ~ empty(Parts("msg"))
    /\ Return
    /\ failed' = failed \cup {NextPlace}
    /\ UNCHANGED <<m_parts, pipeVars, made, copied, sends, sent, came, lost>>

\* socket.send returns false (EAGAIN: the pipe takes no frame) or throws, which
\* it may do at any frame and whether or not the pipe takes one (a signal, a
\* context that ends).  The frame was popped before, and goes with the local
\* message_t; what is in the pipe stays there, an open message too.
SendFails ==
    /\ Running("send")
    /\ ~ empty(Parts("msg"))
    /\ m_parts' = [m_parts EXCEPT !["msg"] = pop(@)]
    /\ Return
    /\ failed' = failed \cup {NextPlace}
    /\ UNCHANGED <<pipeVars, made, copied, sends, sent, came, lost>>

SendReturn ==
    /\ Running("send")
    /\ empty(Parts("msg"))
    /\ Return
    /\ UNCHANGED <<m_parts, pipeVars, made, copied, places>>

-----------------------------------------------------------------------------
(* recv, at the peer *)

Readable == Whole(wire) # {}

CallRecv ==
    /\ peer /\ reading # "running"
    /\ reading' = "running"
    /\ m_parts' = [m_parts EXCEPT !["got"] = << >>]
    /\ came' = << >>
    /\ UNCHANGED <<call, wire, peer, made, copied, before, sends, failed, sent, lost>>

\* Mutant: more() is asked of the message after it was moved from.
RecvOneMoreAfterMove ==
    /\ reading = "running" /\ Readable
    /\ m_parts' = [m_parts EXCEPT !["got"] = add(@, Head(wire).frame)]
    /\ came' = Append(came, Head(sent))
    /\ wire' = Tail(wire)
    /\ sent' = Tail(sent)
    /\ reading' = "idle"
    /\ UNCHANGED <<call, peer, made, copied, before, sends, failed, lost>>

RecvOne ==
    /\ reading = "running" /\ Readable
    /\ m_parts' = [m_parts EXCEPT !["got"] = add(@, Head(wire).frame)]
    /\ came' = Append(came, Head(sent))
    /\ wire' = Tail(wire)
    /\ sent' = Tail(sent)
    /\ reading' = IF Head(wire).more THEN "running" ELSE "idle"
    /\ UNCHANGED <<call, peer, made, copied, before, sends, failed, lost>>

\* socket.recv returns false (EAGAIN: nothing to read) or throws, which it may
\* do at any frame.  The frames read so far stay in the object, the others in
\* the pipe.
RecvFails ==
    /\ reading = "running"
    /\ reading' = "failed"
    /\ lost' = IF came = << >> THEN lost ELSE lost \cup {came[Len(came)]}
    /\ UNCHANGED <<m_parts, call, wire, peer, made, copied, before,
                   sends, failed, sent, came>>

-----------------------------------------------------------------------------
(* The peer *)

\* What the peer had not read is gone, with it the frames of a message that
\* is being sent.
PeerDown ==
    /\ peer /\ reading # "running"
    /\ peer' = FALSE
    /\ wire' = << >>
    /\ sent' = << >>
    /\ lost' = IF MidMessage THEN lost \cup {sent[Len(sent)]} ELSE lost
    /\ UNCHANGED <<m_parts, call, reading, made, copied, before, sends, failed, came>>

PeerUp ==
    /\ ~ peer
    /\ peer' = TRUE
    /\ UNCHANGED <<m_parts, call, reading, wire, made, history>>

Calls ==
    \/ \E o \in Own :
          \/ Make(o) \/ Take(o) \/ Clear(o)
          \/ \E from \in Own : Move(o, from) \/ CallAppend(o, from)
                                             \/ CallPrepend(o, from)
    \/ CallClone
    \/ CallSend

Step == \/ AppendOne \/ PrependOne \/ ConcatReturn
        \/ CloneOne \/ CloneReturn
        \/ SendOne \/ SendReturn

Next == \/ Calls \/ Step
        \/ SendFails \/ CallRecv \/ RecvOne \/ RecvFails
        \/ PeerDown \/ PeerUp

Spec == Init /\ [][Next]_vars

\* The thread that runs a call goes on while it can.  The peer owes nothing,
\* and a wait may last for ever.
FairSpec == Spec /\ WF_vars(Step)

-----------------------------------------------------------------------------

Place == [send : Nat, at : Nat]
Wire  == [frame : Frames, more : BOOLEAN]

\* Type invariant.  A clone doubles the frames at most.
TypeOK ==
    /\ m_parts \in [Objs -> Seq(Frames)]
    /\ \A o \in Objs : size(Parts(o)) <= 2 * MaxFrames
    /\ call \in [fn : {"none", "append", "prepend", "clone", "send"},
                 on : Own, from : Own]
    /\ reading \in {"idle", "running", "failed"}
    /\ wire \in Seq(Wire)
    /\ peer \in BOOLEAN
    /\ made \in 0 .. MaxFrames
    /\ copied \subseteq Frames
    /\ before \in Seq(Frames)
    /\ sends \in Seq(Seq(Frames))
    /\ {sent, came} \subseteq Seq(Place)
    /\ failed \cup lost \subseteq Place

\* In the middle of append and prepend, whatever order the two ends of the
\* two deques are used in, both objects together hold the frames in the order
\* of the result; clone copies from the front.
ConcatenatesInOrder ==
    /\ Running("append") /\ call.on # call.from =>
          Parts(call.on) \o Parts(call.from) = before
    /\ Running("prepend") /\ call.on # call.from =>
          Parts(call.from) \o Parts(call.on) = before
    /\ Running("clone") =>
          equal(Parts("other"), SubSeq(before, 1, size(Parts("other"))))

\* All that holds frames: the objects and the pipe.
WireFrames == [i \in DOMAIN wire |-> wire[i].frame]
Holdings   == [o \in Objs \cup {"wire"} |-> IF o = "wire" THEN WireFrames ELSE Parts(o)]

\* No frame is owned twice, unless it was cloned: through moves, loops and
\* refused sends there is one owner, who frees it once.
OneOwner ==
    \A o, p \in DOMAIN Holdings :
       \A i \in DOMAIN Holdings[o], j \in DOMAIN Holdings[p] :
          Holdings[o][i] = Holdings[p][j] /\ Holdings[o][i] \notin copied
             => <<o, i>> = <<p, j>>

\* The frame at a place, and the place after it in the same message.
FrameAt(p)    == sends[p.send][p.at]
Follows(p, q) == q.send = p.send /\ q.at = p.at + 1

\* What recv may return first: the first frame of a message, or one whose
\* predecessor is lost; what may come next: the next frame, or the first of a
\* later message if a send failed in between; and last: the last frame.
MayStart(p)   == p.at = 1 \/ \E q \in lost : Follows(q, p)
MayCome(p, q) == \/ Follows(p, q)
                 \/ /\ q.at = 1 /\ p.send < q.send
                    /\ \E r \in failed : Follows(p, r)
MayEnd(p)     == p.at = size(sends[p.send])

\* What a recv that succeeds returns is a message as it was given to send,
\* unless something failed: only a frame whose predecessor went with a peer or
\* with a recv that failed may be missing its start, only where a send failed
\* may the next message be run together with it, and none comes without the
\* last frame of a message at its end.
ReceivesWhole ==
    LET got == Parts("got")
        n   == size(got)
    IN  reading = "idle" /\ ~ empty(got) =>
           /\ Len(came) = n
           /\ \A i \in 1 .. n : got[i] = FrameAt(came[i])
           /\ MayStart(came[1])
           /\ \A i \in 1 .. n - 1 : MayCome(came[i], came[i + 1])
           /\ MayEnd(came[n])

\* The frame at which a send failed never arrives, and is nowhere to be sent
\* again, however the caller goes on: send had popped it, and so a retry sends
\* a message with a hole.  Only a clone made of it may still come.
FailedFrameIsGone ==
    \A p \in failed : FrameAt(p) \notin copied =>
       \A o \in DOMAIN Holdings : \A i \in DOMAIN Holdings[o] :
          Holdings[o][i] # FrameAt(p)

WaitsForPeer  == Running("send") /\ ~ Writable /\ ~ empty(Parts("msg"))
GivenToItself == call.fn \in {"append", "prepend"} /\ call.on = call.from

\* Every call returns, but a send that waits for the peer to come or to read,
\* and an append or prepend of an object to itself, which rotates its frames
\* for ever.
CallsReturn ==
    [](~ Running("none") => <>(Running("none") \/ WaitsForPeer \/ GivenToItself))
=============================================================================
