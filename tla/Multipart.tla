------------------------------ MODULE Multipart ------------------------------
(***************************************************************************)
(* The frames of a multipart message, as zmq::multipart_t keeps them in    *)
(* its deque m_parts (zmq_addon.hpp): a message is the sequence of its     *)
(* frames, the front of the deque first.  These are its operations as      *)
(* operators, under their names in the source; those that loop are in      *)
(* MultipartOps.                                                           *)
(***************************************************************************)
EXTENDS Naturals, Sequences

\* The frame that pop() and remove() return.
front(m) == Head(m)
back(m)  == m[Len(m)]

\* pop() takes the first frame off, pushmem() puts one in front.
pop(m)        == Tail(m)
pushmem(f, m) == <<f>> \o m

\* addstr() and add() put a frame at the back.
addstr(m, f) == Append(m, f)

\* push() and the other push...() are pushmem(), add() and addmem() are addstr().
push(m, f) == pushmem(f, m)
add(m, f)  == addstr(m, f)

\* remove() takes the last frame off.
remove(m) == SubSeq(m, 1, Len(m) - 1)

size(m)  == Len(m)
empty(m) == m = << >>

\* The same number of frames, and frame by frame the same contents.
equal(m, other) ==
    /\ size(m) = size(other)
    /\ \A i \in 1 .. size(m) : m[i] = other[i]
=============================================================================
