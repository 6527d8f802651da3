---------------------------- MODULE RouterSocket ----------------------------
(***************************************************************************)
(* What the proxy relies on of a ZMQ_ROUTER socket (libzmq, which is not   *)
(* part of the repository).  A socket has one incoming and one outgoing    *)
(* pipe per peer; a pipe holds messages without the peer's identity frame. *)
(*                                                                         *)
(*  - recv takes the oldest message of any peer that has one and puts the  *)
(*    peer's identity in front of it;                                      *)
(*  - send takes the first frame as the identity of the addressee.  The    *)
(*    proxy leaves ZMQ_ROUTER_MANDATORY off, so a message whose addressee  *)
(*    is unknown, gone, or has a full pipe is dropped and the send         *)
(*    succeeds: it never waits, whatever ZMQ_SNDTIMEO says.                *)
(***************************************************************************)
EXTENDS Multipart

CONSTANT HWM   (* high-water mark of a pipe: 1000 messages by default      *)

ASSUME HWMAssumption == HWM \in Nat \ {0}

Readable(pipes) == \E p \in DOMAIN pipes : pipes[p] # << >>

HasRoom(pipes, p) == Len(pipes[p]) < HWM

RouterRecv(pipes, p) == pushmem(p, Head(pipes[p]))

RouterSend(pipes, peers, m) ==
    IF front(m) \in peers /\ HasRoom(pipes, front(m))
    THEN [pipes EXCEPT ![front(m)] = Append(@, pop(m))]
    ELSE pipes
=============================================================================
