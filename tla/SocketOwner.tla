---------------------------- MODULE SocketOwner ----------------------------
(***************************************************************************)
(* zmq::context_t and zmq::socket_t (zmq.hpp): what the objects hold of    *)
(* libzmq's contexts and sockets through construction, moves and closes.   *)
(* One thread, "the owner", uses them all; closing a context makes it wait *)
(* until every socket of the context is closed.                            *)
(*                                                                         *)
(* A null pointer is 0.  An object that was moved from, closed or not yet  *)
(* made is one whose pointer is null; what such an object remembers beside *)
(* the pointer is kept, as the code keeps it.                              *)
(***************************************************************************)
EXTENDS Naturals, Sequences, FiniteSets

CONSTANTS ContextObjects,  (* the program's context_t objects              *)
          SocketObjects,   (* the program's socket_t objects               *)
          MaxContexts,     (* bound: contexts made                         *)
          MaxSockets       (* bound: sockets made                          *)

ASSUME OwnersAssumption == {MaxContexts, MaxSockets} \subseteq Nat

NULL     == 0
Contexts == 1 .. MaxContexts
Sockets  == 1 .. MaxSockets

VARIABLES ctx,       (* per context_t, ptr                                 *)
          state,     (* per context, "unused", "open", "ending" or "gone"  *)
          sock,      (* per socket_t, ptr and ctxptr                       *)
          open,      (* sockets that are open                              *)
          context,   (* the context a socket was made in, or NULL          *)
          closing,   (* the context_t the owner is in close() of           *)
          assigned   (* history: socket_t objects that were assigned to    *)

contextVars == <<ctx, state, closing>>
socketVars  == <<sock, open, context, assigned>>

InitOwners ==
    /\ ctx = [c \in ContextObjects |-> NULL]
    /\ state = [i \in Contexts |-> "unused"]
    /\ sock = [s \in SocketObjects |-> [ptr |-> NULL, ctxptr |-> NULL]]
    /\ open = {}
    /\ context = [i \in Sockets |-> NULL]
    /\ closing = "none"
    /\ assigned = {}

OwnerRuns == closing = "none"

-----------------------------------------------------------------------------
(* context_t *)

IsOpen(i) == i # NULL /\ state[i] = "open"

\* Contexts and sockets are numbered as they are made.
Next_(used) == Cardinality(used) + 1

NewContext(c) ==
    /\ OwnerRuns
    /\ ctx[c] = NULL
    /\ \E i \in Contexts :
          /\ i = Next_({k \in Contexts : state[k] # "unused"})
          /\ ctx' = [ctx EXCEPT ![c] = i]
          /\ state' = [state EXCEPT ![i] = "open"]
    /\ UNCHANGED <<closing, socketVars>>

\* Move construction, into an object that has nothing, and move assignment.
SwapContexts(c, rhs) ==
    /\ OwnerRuns
    /\ ctx' = [ctx EXCEPT ![c] = ctx[rhs], ![rhs] = ctx[c]]
    /\ UNCHANGED <<state, closing, socketVars>>

\* close() and the destructor.  From here on calls on the context's sockets
\* fail with ETERM.
CloseContext(c) ==
    /\ OwnerRuns
    /\ ctx[c] # NULL
    /\ closing' = c
    /\ state' = [state EXCEPT ![ctx[c]] = "ending"]
    /\ UNCHANGED <<ctx, socketVars>>

SocketsOf(i) == {k \in open : context[k] = i}

CloseContextReturns(c) ==
    /\ closing = c
    /\ SocketsOf(ctx[c]) = {}
    /\ state' = [state EXCEPT ![ctx[c]] = "gone"]
    /\ ctx' = [ctx EXCEPT ![c] = NULL]
    /\ closing' = "none"
    /\ UNCHANGED socketVars

\* A signal ends the wait with an error, which a release build ignores: the
\* context is never freed.
CloseContextInterrupted(c) ==
    /\ closing = c
    /\ ctx' = [ctx EXCEPT ![c] = NULL]
    /\ closing' = "none"
    /\ UNCHANGED <<state, socketVars>>

-----------------------------------------------------------------------------
(* socket_t *)

\* zmq_socket(i): socket k is made in context i; it fails for a null or freed
\* context and for one that is ending.
MakesSocket(i, k) ==
    /\ IsOpen(i)
    /\ k = Next_({j \in Sockets : context[j] # NULL})
    /\ open' = open \cup {k}
    /\ context' = [context EXCEPT ![k] = i]

\* socket_t(context_t&, type).  If zmq_socket() fails it throws, and there is
\* no object.
NewSocket(s, c) ==
    /\ OwnerRuns
    /\ sock[s].ptr = NULL
    /\ \E k \in Sockets :
          /\ MakesSocket(ctx[c], k)
          /\ sock' = [sock EXCEPT ![s] = [ptr |-> k, ctxptr |-> ctx[c]]]
    /\ assigned' = assigned \ {s}
    /\ UNCHANGED contextVars

\* Mutants: the moved-from object keeps its pointer; the context is not taken.
MoveSocketKeeps(s, rhs) ==
    /\ OwnerRuns
    /\ s # rhs
    /\ sock[s].ptr = NULL
    /\ sock' = [sock EXCEPT ![s] = sock[rhs]]
    /\ assigned' = IF rhs \in assigned THEN assigned \cup {s} ELSE assigned \ {s}
    /\ UNCHANGED <<open, context, contextVars>>
MoveSocketOnly(s, rhs) ==
    /\ OwnerRuns
    /\ s # rhs
    /\ sock[s].ptr = NULL
    /\ sock' = [sock EXCEPT ![s].ptr = sock[rhs].ptr, ![rhs].ptr = NULL]
    /\ assigned' = IF rhs \in assigned THEN assigned \cup {s} ELSE assigned \ {s}
    /\ UNCHANGED <<open, context, contextVars>>

\* socket_t(socket_t&&).
MoveSocket(s, rhs) ==
    /\ OwnerRuns
    /\ s # rhs
    /\ sock[s].ptr = NULL
    /\ sock' = [sock EXCEPT ![s] = sock[rhs],
                            ![rhs] = [ptr |-> NULL, ctxptr |-> NULL]]
    /\ assigned' = IF rhs \in assigned THEN assigned \cup {s} ELSE assigned \ {s}
    /\ UNCHANGED <<open, context, contextVars>>

\* operator=(socket_t&&) swaps ptr, and leaves each ctxptr where it is.
AssignSocket(s, rhs) ==
    /\ OwnerRuns
    /\ s # rhs
    /\ sock' = [sock EXCEPT ![s].ptr = sock[rhs].ptr, ![rhs].ptr = sock[s].ptr]
    /\ assigned' = assigned \cup {s, rhs}
    /\ UNCHANGED <<open, context, contextVars>>

\* close() and the destructor; nothing is done a second time.
CloseSocket(s) ==
    /\ OwnerRuns
    /\ sock[s].ptr # NULL
    /\ open' = open \ {sock[s].ptr}
    /\ sock' = [sock EXCEPT ![s].ptr = NULL]
    /\ UNCHANGED <<context, assigned, contextVars>>

Owners ==
    \/ \E c \in ContextObjects :
          \/ NewContext(c) \/ CloseContext(c)
          \/ \E rhs \in ContextObjects : SwapContexts(c, rhs)
    \/ \E s \in SocketObjects :
          \/ \E c \in ContextObjects : NewSocket(s, c)
          \/ \E rhs \in SocketObjects : MoveSocket(s, rhs) \/ AssignSocket(s, rhs)
    \/ \E c \in ContextObjects :
          CloseContextReturns(c) \/ CloseContextInterrupted(c)
=============================================================================
