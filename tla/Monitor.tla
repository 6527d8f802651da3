------------------------------ MODULE Monitor ------------------------------
(***************************************************************************)
(* zmq::monitor_t (zmq.hpp): an object that has the events of a socket     *)
(* sent to a PAIR socket of its own, and a thread that calls check_event() *)
(* on it again and again, as monitor() does.  The owner of the contexts    *)
(* and sockets meanwhile moves, closes and terminates them.                *)
(*                                                                         *)
(* An event is two frames: what happened, and the address it happened at.  *)
(* Both carry the number of the event.                                     *)
(***************************************************************************)
EXTENDS SocketOwner

CONSTANTS MaxEvents,   (* bound: events of a monitored socket              *)
          MaxErrors    (* bound: receives that fail for no end of context  *)

ASSUME EventsAssumption == {MaxEvents, MaxErrors} \subseteq Nat

Stopped == MaxEvents + 1      \* the number of ZMQ_EVENT_MONITOR_STOPPED

\* What bytes that are no event may be taken for: an event, or none (0).
Numbers == 0 .. Stopped

VARIABLES mon,       (* the monitor_t: socketPtr and monitor_socket        *)
          watch,     (* per socket, the PAIR its events go to, or NULL     *)
          queue,     (* frames in the PAIR of the monitor_t                *)
          lost,      (* history: PAIR sockets no object remembers          *)
          pc,        (* the thread: where it is in check_event()           *)
          event,     (* the number read from the first frame               *)
          errors,    (* history: receives from the PAIR that failed so     *)
          emitted,   (* history: how many events were sent to the PAIR     *)
          handled    (* history: events and addresses handlers were given  *)

threadVars == <<pc, event, errors, handled>>
eventVars  == <<watch, queue, emitted>>
vars == <<contextVars, socketVars, mon, lost, eventVars, threadVars>>

Nothing == [socketPtr |-> NULL, monitor_socket |-> NULL]

Init ==
    /\ InitOwners
    /\ mon = Nothing
    /\ watch = [k \in Sockets |-> NULL]
    /\ queue = << >>
    /\ lost = {}
    /\ pc = "off"
    /\ event = 0
    /\ errors = 0
    /\ emitted = 0
    /\ handled = << >>

\* monitor_t is not for use by two threads: the owner leaves it alone while
\* the thread runs.
OwnerHas == OwnerRuns /\ pc = "off"

Frames(n) == <<[kind |-> "event", of |-> n], [kind |-> "address", of |-> n]>>

Heard(k) == watch[k] # NULL /\ watch[k] = mon.monitor_socket

\* The queue when socket k stops being monitored.
WithStop(k) == IF Heard(k) THEN queue \o Frames(Stopped) ELSE queue

-----------------------------------------------------------------------------
(* init(), abort() and the destructor *)

\* zmq_socket_monitor() on the socket, and a PAIR in the context the socket_t
\* remembers.  The release build goes on when no PAIR could be made.  An inproc
\* address is known inside one context only.
MonitorInit(s) ==
    /\ OwnerHas
    /\ sock[s].ptr # NULL
    /\ state[context[sock[s].ptr]] = "open"
    /\ lost' = IF mon.monitor_socket = NULL THEN lost
                                            ELSE lost \cup {mon.monitor_socket}
    /\ \/ /\ ~ IsOpen(sock[s].ctxptr)
          /\ mon' = [socketPtr |-> sock[s].ptr, monitor_socket |-> NULL]
          /\ watch' = [watch EXCEPT ![sock[s].ptr] = NULL]
          /\ UNCHANGED <<open, context>>
       \/ \E k \in Sockets :
             /\ MakesSocket(sock[s].ctxptr, k)
             /\ mon' = [socketPtr |-> sock[s].ptr, monitor_socket |-> k]
             /\ watch' = [watch EXCEPT ![sock[s].ptr] =
                             IF context[sock[s].ptr] = sock[s].ctxptr
                             THEN k ELSE NULL]
    /\ queue' = << >>
    /\ emitted' = 0 /\ handled' = << >> /\ errors' = 0
    /\ UNCHANGED <<sock, assigned, contextVars, pc, event>>

\* Monitoring of the socket is stopped, if it is still there, and the PAIR is
\* closed.
Release ==
    /\ mon' = Nothing
    /\ watch' = [k \in Sockets |-> IF k = mon.socketPtr THEN NULL ELSE watch[k]]
    /\ queue' = << >>
    /\ open' = open \ {mon.monitor_socket}
    /\ UNCHANGED <<sock, context, assigned, contextVars, lost, emitted>>

\* abort(), or the destructor, with no thread in check_event().
MonitorRelease ==
    /\ OwnerHas
    /\ mon # Nothing
    /\ Release
    /\ UNCHANGED threadVars

\* zmq_close() on a monitored socket sends the last event.
CloseMonitored(s) ==
    /\ CloseSocket(s)
    /\ queue' = WithStop(sock[s].ptr)
    /\ watch' = [watch EXCEPT ![sock[s].ptr] = NULL]
    /\ UNCHANGED <<mon, lost, emitted, threadVars>>

-----------------------------------------------------------------------------
(* The thread.  monitor() waits for ever in poll(), check_event(timeout) may *)
(* return false and is called again.                                         *)

Ending == mon.monitor_socket # NULL /\ state[context[mon.monitor_socket]] = "ending"

Start ==
    /\ OwnerHas
    /\ mon # Nothing
    /\ pc' = "poll"
    /\ UNCHANGED <<contextVars, socketVars, mon, lost, eventVars, event, errors, handled>>

To(step) ==
    /\ pc' = step
    /\ UNCHANGED <<contextVars, socketVars, mon, lost>>

\* Without a PAIR the item polled is file descriptor 0, and nothing that
\* happens to contexts and sockets ends the wait.
PollAstray ==
    /\ pc = "poll"
    /\ mon.monitor_socket = NULL
    /\ To("astray")
    /\ UNCHANGED <<eventVars, event, errors, handled>>

\* Mutant: the error is taken for a timeout.
PollThrowsNothing ==
    /\ pc = "poll"
    /\ Ending
    /\ To("poll")
    /\ UNCHANGED <<eventVars, event, errors, handled>>

\* zmq::poll throws when the context is ending.
PollThrows ==
    /\ pc = "poll"
    /\ Ending
    /\ To("thrown")
    /\ UNCHANGED <<eventVars, event, errors, handled>>

\* It throws on every other error too: a signal may end the wait at any time,
\* also the one for a file descriptor.
PollInterrupted ==
    /\ pc \in {"poll", "astray"}
    /\ To("thrown")
    /\ UNCHANGED <<eventVars, event, errors, handled>>

PollReturns ==
    /\ pc = "poll"
    /\ mon.monitor_socket # NULL /\ ~ Ending
    /\ queue # << >>
    /\ To("event")
    /\ UNCHANGED <<eventVars, event, errors, handled>>

\* zmq_msg_recv() waits for a frame and takes it.
Receive == ~ Ending /\ queue # << >> /\ queue' = Tail(queue)

\* What the first six bytes of a frame are taken for, and what address it is.
NumbersIn(f) == IF f.kind = "event" THEN {f.of} ELSE Numbers
AddressIn(f) == IF f.kind = "address" THEN f.of ELSE 0

\* Handlers are called with every event but the last.
Handle(n, a) ==
    /\ handled' = IF n = Stopped THEN handled ELSE Append(handled, <<n, a>>)
    /\ To(IF n = Stopped THEN "poll" ELSE "handle")

\* Mutant: the layout of an event in one frame.
ReadEventOnly ==
    /\ pc = "event"
    /\ Receive
    /\ event' \in NumbersIn(Head(queue))
    /\ Handle(event', event')
    /\ UNCHANGED <<watch, emitted, errors>>

ReadEvent ==
    /\ pc = "event"
    /\ Receive
    /\ event' \in NumbersIn(Head(queue))
    /\ To("address")
    /\ UNCHANGED <<watch, emitted, errors, handled>>

ReadAddress ==
    /\ pc = "address"
    /\ Receive
    /\ Handle(event, AddressIn(Head(queue)))
    /\ UNCHANGED <<watch, emitted, event, errors>>

\* The context ended between poll() and a receive, or between the two: false,
\* and check_event() is called again.
ReadFails ==
    /\ pc \in {"event", "address"}
    /\ Ending
    /\ To("poll")
    /\ UNCHANGED <<eventVars, event, errors, handled>>

\* Another error of a receive, a signal while it waits: an assertion, which a
\* release build ignores.  It goes on with an empty frame, as an event whatever
\* is in its memory, and the frame it did not take comes out of step.
EventErrs ==
    /\ pc = "event"
    /\ errors < MaxErrors /\ errors' = errors + 1
    /\ event' \in Numbers
    /\ pc' = "address"
    /\ UNCHANGED <<contextVars, socketVars, mon, lost, eventVars, handled>>

AddressErrs ==
    /\ pc = "address"
    /\ errors < MaxErrors /\ errors' = errors + 1
    /\ Handle(event, 0)
    /\ UNCHANGED <<eventVars, event>>

\* The handler returns, and so does check_event().
HandlerReturns ==
    /\ pc = "handle"
    /\ To("poll")
    /\ UNCHANGED <<eventVars, event, errors, handled>>

\* The handler calls abort(); monitor() and check_event() do not look.
HandlerAborts ==
    /\ pc = "handle"
    /\ Release
    /\ pc' = "poll"
    /\ UNCHANGED <<event, errors, handled>>

\* The exception leaves monitor(), and the monitor_t is destroyed.
Unwind ==
    /\ pc = "thrown"
    /\ Release
    /\ pc' = "off"
    /\ UNCHANGED <<event, errors, handled>>

Thread == \/ PollThrows \/ PollReturns \/ ReadEvent \/ ReadAddress \/ ReadFails
          \/ HandlerReturns \/ Unwind

-----------------------------------------------------------------------------

\* libzmq reports an event of the monitored socket.
Emit ==
    /\ emitted < MaxEvents
    /\ mon.monitor_socket # NULL /\ ~ Ending
    /\ Heard(mon.socketPtr)
    /\ emitted' = emitted + 1
    /\ queue' = queue \o Frames(emitted')
    /\ UNCHANGED <<contextVars, socketVars, mon, lost, watch, threadVars>>

Next ==
    \/ Owners /\ UNCHANGED <<mon, lost, eventVars, threadVars>>
    \/ \E s \in SocketObjects : CloseMonitored(s) \/ MonitorInit(s)
    \/ MonitorRelease \/ Start \/ Emit
    \/ PollAstray \/ PollInterrupted \/ EventErrs \/ AddressErrs
    \/ HandlerAborts \/ Thread

\* The thread goes on while it can, and so does a close that has nothing left
\* to wait for.
Fairness == WF_vars(Thread)
    /\ WF_vars(\E c \in ContextObjects : CloseContextReturns(c)
                                /\ UNCHANGED <<mon, lost, eventVars, threadVars>>)

Spec == Init /\ [][Next]_vars /\ Fairness

-----------------------------------------------------------------------------

HoldersOf(k) == {s \in SocketObjects : sock[s].ptr = k} \cup
                (IF mon.monitor_socket = k THEN {"monitor"} ELSE {})

\* Through moves, assignments, closes, a context that ends and an exception in
\* the thread, a socket has one object that will close it, and no object would
\* close a socket again.  Only the PAIR of a monitor_t that is initialised
\* twice is forgotten.
OneHolder ==
    \A k \in Sockets :
        IF k \in open \ lost THEN Cardinality(HoldersOf(k)) = 1
                             ELSE HoldersOf(k) = {}

\* The context a socket_t remembers is the one its socket lives in, so that
\* monitor_t::init makes its PAIR where it hears the socket.  That holds until
\* the object is assigned to, or from.
SameContext ==
    \A s \in SocketObjects \ assigned :
        sock[s].ptr # NULL => sock[s].ctxptr = context[sock[s].ptr]

\* Handlers are called with the events in their order, none twice and none
\* left out, each with its own address, and never for the end of monitoring:
\* until a receive fails otherwise than by the end of the context.
HandledInOrder ==
    errors = 0 => \A i \in 1 .. Len(handled) : handled[i] = <<i, i>>

\* Sockets of the context that nobody but the waiting owner could close.
KeptOpen(c) ==
    \E k \in SocketsOf(ctx[c]) : ~ (k = mon.monitor_socket /\ pc # "off")

\* Closing a context gets a thread out of monitor(), wherever it is between
\* the two frames of an event, its PAIR is closed, and close() returns: unless
\* a socket is open that the owner should have closed before, or a PAIR that
\* was forgotten.
ContextCloses ==
    \A c \in ContextObjects : (closing = c) ~> (closing # c \/ KeptOpen(c))
=============================================================================
