---------------------------- MODULE MonitorProofs ----------------------------
(***************************************************************************)
(* Every socket has one object that closes it, a socket_t that was never   *)
(* assigned to knows the context of its socket, and a monitor_t hands on   *)
(* every event in order: for any number of contexts, sockets and events,   *)
(* through moves, closes, a context that ends and handlers that abort.     *)
(***************************************************************************)
EXTENDS Monitor, FiniteSetTheorems, SequenceTheorems, TLAPS

Ptr    == 0 .. MaxSockets
CtxPtr == 0 .. MaxContexts
Frame  == [kind : {"event", "address"}, of : Nat]

TypedOwners ==
    /\ ctx \in [ContextObjects -> CtxPtr]
    /\ state \in [Contexts -> {"unused", "open", "ending", "gone"}]
    /\ sock \in [SocketObjects -> [ptr : Ptr, ctxptr : CtxPtr]]
    /\ open \subseteq Sockets
    /\ context \in [Sockets -> CtxPtr]

TypedMonitor ==
    /\ mon \in [socketPtr : Ptr, monitor_socket : Ptr]
    /\ watch \in [Sockets -> Ptr]
    /\ lost \subseteq Sockets

\* Sockets and contexts are numbered without a gap.
UsedSockets  == {j \in Sockets : context[j] # NULL}
UsedContexts == {i \in Contexts : state[i] # "unused"}

Numbered == /\ \E n \in Nat : UsedSockets = 1 .. n
            /\ \E n \in Nat : UsedContexts = 1 .. n

\* What is held, open or listened to was made.
Made == /\ \A c \in ContextObjects : ctx[c] # NULL => ctx[c] \in UsedContexts
        /\ open \subseteq UsedSockets
        /\ \A k \in Sockets : watch[k] # NULL => watch[k] \in UsedSockets

\* Every pointer leads to an open socket that was not forgotten, no two of
\* them to the same one, and every such socket has a pointer to it.
Held ==
    /\ lost \subseteq open
    /\ \A s \in SocketObjects :
          sock[s].ptr # NULL => /\ sock[s].ptr \in open \ lost
                                /\ sock[s].ptr # mon.monitor_socket
    /\ mon.monitor_socket # NULL => mon.monitor_socket \in open \ lost
    /\ \A s, t \in SocketObjects :
          sock[s].ptr = sock[t].ptr /\ sock[s].ptr # NULL => s = t
    /\ \A k \in open \ lost :
          k = mon.monitor_socket \/ \E s \in SocketObjects : sock[s].ptr = k

Inv == /\ TypedOwners /\ TypedMonitor
       /\ Numbered /\ Made /\ Held /\ SameContext

-----------------------------------------------------------------------------

\* The number a new socket or context gets was never used.
LEMMA NextIsNew ==
    ASSUME NEW n \in Nat
    PROVE  Next_(1 .. n) = n + 1 /\ n + 1 \notin 1 .. n
<1>1. Cardinality(1 .. n) = n
  BY FS_Interval
<1>2. QED
  BY <1>1 DEF Next_

\* zmq_socket() makes a socket nobody knows of.
LEMMA SocketIsNew ==
    ASSUME Inv, NEW i \in CtxPtr, NEW k \in Sockets, MakesSocket(i, k)
    PROVE  /\ i \in Contexts
           /\ context[k] = NULL /\ k # NULL
           /\ k \notin open /\ k # mon.monitor_socket
           /\ \A s \in SocketObjects : sock[s].ptr # k
           /\ \A j \in Sockets : watch[j] # k
           /\ context' \in [Sockets -> CtxPtr]
           /\ \A j \in Sockets : context'[j] = IF j = k THEN i ELSE context[j]
           /\ UsedSockets' = UsedSockets \cup {k}
           /\ \E n \in Nat : UsedSockets' = 1 .. n
<1>1. PICK n \in Nat : UsedSockets = 1 .. n
  BY DEF Inv, Numbered
<1>2. k = n + 1 /\ k \notin UsedSockets
  BY <1>1, NextIsNew DEF MakesSocket, UsedSockets
<1>3. context[k] = NULL /\ k # NULL
  BY <1>2 DEF UsedSockets, Sockets, NULL
<1>4. k \notin open /\ k # mon.monitor_socket
  BY <1>2, <1>3 DEF Inv, Made, Held
<1>5. \A s \in SocketObjects : sock[s].ptr # k
  BY <1>3, <1>4 DEF Inv, Held
<1>6. \A j \in Sockets : watch[j] # k
  BY <1>2, <1>3 DEF Inv, Made
<1>7. i \in Contexts /\ i # NULL
  BY DEF MakesSocket, IsOpen, CtxPtr, Contexts, NULL
<1>8. /\ context' \in [Sockets -> CtxPtr]
      /\ \A j \in Sockets : context'[j] = IF j = k THEN i ELSE context[j]
  BY DEF MakesSocket, Inv, TypedOwners
<1>9. UsedSockets' = UsedSockets \cup {k}
  BY <1>7, <1>8 DEF UsedSockets
<1>10. UsedSockets' = 1 .. n + 1
  BY <1>1, <1>2, <1>9
<1>11. QED
  BY <1>1, <1>3, <1>4, <1>5, <1>6, <1>7, <1>8, <1>9, <1>10

\* At the start there is nothing.
LEMMA InitInv == Init => Inv
<1> SUFFICES ASSUME Init PROVE Inv
  OBVIOUS
<1>1. 0 \in Ptr /\ 0 \in CtxPtr
  BY OwnersAssumption DEF Ptr, CtxPtr
<1>2. TypedOwners
  BY <1>1 DEF Init, InitOwners, TypedOwners, NULL
<1>3. TypedMonitor
  BY <1>1 DEF Init, TypedMonitor, NULL, Nothing
<1>4. UsedSockets = {} /\ UsedContexts = {} /\ {} = 1 .. 0
  BY DEF Init, InitOwners, UsedSockets, UsedContexts, NULL
<1>5. Numbered
  BY <1>4 DEF Numbered
<1>6. Made /\ Held /\ SameContext
  BY DEF Init, InitOwners, Made, Held, SameContext, NULL, Nothing
<1>7. QED
  BY <1>2, <1>3, <1>5, <1>6 DEF Inv

\* Steps of contexts leave the sockets alone.
LEMMA ContextInv ==
    ASSUME Inv, UNCHANGED <<socketVars, mon, lost, watch>>,
           ctx' \in [ContextObjects -> CtxPtr],
           state' \in [Contexts -> {"unused", "open", "ending", "gone"}],
           \E n \in Nat : UsedContexts' = 1 .. n,
           \A c \in ContextObjects : ctx'[c] # NULL => ctx'[c] \in UsedContexts'
    PROVE  Inv'
<1>1. UsedSockets' = UsedSockets
  BY DEF UsedSockets, socketVars
<1>2. Numbered'
  BY <1>1 DEF Inv, Numbered
<1>3. Made' /\ Held' /\ SameContext'
  BY <1>1 DEF Inv, Made, Held, SameContext, socketVars
<1>4. QED
  BY <1>2, <1>3 DEF Inv, TypedOwners, TypedMonitor, socketVars

\* The steps of contexts.
LEMMA ContextsInv ==
    ASSUME Inv, NEW c \in ContextObjects, UNCHANGED <<mon, lost, watch>>,
           \/ NewContext(c) \/ CloseContext(c)
           \/ \E rhs \in ContextObjects : SwapContexts(c, rhs)
           \/ CloseContextReturns(c) \/ CloseContextInterrupted(c)
    PROVE  Inv'
<1>1. /\ UNCHANGED socketVars /\ TypedOwners /\ NULL \in CtxPtr
      /\ \E n \in Nat : UsedContexts = 1 .. n
      /\ \A i \in CtxPtr : i # NULL => i \in Contexts
      /\ \A i \in Contexts : i \in CtxPtr
  BY OwnersAssumption DEF Inv, Numbered, NewContext, CloseContext, SwapContexts,
     CloseContextReturns, CloseContextInterrupted, NULL, CtxPtr, Contexts
<1>2. ASSUME UsedContexts' = UsedContexts,
             \A d \in ContextObjects : ctx'[d] # NULL => ctx'[d] \in UsedContexts,
             ctx' \in [ContextObjects -> CtxPtr],
             state' \in [Contexts -> {"unused", "open", "ending", "gone"}]
      PROVE  Inv'
  <2>1. \E n \in Nat : UsedContexts' = 1 .. n
    BY <1>1, <1>2
  <2>2. QED
    BY <1>1, <1>2, <2>1, ContextInv
<1>3. CASE NewContext(c)
  <2>1. PICK i \in Contexts :
           /\ i = Next_(UsedContexts)
           /\ ctx' = [ctx EXCEPT ![c] = i]
           /\ state' = [state EXCEPT ![i] = "open"]
    BY <1>3 DEF NewContext, UsedContexts
  <2>2. PICK n \in Nat : UsedContexts = 1 .. n
    BY <1>1
  <2>3. i = n + 1
    BY <2>1, <2>2, NextIsNew
  <2>4. /\ ctx' \in [ContextObjects -> CtxPtr]
        /\ state' \in [Contexts -> {"unused", "open", "ending", "gone"}]
    BY <1>1, <2>1 DEF TypedOwners
  <2>5. UsedContexts' = UsedContexts \cup {i}
    BY <1>1, <2>1 DEF UsedContexts, TypedOwners
  <2>6. UsedContexts' = 1 .. n + 1 /\ n + 1 \in Nat
    BY <2>2, <2>3, <2>5
  <2>7. \E m \in Nat : UsedContexts' = 1 .. m
    BY <2>6
  <2>8. \A d \in ContextObjects : ctx'[d] # NULL => ctx'[d] \in UsedContexts'
    BY <1>1, <2>1, <2>5 DEF Inv, Made, TypedOwners
  <2>9. QED
    BY <1>1, <2>4, <2>7, <2>8, ContextInv
<1>4. CASE CloseContext(c)
  <2>1. ctx' = ctx /\ state' = [state EXCEPT ![ctx[c]] = "ending"]
        /\ ctx[c] \in UsedContexts /\ ctx[c] \in Contexts
    BY <1>1, <1>4 DEF CloseContext, TypedOwners, Inv, Made
  <2>2. /\ ctx' \in [ContextObjects -> CtxPtr]
        /\ state' \in [Contexts -> {"unused", "open", "ending", "gone"}]
    BY <1>1, <2>1 DEF TypedOwners
  <2>3. UsedContexts' = UsedContexts
    BY <1>1, <2>1 DEF UsedContexts, TypedOwners
  <2>4. \A d \in ContextObjects : ctx'[d] # NULL => ctx'[d] \in UsedContexts
    BY <2>1 DEF Inv, Made
  <2>5. QED
    BY <1>2, <2>2, <2>3, <2>4
<1>5. ASSUME NEW rhs \in ContextObjects, SwapContexts(c, rhs) PROVE Inv'
  <2>1. ctx' \in [ContextObjects -> CtxPtr] /\ state' = state
    BY <1>1, <1>5 DEF SwapContexts, TypedOwners
  <2>2. \A d \in ContextObjects : ctx'[d] # NULL => ctx'[d] \in UsedContexts
    BY <1>1, <1>5 DEF SwapContexts, Inv, Made, TypedOwners
  <2>3. QED
    BY <1>1, <1>2, <2>1, <2>2 DEF UsedContexts, TypedOwners
<1>6. CASE CloseContextReturns(c)
  <2>1. ctx' = [ctx EXCEPT ![c] = NULL] /\ state' = [state EXCEPT ![ctx[c]] = "gone"]
    BY <1>6 DEF CloseContextReturns
  <2>2. /\ ctx' \in [ContextObjects -> CtxPtr]
        /\ state' \in [Contexts -> {"unused", "open", "ending", "gone"}]
    BY <1>1, <2>1 DEF TypedOwners
  <2>3. ctx[c] \in UsedContexts \/ ctx[c] \notin Contexts
    BY DEF Inv, Made, Contexts, NULL
  <2>4. UsedContexts' = UsedContexts
    BY <1>1, <2>1, <2>3 DEF UsedContexts, TypedOwners
  <2>5. \A d \in ContextObjects : ctx'[d] # NULL => ctx'[d] \in UsedContexts
    BY <1>1, <2>1 DEF Inv, Made, TypedOwners
  <2>6. QED
    BY <1>2, <2>2, <2>4, <2>5
<1>7. CASE CloseContextInterrupted(c)
  <2>1. ctx' = [ctx EXCEPT ![c] = NULL] /\ state' = state
    BY <1>7 DEF CloseContextInterrupted
  <2>2. \A d \in ContextObjects : ctx'[d] # NULL => ctx'[d] \in UsedContexts
    BY <1>1, <2>1 DEF Inv, Made, TypedOwners
  <2>3. ctx' \in [ContextObjects -> CtxPtr] /\ UsedContexts' = UsedContexts
    BY <1>1, <2>1 DEF UsedContexts, TypedOwners
  <2>4. QED
    BY <1>1, <1>2, <2>1, <2>2, <2>3 DEF TypedOwners
<1>8. QED
  BY <1>3, <1>4, <1>5, <1>6, <1>7

\* What a step that leaves the contexts keeps of them.
LEMMA ContextsKept ==
    ASSUME Inv, UNCHANGED <<ctx, state>>
    PROVE  /\ ctx' \in [ContextObjects -> CtxPtr]
           /\ state' \in [Contexts -> {"unused", "open", "ending", "gone"}]
           /\ UsedContexts' = UsedContexts
           /\ \E n \in Nat : UsedContexts' = 1 .. n
           /\ \A c \in ContextObjects : ctx'[c] # NULL => ctx'[c] \in UsedContexts'
<1>1. UsedContexts' = UsedContexts
  BY DEF UsedContexts
<1>2. QED
  BY <1>1 DEF Inv, TypedOwners, Numbered, Made

\* A socket_t is made around a new socket.
LEMMA NewSocketInv ==
    ASSUME Inv, NEW s \in SocketObjects, NEW c \in ContextObjects,
           NewSocket(s, c), UNCHANGED <<mon, lost, watch>>
    PROVE  Inv'
<1>1. UNCHANGED <<ctx, state>> /\ sock[s].ptr = NULL
  BY DEF NewSocket, contextVars
<1>2. PICK k \in Sockets :
         /\ MakesSocket(ctx[c], k)
         /\ sock' = [sock EXCEPT ![s] = [ptr |-> k, ctxptr |-> ctx[c]]]
  BY DEF NewSocket
<1>3. ctx[c] \in CtxPtr
  BY DEF Inv, TypedOwners
<1>4. /\ context[k] = NULL /\ k # NULL
      /\ k \notin open /\ k # mon.monitor_socket
      /\ \A t \in SocketObjects : sock[t].ptr # k
      /\ context' \in [Sockets -> CtxPtr]
      /\ \A j \in Sockets : context'[j] = IF j = k THEN ctx[c] ELSE context[j]
      /\ UsedSockets' = UsedSockets \cup {k}
      /\ \E n \in Nat : UsedSockets' = 1 .. n
  BY <1>2, <1>3, SocketIsNew
<1>5. open' = open \cup {k} /\ k \in Ptr
  BY <1>2 DEF MakesSocket, Sockets, Ptr
<1>6. /\ sock' \in [SocketObjects -> [ptr : Ptr, ctxptr : CtxPtr]]
      /\ \A t \in SocketObjects :
            sock'[t] = IF t = s THEN [ptr |-> k, ctxptr |-> ctx[c]] ELSE sock[t]
  BY <1>2, <1>3, <1>5 DEF Inv, TypedOwners
<1>7. /\ sock'[s].ptr = k /\ sock'[s].ctxptr = ctx[c]
      /\ \A t \in SocketObjects \ {s} : sock'[t] = sock[t]
  BY <1>6
<1>8. TypedOwners' /\ TypedMonitor' /\ Numbered'
  BY <1>1, <1>4, <1>5, <1>6, ContextsKept
     DEF Inv, TypedOwners, TypedMonitor, Numbered
<1>9. Made'
  BY <1>1, <1>4, <1>5, ContextsKept DEF Inv, Made
<1>10. Held'
  <2>1. lost' \subseteq open' /\ k \notin lost
    BY <1>4, <1>5 DEF Inv, Held
  <2>2. \A t \in SocketObjects : sock'[t].ptr # NULL =>
           /\ sock'[t].ptr \in open' \ lost' /\ sock'[t].ptr # mon'.monitor_socket
    BY <1>4, <1>5, <1>7, <2>1 DEF Inv, Held
  <2>3. mon'.monitor_socket # NULL => mon'.monitor_socket \in open' \ lost'
    BY <1>5 DEF Inv, Held
  <2>4. \A t, u \in SocketObjects :
           sock'[t].ptr = sock'[u].ptr /\ sock'[t].ptr # NULL => t = u
    BY <1>4, <1>7 DEF Inv, Held
  <2>5. \A j \in open' \ lost' :
           j = mon'.monitor_socket \/ \E t \in SocketObjects : sock'[t].ptr = j
    <3>1. SUFFICES ASSUME NEW j \in open' \ lost', j # mon.monitor_socket
                   PROVE  \E t \in SocketObjects : sock'[t].ptr = j
      OBVIOUS
    <3>2. CASE j = k
      BY <1>7, <3>2
    <3>3. CASE j # k
      <4>1. j \in open \ lost /\ j # NULL
        BY <1>5, <3>1, <3>3 DEF Inv, TypedOwners, Sockets, NULL
      <4>2. PICK t \in SocketObjects : sock[t].ptr = j
        BY <3>1, <4>1 DEF Inv, Held
      <4>3. t # s
        BY <1>1, <4>1, <4>2
      <4>4. QED
        BY <1>7, <4>2, <4>3
    <3>4. QED
      BY <3>2, <3>3
  <2>6. QED
    BY <2>1, <2>2, <2>3, <2>4, <2>5 DEF Held
<1>11. SameContext'
  <2>1. assigned' = assigned \ {s}
    BY DEF NewSocket
  <2>2. \A t \in SocketObjects \ {s} : sock[t].ptr # NULL => sock[t].ptr \in Sockets
    BY DEF Inv, Held, TypedOwners
  <2>3. QED
    BY <1>4, <1>7, <2>1, <2>2 DEF Inv, SameContext
<1>12. QED
  BY <1>8, <1>9, <1>10, <1>11 DEF Inv

\* Moving a pointer from one socket_t to another keeps what it leads to.
LEMMA MoveSocketInv ==
    ASSUME Inv, NEW s \in SocketObjects, NEW rhs \in SocketObjects,
           MoveSocket(s, rhs) \/ AssignSocket(s, rhs),
           UNCHANGED <<mon, lost, watch>>
    PROVE  Inv'
<1>1. /\ UNCHANGED <<ctx, state>> /\ UNCHANGED <<open, context>> /\ s # rhs
      /\ sock \in [SocketObjects -> [ptr : Ptr, ctxptr : CtxPtr]]
      /\ NULL \in Ptr /\ NULL \in CtxPtr
  BY OwnersAssumption DEF MoveSocket, AssignSocket, contextVars, Inv, TypedOwners,
     NULL, Ptr, CtxPtr
<1>2. /\ sock[s] \in [ptr : Ptr, ctxptr : CtxPtr]
      /\ sock[rhs] \in [ptr : Ptr, ctxptr : CtxPtr]
  BY <1>1
<1>3. /\ sock' \in [SocketObjects -> [ptr : Ptr, ctxptr : CtxPtr]]
      /\ sock'[s].ptr = sock[rhs].ptr /\ sock'[rhs].ptr = sock[s].ptr
      /\ \A t \in SocketObjects \ {s, rhs} : sock'[t] = sock[t]
  <2>1. CASE MoveSocket(s, rhs)
    <3>1. /\ sock[s].ptr = NULL
          /\ sock' = [sock EXCEPT ![s] = sock[rhs],
                                  ![rhs] = [ptr |-> NULL, ctxptr |-> NULL]]
      BY <2>1 DEF MoveSocket
    <3>2. QED
      BY <1>1, <1>2, <3>1
  <2>2. CASE AssignSocket(s, rhs)
    <3> DEFINE x == [sock[s] EXCEPT !.ptr = sock[rhs].ptr]
               y == [sock[rhs] EXCEPT !.ptr = sock[s].ptr]
    <3>1. /\ x \in [ptr : Ptr, ctxptr : CtxPtr] /\ x.ptr = sock[rhs].ptr
          /\ y \in [ptr : Ptr, ctxptr : CtxPtr] /\ y.ptr = sock[s].ptr
      BY <1>2
    <3>2. sock' = [sock EXCEPT ![s] = x, ![rhs] = y]
      BY <1>1, <2>2 DEF AssignSocket
    <3> HIDE DEF x, y
    <3>3. QED
      BY <1>1, <3>1, <3>2
  <2>3. QED
    BY <2>1, <2>2
<1>4. UsedSockets' = UsedSockets
  BY <1>1 DEF UsedSockets
<1>5. TypedOwners' /\ TypedMonitor' /\ Numbered' /\ Made'
  BY <1>1, <1>3, <1>4, ContextsKept
     DEF Inv, TypedOwners, TypedMonitor, Numbered, Made
<1>6. Held'
  <2> DEFINE old(t) == IF t = s THEN rhs ELSE IF t = rhs THEN s ELSE t
  <2>1. \A t \in SocketObjects : old(t) \in SocketObjects /\ sock'[t].ptr = sock[old(t)].ptr
    BY <1>1, <1>3
  <2>2. \A t, u \in SocketObjects : old(t) = old(u) => t = u
    BY <1>1
  <2>3. \A t \in SocketObjects : sock[t].ptr = sock'[old(t)].ptr
    BY <1>1, <1>3
  <2> HIDE DEF old
  <2>4. \A t \in SocketObjects : sock'[t].ptr # NULL =>
           /\ sock'[t].ptr \in open' \ lost' /\ sock'[t].ptr # mon'.monitor_socket
    BY <1>1, <2>1 DEF Inv, Held
  <2>5. \A t, u \in SocketObjects :
           sock'[t].ptr = sock'[u].ptr /\ sock'[t].ptr # NULL => t = u
    BY <2>1, <2>2 DEF Inv, Held
  <2>6. \A j \in open' \ lost' :
           j = mon'.monitor_socket \/ \E t \in SocketObjects : sock'[t].ptr = j
    BY <1>1, <2>1, <2>3 DEF Inv, Held
  <2>7. lost' \subseteq open' /\
        (mon'.monitor_socket # NULL => mon'.monitor_socket \in open' \ lost')
    BY <1>1 DEF Inv, Held
  <2>8. QED
    BY <2>4, <2>5, <2>6, <2>7 DEF Held
<1>7. SameContext'
  <2>1. CASE MoveSocket(s, rhs)
    <3>1. /\ sock'[s] = sock[rhs] /\ sock'[rhs].ptr = NULL
          /\ s \in assigned' <=> rhs \in assigned
          /\ \A t \in SocketObjects \ {s, rhs} : t \in assigned' <=> t \in assigned
      <4>1. sock'[s] = sock[rhs] /\ sock'[rhs].ptr = NULL
        BY <1>1, <1>3, <2>1 DEF MoveSocket
      <4>2. assigned' = IF rhs \in assigned THEN assigned \cup {s} ELSE assigned \ {s}
        BY <2>1 DEF MoveSocket
      <4>3. QED
        BY <4>1, <4>2
    <3>2. QED
      BY <1>1, <1>3, <3>1 DEF Inv, SameContext
  <2>2. CASE AssignSocket(s, rhs)
    <3>1. assigned' = assigned \cup {s, rhs}
      BY <2>2 DEF AssignSocket
    <3>2. QED
      BY <1>1, <1>3, <3>1 DEF Inv, SameContext
  <2>3. QED
    BY <2>1, <2>2
<1>8. QED
  BY <1>5, <1>6, <1>7 DEF Inv

\* Closing a socket takes its only pointer away.
LEMMA CloseMonitoredInv ==
    ASSUME Inv, NEW s \in SocketObjects, CloseMonitored(s)
    PROVE  Inv'
<1>1. /\ UNCHANGED <<ctx, state, context, assigned, mon, lost>>
      /\ open' = open \ {sock[s].ptr} /\ sock[s].ptr # NULL
      /\ sock' = [sock EXCEPT ![s].ptr = NULL]
      /\ watch' = [watch EXCEPT ![sock[s].ptr] = NULL]
  BY DEF CloseMonitored, CloseSocket, contextVars
<1>2. NULL \in Ptr /\ sock \in [SocketObjects -> [ptr : Ptr, ctxptr : CtxPtr]]
      /\ watch \in [Sockets -> Ptr]
  BY OwnersAssumption DEF NULL, Ptr, Inv, TypedOwners, TypedMonitor
<1>3. /\ sock' \in [SocketObjects -> [ptr : Ptr, ctxptr : CtxPtr]]
      /\ sock'[s].ptr = NULL
      /\ \A t \in SocketObjects \ {s} : sock'[t] = sock[t]
  BY <1>1, <1>2
<1>4. /\ watch' \in [Sockets -> Ptr]
      /\ \A k \in Sockets : watch'[k] = NULL \/ watch'[k] = watch[k]
  BY <1>1, <1>2
<1>5. UsedSockets' = UsedSockets
  BY <1>1 DEF UsedSockets
<1>6. TypedOwners' /\ TypedMonitor'
  BY <1>1, <1>3, <1>4, ContextsKept DEF Inv, TypedOwners, TypedMonitor
<1>7. Numbered' /\ Made'
  BY <1>1, <1>4, <1>5, ContextsKept DEF Inv, Numbered, Made
<1>8. Held'
  <2>1. lost' \subseteq open'
        /\ (mon'.monitor_socket # NULL => mon'.monitor_socket \in open' \ lost')
    BY <1>1 DEF Inv, Held
  <2>2. \A t \in SocketObjects : sock'[t].ptr # NULL =>
           /\ sock'[t].ptr \in open' \ lost' /\ sock'[t].ptr # mon'.monitor_socket
    BY <1>1, <1>3 DEF Inv, Held
  <2>3. \A t, u \in SocketObjects :
           sock'[t].ptr = sock'[u].ptr /\ sock'[t].ptr # NULL => t = u
    BY <1>3 DEF Inv, Held
  <2>4. \A j \in open' \ lost' :
           j = mon'.monitor_socket \/ \E t \in SocketObjects : sock'[t].ptr = j
    <3>1. SUFFICES ASSUME NEW j \in open \ lost, j # sock[s].ptr,
                          j # mon.monitor_socket
                   PROVE  \E t \in SocketObjects : sock'[t].ptr = j
      BY <1>1
    <3>2. PICK t \in SocketObjects : sock[t].ptr = j
      BY <3>1 DEF Inv, Held
    <3>3. QED
      BY <1>3, <3>1, <3>2
  <2>5. QED
    BY <2>1, <2>2, <2>3, <2>4 DEF Held
<1>9. SameContext'
  BY <1>1, <1>3 DEF Inv, SameContext
<1>10. QED
  BY <1>6, <1>7, <1>8, <1>9 DEF Inv

\* The monitor_t lets go of its PAIR and closes it.
LEMMA ReleaseInv ==
    ASSUME Inv, Release
    PROVE  Inv'
<1>1. /\ UNCHANGED <<ctx, state, sock, context, assigned, lost>>
      /\ open' = open \ {mon.monitor_socket} /\ mon' = Nothing
      /\ watch' = [k \in Sockets |-> IF k = mon.socketPtr THEN NULL ELSE watch[k]]
  BY DEF Release, contextVars
<1>2. NULL \in Ptr /\ watch \in [Sockets -> Ptr]
  BY OwnersAssumption DEF NULL, Ptr, Inv, TypedMonitor
<1>3. /\ watch' \in [Sockets -> Ptr]
      /\ \A k \in Sockets : watch'[k] = NULL \/ watch'[k] = watch[k]
  BY <1>1, <1>2
<1>4. /\ mon' \in [socketPtr : Ptr, monitor_socket : Ptr]
      /\ mon'.monitor_socket = NULL
  BY <1>1, <1>2 DEF Nothing
<1>5. UsedSockets' = UsedSockets
  BY <1>1 DEF UsedSockets
<1>6. TypedOwners' /\ TypedMonitor'
  BY <1>1, <1>3, <1>4, ContextsKept DEF Inv, TypedOwners, TypedMonitor
<1>7. Numbered' /\ Made'
  BY <1>1, <1>3, <1>5, ContextsKept DEF Inv, Numbered, Made
<1>8. Held' /\ SameContext'
  BY <1>1, <1>4 DEF Inv, Held, SameContext, TypedMonitor, Sockets, NULL
<1>9. QED
  BY <1>6, <1>7, <1>8 DEF Inv

\* init() in a context that makes no PAIR: the one there was is forgotten.
LEMMA InitWithoutPairInv ==
    ASSUME Inv, NEW s \in SocketObjects, MonitorInit(s),
           UNCHANGED <<open, context>>,
           mon' = [socketPtr |-> sock[s].ptr, monitor_socket |-> NULL],
           watch' = [watch EXCEPT ![sock[s].ptr] = NULL]
    PROVE  Inv'
<1>1. /\ UNCHANGED <<ctx, state, sock, assigned>>
      /\ lost' = IF mon.monitor_socket = NULL THEN lost
                                              ELSE lost \cup {mon.monitor_socket}
  BY DEF MonitorInit, contextVars
<1>2. /\ NULL \in Ptr /\ watch \in [Sockets -> Ptr]
      /\ sock[s].ptr \in Ptr
  BY OwnersAssumption DEF NULL, Ptr, Inv, TypedMonitor, TypedOwners
<1>3. /\ watch' \in [Sockets -> Ptr]
      /\ \A k \in Sockets : watch'[k] = NULL \/ watch'[k] = watch[k]
  BY <1>2
<1>4. /\ mon' \in [socketPtr : Ptr, monitor_socket : Ptr]
      /\ mon'.monitor_socket = NULL
  BY <1>2
<1>5. UsedSockets' = UsedSockets
  BY DEF UsedSockets
<1>6. lost' \subseteq open
  BY <1>1 DEF Inv, Held
<1>7. TypedOwners' /\ TypedMonitor'
  BY <1>1, <1>3, <1>4, <1>6, ContextsKept DEF Inv, TypedOwners, TypedMonitor
<1>8. Numbered' /\ Made'
  BY <1>1, <1>3, <1>5, ContextsKept DEF Inv, Numbered, Made
<1>9. Held'
  BY <1>1, <1>4, <1>6 DEF Inv, Held, TypedOwners, Sockets, NULL
<1>10. QED
  BY <1>1, <1>7, <1>8, <1>9 DEF Inv, SameContext

\* init() with a new PAIR: the one there was is forgotten.
LEMMA InitWithPairInv ==
    ASSUME Inv, NEW s \in SocketObjects, MonitorInit(s),
           NEW k \in Sockets, MakesSocket(sock[s].ctxptr, k),
           mon' = [socketPtr |-> sock[s].ptr, monitor_socket |-> k],
           watch' = [watch EXCEPT ![sock[s].ptr] =
                        IF context[sock[s].ptr] = sock[s].ctxptr THEN k ELSE NULL]
    PROVE  Inv'
<1>1. /\ UNCHANGED <<ctx, state, sock, assigned>>
      /\ lost' = IF mon.monitor_socket = NULL THEN lost
                                              ELSE lost \cup {mon.monitor_socket}
  BY DEF MonitorInit, contextVars
<1>2. /\ NULL \in Ptr /\ watch \in [Sockets -> Ptr]
      /\ sock[s].ptr \in Ptr /\ sock[s].ctxptr \in CtxPtr
  BY OwnersAssumption DEF NULL, Ptr, Inv, TypedMonitor, TypedOwners
<1>3. /\ k # NULL
      /\ k \notin open /\ k # mon.monitor_socket
      /\ \A t \in SocketObjects : sock[t].ptr # k
      /\ context' \in [Sockets -> CtxPtr]
      /\ \A j \in Sockets : context'[j] = IF j = k THEN sock[s].ctxptr ELSE context[j]
      /\ UsedSockets' = UsedSockets \cup {k}
      /\ \E n \in Nat : UsedSockets' = 1 .. n
  BY <1>2, SocketIsNew
<1>4. open' = open \cup {k} /\ k \in Ptr
  BY DEF MakesSocket, Sockets, Ptr
<1>5. /\ watch' \in [Sockets -> Ptr]
      /\ \A j \in Sockets : watch'[j] \in {NULL, k, watch[j]}
  BY <1>2, <1>4
<1>6. /\ mon' \in [socketPtr : Ptr, monitor_socket : Ptr]
      /\ mon'.monitor_socket = k
  BY <1>2, <1>4
<1>7. lost' \subseteq open /\ k \notin lost'
  BY <1>1, <1>3 DEF Inv, Held
<1>8. TypedOwners'
  BY <1>1, <1>3, <1>4, ContextsKept DEF Inv, TypedOwners
<1>9. TypedMonitor'
  BY <1>5, <1>6, <1>7 DEF Inv, TypedMonitor, TypedOwners
<1>10. Numbered' /\ Made'
  BY <1>1, <1>3, <1>4, <1>5, ContextsKept DEF Inv, Numbered, Made
<1>11. Held'
  <2>1. lost' \subseteq open'
        /\ (mon'.monitor_socket # NULL => mon'.monitor_socket \in open' \ lost')
    BY <1>4, <1>6, <1>7
  <2>2. \A t \in SocketObjects : sock'[t].ptr # NULL =>
           /\ sock'[t].ptr \in open' \ lost' /\ sock'[t].ptr # mon'.monitor_socket
    BY <1>1, <1>3, <1>4, <1>6 DEF Inv, Held
  <2>3. \A t, u \in SocketObjects :
           sock'[t].ptr = sock'[u].ptr /\ sock'[t].ptr # NULL => t = u
    BY <1>1 DEF Inv, Held
  <2>4. \A j \in open' \ lost' :
           j = mon'.monitor_socket \/ \E t \in SocketObjects : sock'[t].ptr = j
    BY <1>1, <1>4, <1>6 DEF Inv, Held, TypedOwners, Sockets, NULL
  <2>5. QED
    BY <2>1, <2>2, <2>3, <2>4 DEF Held
<1>12. SameContext'
  <2>1. \A t \in SocketObjects : sock[t].ptr # NULL =>
           sock[t].ptr \in Sockets /\ sock[t].ptr # k
    BY <1>3 DEF Inv, Held, TypedOwners
  <2>2. QED
    BY <1>1, <1>3, <2>1 DEF Inv, SameContext
<1>13. QED
  BY <1>8, <1>9, <1>10, <1>11, <1>12 DEF Inv

\* The thread reads, waits and calls handlers, and the owner's pointers stay.
LEMMA OthersInv ==
    ASSUME Inv, UNCHANGED <<ctx, state, socketVars, mon, lost, watch>>
    PROVE  Inv'
<1>1. UsedSockets' = UsedSockets
  BY DEF UsedSockets, socketVars
<1>2. QED
  BY <1>1, ContextsKept DEF Inv, TypedOwners, TypedMonitor, Numbered, Made, Held,
     SameContext, socketVars

\* Every step keeps the invariant.
LEMMA NextInv == Inv /\ [Next]_vars => Inv'
<1> SUFFICES ASSUME Inv, [Next]_vars PROVE Inv'
  OBVIOUS
<1> USE DEF contextVars
<1>1. CASE Owners /\ UNCHANGED <<mon, lost, eventVars, threadVars>>
  <2>1. UNCHANGED <<mon, lost, watch>>
    BY <1>1 DEF eventVars
  <2>2. ASSUME NEW c \in ContextObjects,
               \/ NewContext(c) \/ CloseContext(c)
               \/ \E rhs \in ContextObjects : SwapContexts(c, rhs)
               \/ CloseContextReturns(c) \/ CloseContextInterrupted(c)
        PROVE  Inv'
    BY <2>1, <2>2, ContextsInv
  <2>3. ASSUME NEW s \in SocketObjects, NEW c \in ContextObjects, NewSocket(s, c)
        PROVE  Inv'
    BY <2>1, <2>3, NewSocketInv
  <2>4. ASSUME NEW s \in SocketObjects, NEW rhs \in SocketObjects,
               MoveSocket(s, rhs) \/ AssignSocket(s, rhs)
        PROVE  Inv'
    BY <2>1, <2>4, MoveSocketInv
  <2>5. QED
    BY <1>1, <2>2, <2>3, <2>4 DEF Owners
<1>2. ASSUME NEW s \in SocketObjects, CloseMonitored(s) PROVE Inv'
  BY <1>2, CloseMonitoredInv
<1>3. ASSUME NEW s \in SocketObjects, MonitorInit(s) PROVE Inv'
  BY <1>3, InitWithoutPairInv, InitWithPairInv DEF MonitorInit
<1>4. CASE MonitorRelease \/ HandlerAborts \/ Unwind
  BY <1>4, ReleaseInv DEF MonitorRelease, HandlerAborts, Unwind
<1>5. CASE Start \/ Emit \/ PollAstray \/ PollInterrupted
  BY <1>5, OthersInv DEF Start, Emit, PollAstray, PollInterrupted, To, eventVars
<1>6. CASE PollThrows \/ PollReturns \/ ReadEvent \/ ReadAddress \/ ReadFails
           \/ EventErrs \/ AddressErrs \/ HandlerReturns
  BY <1>6, OthersInv DEF PollThrows, PollReturns, ReadEvent, ReadAddress, Handle,
     ReadFails, EventErrs, AddressErrs, HandlerReturns, To, eventVars
<1>7. CASE UNCHANGED vars
  BY <1>7, OthersInv DEF vars, eventVars
<1>8. QED
  BY <1>1, <1>2, <1>3, <1>4, <1>5, <1>6, <1>7 DEF Next, Thread

-----------------------------------------------------------------------------

\* What the objects hold of contexts and sockets, always: numbers without a
\* gap, pointers that lead to what was made, and one holder for every socket.
THEOREM HoldersCorrect == Spec => []Inv
<1>1. QED
  BY InitInv, NextInv, PTL DEF Spec

\* The context a socket_t remembers is the one of its socket, until it is
\* assigned to or from.
THEOREM ContextRemembered == Spec => []SameContext
<1>1. Inv => SameContext
  BY DEF Inv
<1>2. QED
  BY <1>1, HoldersCorrect, PTL

\* Each open socket that was not forgotten has one object that closes it, and
\* no object would close another a second time.
THEOREM ClosedByOne == Spec => []OneHolder
<1>1. ASSUME Inv PROVE OneHolder
  <2>1. SUFFICES ASSUME NEW k \in Sockets
        PROVE  IF k \in open \ lost THEN Cardinality(HoldersOf(k)) = 1
                                    ELSE HoldersOf(k) = {}
    BY DEF OneHolder
  <2>2. k # NULL
    BY DEF Sockets, NULL
  <2>3. CASE k \notin open \ lost
    BY <1>1, <2>2, <2>3 DEF HoldersOf, Inv, Held
  <2>4. CASE k \in open \ lost /\ k = mon.monitor_socket
    <3>1. HoldersOf(k) = {"monitor"}
      BY <1>1, <2>2, <2>4 DEF HoldersOf, Inv, Held
    <3>2. QED
      BY <2>4, <3>1, FS_Singleton
  <2>5. CASE k \in open \ lost /\ k # mon.monitor_socket
    <3>1. PICK s \in SocketObjects : sock[s].ptr = k
      BY <1>1, <2>5 DEF Inv, Held
    <3>2. HoldersOf(k) = {s}
      BY <1>1, <2>2, <2>5, <3>1 DEF HoldersOf, Inv, Held
    <3>3. QED
      BY <2>5, <3>2, FS_Singleton
  <2>6. QED
    BY <2>3, <2>4, <2>5
<1>2. QED
  BY <1>1, HoldersCorrect, PTL

-----------------------------------------------------------------------------
(* The order of events.  The frames the thread has taken and those in the    *)
(* PAIR are together the frames of the events sent so far, and maybe those   *)
(* of the end of monitoring: until a receive fails for another reason.       *)

Of(n, e) == IF n <= e THEN n ELSE Stopped

EventFrame(n)   == [kind |-> "event", of |-> n]
AddressFrame(n) == [kind |-> "address", of |-> n]

\* The frames of q follow the first t frames of a stream of e events.
Follow(q, t, e) ==
    \A i \in 1 .. Len(q), n \in Nat :
       /\ t + i = 2 * n - 1 => q[i] = EventFrame(Of(n, e))
       /\ t + i = 2 * n => q[i] = AddressFrame(Of(n, e))

Taken == 2 * Len(handled) + (IF pc = "address" THEN 1 ELSE 0)

Live == mon.monitor_socket # NULL /\ ~ Ending /\ errors = 0

TypedThread ==
    /\ errors \in Nat
    /\ queue \in Seq(Frame)
    /\ emitted \in 0 .. MaxEvents
    /\ event \in Nat
    /\ handled \in Seq(Nat \X Nat)

\* Without a PAIR the thread is not amid an event, and no socket but the one
\* the monitor_t knows of is heard.
Places ==
    /\ mon.monitor_socket = NULL => pc \notin {"event", "address"}
    /\ mon.monitor_socket = NULL => pc # "handle"
    /\ mon.monitor_socket # NULL => mon.socketPtr \in Sockets
    /\ \A k \in Sockets :
          watch[k] # NULL /\ watch[k] = mon.monitor_socket => k = mon.socketPtr

Aligned ==
    /\ Len(handled) <= emitted
    /\ \/ Len(queue) + Taken = 2 * emitted
       \/ Len(queue) + Taken = 2 * emitted + 2 /\ ~ Heard(mon.socketPtr)
    /\ Follow(queue, Taken, emitted)
    /\ pc = "event" => queue # << >>
    /\ pc = "address" => event = Of(Len(handled) + 1, emitted)

Told == /\ TypedThread /\ Places
        /\ Live => Aligned
        /\ HandledInOrder

\* What is left of a stream after its next frame follows one frame later.
LEMMA TailFollows ==
    ASSUME NEW q \in Seq(Frame), q # << >>, NEW t \in Nat, NEW e \in Nat,
           Follow(q, t, e)
    PROVE  Tail(q) \in Seq(Frame) /\ Len(Tail(q)) = Len(q) - 1 /\ Follow(Tail(q), t + 1, e)
<1>1. /\ Tail(q) \in Seq(Frame) /\ Len(Tail(q)) = Len(q) - 1 /\ Len(q) \in Nat
      /\ \A i \in 1 .. Len(Tail(q)) : Tail(q)[i] = q[i + 1]
  OBVIOUS
<1>2. ASSUME NEW i \in 1 .. Len(Tail(q)), NEW n \in Nat,
             NEW k \in {2 * n - 1, 2 * n}, t + 1 + i = k
      PROVE  Tail(q)[i] = IF k = 2 * n THEN AddressFrame(Of(n, e))
                                       ELSE EventFrame(Of(n, e))
  <2>1. i + 1 \in 1 .. Len(q) /\ t + (i + 1) = k
    BY <1>1, <1>2
  <2>2. q[i + 1] = IF k = 2 * n THEN AddressFrame(Of(n, e)) ELSE EventFrame(Of(n, e))
    BY <2>1 DEF Follow
  <2>3. QED
    BY <1>1, <2>2
<1>3. QED
  BY <1>1, <1>2 DEF Follow

\* The next event, or the end of monitoring, goes behind a complete stream.
LEMMA FramesFollow ==
    ASSUME NEW q \in Seq(Frame), NEW t \in Nat, NEW e \in Nat,
           Follow(q, t, e), Len(q) + t = 2 * e,
           NEW f \in Nat, NEW x \in Nat, Of(e + 1, f) = x,
           f = e \/ f = e + 1
    PROVE  /\ q \o Frames(x) \in Seq(Frame)
           /\ Len(q \o Frames(x)) = Len(q) + 2
           /\ Follow(q \o Frames(x), t, f)
<1> DEFINE g == Frames(x)
           r == q \o g
<1>1. /\ g \in Seq(Frame) /\ Len(g) = 2
      /\ g[1] = EventFrame(x) /\ g[2] = AddressFrame(x)
  BY DEF Frames, Frame, EventFrame, AddressFrame
<1> HIDE DEF g
<1>2. /\ r \in Seq(Frame) /\ Len(r) = Len(q) + Len(g)
      /\ \A i \in 1 .. Len(q) + Len(g) :
            r[i] = IF i <= Len(q) THEN q[i] ELSE g[i - Len(q)]
  BY <1>1, ConcatProperties
<1> HIDE DEF r
<1>3. /\ Len(q) \in Nat /\ Len(r) = Len(q) + 2
      /\ \A i \in 1 .. Len(q) : r[i] = q[i]
      /\ r[Len(q) + 1] = EventFrame(x) /\ r[Len(q) + 2] = AddressFrame(x)
  <2>1. Len(q) \in Nat /\ Len(r) = Len(q) + 2
    BY <1>1, <1>2
  <2>2. r[Len(q) + 1] = g[1] /\ r[Len(q) + 2] = g[2]
    BY <1>1, <1>2, <2>1
  <2>3. QED
    BY <1>1, <1>2, <2>1, <2>2
<1>4. ASSUME NEW i \in 1 .. Len(r), NEW n \in Nat,
             NEW k \in {2 * n - 1, 2 * n}, t + i = k
      PROVE  r[i] = IF k = 2 * n THEN AddressFrame(Of(n, f)) ELSE EventFrame(Of(n, f))
  <2>1. CASE i \in 1 .. Len(q)
    <3>1. r[i] = IF k = 2 * n THEN AddressFrame(Of(n, e)) ELSE EventFrame(Of(n, e))
      BY <1>3, <1>4, <2>1 DEF Follow
    <3>2. n <= e
      BY <1>3, <1>4, <2>1
    <3>3. Of(n, e) = Of(n, f)
      BY <3>2 DEF Of
    <3>4. QED
      BY <3>1, <3>3
  <2>2. CASE i \notin 1 .. Len(q)
    <3>1. i = Len(q) + 1 \/ i = Len(q) + 2
      BY <1>3, <1>4, <2>2, SMTT(60)
    <3>2. n = e + 1 /\ (k = 2 * n <=> i = Len(q) + 2)
      BY <1>3, <1>4, <3>1
    <3>3. QED
      BY <1>3, <3>1, <3>2
  <2>3. QED
    BY <2>1, <2>2
<1>5. QED
  BY <1>2, <1>3, <1>4 DEF Follow, r, g

\* At the start nothing was sent.
LEMMA InitTold == Init => Told
<1> SUFFICES ASSUME Init PROVE Told
  OBVIOUS
<1>1. TypedThread
  BY EventsAssumption DEF Init, TypedThread
<1>2. Places
  BY DEF Init, Places, Nothing, NULL
<1>3. ~ Live /\ HandledInOrder
  BY DEF Init, Live, Nothing, HandledInOrder
<1>4. QED
  BY <1>1, <1>2, <1>3 DEF Told

\* Without a PAIR nothing more is handed on.
LEMMA WithoutPairTold ==
    ASSUME TypedThread', Places', HandledInOrder', mon'.monitor_socket = NULL
    PROVE  Told'
BY DEF Told, Live

\* A context that ends goes on ending while the PAIR is open in it.
LEMMA EndingStays ==
    ASSUME Inv, mon.monitor_socket # NULL, Ending, Owners, UNCHANGED mon
    PROVE  Ending'
<1> DEFINE p == mon.monitor_socket
           i == context[p]
<1>1. /\ p \in open /\ p \in Sockets /\ i \in Contexts /\ i # NULL
      /\ state[i] = "ending"
      /\ state \in [Contexts -> {"unused", "open", "ending", "gone"}]
      /\ context \in [Sockets -> CtxPtr]
  BY DEF Inv, Held, Made, UsedSockets, TypedOwners, Ending, CtxPtr, Contexts, NULL
<1>2. SUFFICES context'[p] = i /\ state'[i] = "ending"
  BY DEF Ending
<1> HIDE DEF i, p
<1>3. ASSUME NEW c \in ContextObjects, NewContext(c)
      PROVE  context'[p] = i /\ state'[i] = "ending"
  <2>1. PICK j \in Contexts : /\ j = Next_(UsedContexts)
                              /\ state' = [state EXCEPT ![j] = "open"]
    BY <1>3 DEF NewContext, UsedContexts
  <2>2. PICK n \in Nat : UsedContexts = 1 .. n
    BY DEF Inv, Numbered
  <2>3. j \notin UsedContexts
    BY <2>1, <2>2, NextIsNew
  <2>4. i # j
    BY <1>1, <2>3 DEF UsedContexts
  <2>5. context' = context
    BY <1>3 DEF NewContext, socketVars
  <2>6. QED
    BY <1>1, <2>1, <2>4, <2>5 DEF i
<1>4. ASSUME NEW c \in ContextObjects, NEW rhs \in ContextObjects,
             \/ CloseContext(c) \/ SwapContexts(c, rhs)
             \/ CloseContextInterrupted(c)
      PROVE  context'[p] = i /\ state'[i] = "ending"
  BY <1>1, <1>4 DEF CloseContext, SwapContexts, CloseContextInterrupted, socketVars, i
<1>5. ASSUME NEW c \in ContextObjects, CloseContextReturns(c)
      PROVE  context'[p] = i /\ state'[i] = "ending"
  <2>1. ctx[c] # i
    BY <1>1, <1>5 DEF CloseContextReturns, SocketsOf, i
  <2>2. QED
    BY <1>1, <1>5, <2>1 DEF CloseContextReturns, socketVars, i
<1>6. ASSUME NEW s \in SocketObjects, NEW c \in ContextObjects, NewSocket(s, c)
      PROVE  context'[p] = i /\ state'[i] = "ending"
  <2>1. state' = state
    BY <1>6 DEF NewSocket, contextVars
  <2>2. PICK k \in Sockets : MakesSocket(ctx[c], k)
    BY <1>6 DEF NewSocket
  <2>3. ctx[c] \in CtxPtr
    BY DEF Inv, TypedOwners
  <2>4. k # p /\ \A j \in Sockets : context'[j] = IF j = k THEN ctx[c] ELSE context[j]
    BY <2>2, <2>3, SocketIsNew DEF p
  <2>5. QED
    BY <1>1, <2>1, <2>4 DEF i
<1>7. ASSUME NEW s \in SocketObjects, NEW rhs \in SocketObjects,
             MoveSocket(s, rhs) \/ AssignSocket(s, rhs)
      PROVE  context'[p] = i /\ state'[i] = "ending"
  BY <1>1, <1>7 DEF MoveSocket, AssignSocket, contextVars, i
<1>8. QED
  BY <1>3, <1>4, <1>5, <1>6, <1>7 DEF Owners

\* A step that moves no frame of an event.
LEMMA QuietTold ==
    ASSUME Told, UNCHANGED <<mon, watch, queue, emitted, event, errors, handled>>,
           Live' => Live, Places',
           Live' => (pc' = "address" <=> pc = "address"),
           Live' /\ pc' = "event" => queue # << >>
    PROVE  Told'
<1>1. TypedThread' /\ HandledInOrder'
  BY DEF Told, TypedThread, HandledInOrder
<1>2. ASSUME Live' PROVE Aligned'
  <2>1. Aligned /\ Taken' = Taken /\ (pc' = "address" <=> pc = "address")
    BY <1>2 DEF Told, Taken
  <2>2. Heard(mon.socketPtr)' <=> Heard(mon.socketPtr)
    BY DEF Heard
  <2>3. Follow(queue, Taken, emitted)'
    BY <2>1 DEF Aligned, Follow
  <2>4. QED
    BY <1>2, <2>1, <2>2, <2>3 DEF Aligned
<1>3. QED
  BY <1>1, <1>2 DEF Told

\* Steps of the owner that are none of the monitor_t's.
LEMMA OwnersTold ==
    ASSUME Inv, Told, Owners, UNCHANGED <<mon, lost, eventVars, threadVars>>
    PROVE  Told'
<1>1. UNCHANGED <<mon, watch, queue, emitted, event, errors, handled, pc>>
  BY DEF eventVars, threadVars
<1>2. Places'
  BY <1>1 DEF Told, Places
<1>3. Live' => Live
  BY <1>1, EndingStays DEF Live
<1>4. Live /\ pc = "event" => queue # << >>
  BY DEF Told, Aligned
<1>5. QED
  BY <1>1, <1>2, <1>3, <1>4, QuietTold

\* Closing the monitored socket puts the end of monitoring behind its events.
LEMMA CloseTold ==
    ASSUME Inv, Told, NEW s \in SocketObjects, CloseMonitored(s)
    PROVE  Told'
<1> DEFINE j == sock[s].ptr
<1>1. /\ UNCHANGED <<state, context, mon, emitted, event, errors, handled, pc>>
      /\ queue' = WithStop(j)
      /\ watch' = [watch EXCEPT ![j] = NULL]
  BY DEF CloseMonitored, CloseSocket, threadVars, contextVars
<1>2. /\ j \in Sockets /\ watch \in [Sockets -> Ptr]
      /\ \A k \in Sockets : watch'[k] = IF k = j THEN NULL ELSE watch[k]
  BY <1>1 DEF Inv, Held, TypedOwners, TypedMonitor, CloseMonitored, CloseSocket
<1>3. /\ TypedThread /\ Places /\ HandledInOrder
      /\ Stopped = MaxEvents + 1 /\ Stopped \in Nat
      /\ emitted \in Nat /\ emitted <= MaxEvents
  BY EventsAssumption DEF Told, TypedThread, Stopped
<1> HIDE DEF j
<1>4. Places' /\ HandledInOrder'
  BY <1>1, <1>2, <1>3 DEF Places, HandledInOrder
<1>5. Live' = Live /\ Taken' = Taken
  BY <1>1 DEF Live, Ending, Taken
<1>6. CASE ~ Heard(j)
  <2>1. queue' = queue
    BY <1>1, <1>6 DEF WithStop
  <2>2. TypedThread'
    BY <1>1, <1>3, <2>1 DEF TypedThread
  <2>3. ASSUME Live PROVE Aligned'
    <3>1. Aligned /\ mon.socketPtr \in Sockets
      BY <1>3, <2>3 DEF Told, Places, Live
    <3>2. ~ Heard(mon.socketPtr) => ~ Heard(mon.socketPtr)'
      BY <1>1, <1>2, <3>1 DEF Heard
    <3>3. QED
      BY <1>1, <1>5, <2>1, <3>1, <3>2 DEF Aligned, Follow
  <2>4. QED
    BY <1>4, <1>5, <2>2, <2>3 DEF Told
<1>7. CASE Heard(j)
  <2>1. queue' = queue \o Frames(Stopped) /\ j = mon.socketPtr
    BY <1>1, <1>2, <1>3, <1>7 DEF WithStop, Heard, Places
  <2>2. Frames(Stopped) \in Seq(Frame)
    BY <1>3 DEF Frames, Frame
  <2>3. TypedThread'
    BY <1>1, <1>3, <2>1, <2>2, ConcatProperties DEF TypedThread
  <2>4. ASSUME Live PROVE Aligned'
    <3>1. Aligned /\ Len(queue) + Taken = 2 * emitted
      BY <1>7, <2>1, <2>4 DEF Told, Aligned
    <3>2. Of(emitted + 1, emitted) = Stopped
      BY <1>3 DEF Of
    <3>3. queue \in Seq(Frame) /\ Taken \in Nat /\ Follow(queue, Taken, emitted)
      BY <1>3, <3>1 DEF TypedThread, Taken, Aligned
    <3>4. Len(queue') = Len(queue) + 2 /\ Follow(queue', Taken, emitted)
      BY <1>3, <2>1, <3>1, <3>2, <3>3, FramesFollow
    <3>5. queue' # << >> /\ Len(queue') + Taken = 2 * emitted + 2
      BY <1>3, <3>1, <3>3, <3>4
    <3>6. ~ Heard(mon.socketPtr)'
      BY <1>1, <1>2, <2>1 DEF Heard
    <3>7. QED
      BY <1>1, <1>5, <3>1, <3>4, <3>5, <3>6 DEF Aligned
  <2>5. QED
    BY <1>4, <1>5, <2>3, <2>4 DEF Told
<1>8. QED
  BY <1>6, <1>7

\* init() begins a stream with a new PAIR, or has none.
LEMMA MonitorInitTold ==
    ASSUME Inv, Told, NEW s \in SocketObjects, MonitorInit(s)
    PROVE  Told'
<1>1. /\ queue' = << >> /\ handled' = << >> /\ emitted' = 0 /\ errors' = 0
      /\ pc' = "off" /\ event' = event /\ sock[s].ptr # NULL
  BY DEF MonitorInit, OwnerHas
<1>2. TypedThread' /\ HandledInOrder'
  BY <1>1, EventsAssumption DEF Told, TypedThread, HandledInOrder
<1>3. sock[s].ptr \in Sockets /\ watch \in [Sockets -> Ptr]
  BY <1>1 DEF Inv, Held, TypedOwners, TypedMonitor
<1>4. CASE mon'.monitor_socket = NULL
  <2>1. Places'
    BY <1>1, <1>4 DEF Places
  <2>2. QED
    BY <1>2, <1>4, <2>1, WithoutPairTold
<1>5. CASE mon'.monitor_socket # NULL
  <2>1. PICK k \in Sockets :
           /\ MakesSocket(sock[s].ctxptr, k)
           /\ mon' = [socketPtr |-> sock[s].ptr, monitor_socket |-> k]
           /\ watch' = [watch EXCEPT ![sock[s].ptr] =
                           IF context[sock[s].ptr] = sock[s].ctxptr
                           THEN k ELSE NULL]
    BY <1>5 DEF MonitorInit
  <2>2. sock[s].ctxptr \in CtxPtr
    BY DEF Inv, TypedOwners
  <2>3. \A i \in Sockets : watch[i] # k
    BY <2>1, <2>2, SocketIsNew
  <2>4. Places'
    BY <1>1, <1>3, <1>5, <2>1, <2>3 DEF Places
  <2>5. Taken' = 0 /\ Len(queue') = 0
    BY <1>1 DEF Taken
  <2>6. Aligned'
    BY <1>1, <2>5 DEF Aligned, Follow
  <2>7. QED
    BY <1>2, <2>4, <2>6 DEF Told
<1>6. QED
  BY <1>4, <1>5

\* After the PAIR was closed nothing is handed on.
LEMMA ReleaseTold ==
    ASSUME Inv, Told, MonitorRelease \/ HandlerAborts \/ Unwind
    PROVE  Told'
<1>1. /\ queue' = << >> /\ mon' = Nothing
      /\ UNCHANGED <<handled, emitted, event, errors>> /\ pc' \in {"off", "poll"}
  BY DEF MonitorRelease, HandlerAborts, Unwind, Release, OwnerHas, threadVars
<1>2. TypedThread' /\ HandledInOrder'
  BY <1>1 DEF Told, TypedThread, HandledInOrder
<1>3. mon'.monitor_socket = NULL /\ mon'.socketPtr = NULL
  BY <1>1 DEF Nothing
<1>4. Places'
  BY <1>1, <1>3 DEF Places
<1>5. QED
  BY <1>2, <1>3, <1>4, WithoutPairTold

\* The steps of the thread between events.
LEMMA ThreadTold ==
    ASSUME Told,
           \/ Start \/ PollAstray \/ PollThrows \/ PollInterrupted \/ PollReturns
           \/ ReadFails \/ HandlerReturns
    PROVE  Told'
<1>1. /\ UNCHANGED <<mon, watch, queue, emitted, event, errors, handled>>
      /\ Live' = Live
  BY DEF Start, PollAstray, PollThrows, PollInterrupted, PollReturns, ReadFails,
     HandlerReturns, To, eventVars, contextVars, socketVars, Live, Ending
<1>2. CASE Start \/ PollAstray \/ PollInterrupted \/ HandlerReturns
  <2>1. /\ pc' \in {"poll", "astray", "thrown"}
        /\ pc \in {"off", "poll", "astray", "handle"}
    BY <1>2 DEF Start, OwnerHas, PollAstray, PollInterrupted, HandlerReturns, To
  <2>2. Places'
    BY <1>1, <2>1 DEF Told, Places
  <2>3. QED
    BY <1>1, <2>1, <2>2, QuietTold
<1>3. CASE PollThrows \/ ReadFails
  <2>1. pc' \in {"thrown", "poll"} /\ ~ Live
    BY <1>3 DEF PollThrows, ReadFails, To, Live
  <2>2. Places'
    BY <1>1, <2>1 DEF Told, Places
  <2>3. QED
    BY <1>1, <2>1, <2>2, QuietTold
<1>4. CASE PollReturns
  <2>1. pc = "poll" /\ pc' = "event" /\ queue # << >> /\ mon.monitor_socket # NULL
    BY <1>4 DEF PollReturns, To
  <2>2. Places'
    BY <1>1, <2>1 DEF Told, Places
  <2>3. QED
    BY <1>1, <2>1, <2>2, QuietTold
<1>5. QED
  BY <1>2, <1>3, <1>4

\* The first frame is the one of the next event.
LEMMA ReadEventTold ==
    ASSUME Told, ReadEvent, errors = 0
    PROVE  Told'
<1>1. /\ pc = "event" /\ pc' = "address" /\ queue' = Tail(queue)
      /\ event' \in NumbersIn(Head(queue)) /\ Live /\ Live' = Live
      /\ UNCHANGED <<mon, watch, emitted, handled, errors>>
  BY DEF ReadEvent, Receive, To, Told, Places, Live, Ending, contextVars, socketVars
<1>2. /\ TypedThread /\ Places /\ HandledInOrder /\ Aligned /\ queue # << >>
      /\ Len(handled) \in Nat /\ emitted \in Nat
  BY <1>1 DEF Told, Aligned, TypedThread
<1>3. Taken = 2 * Len(handled) /\ Taken' = Taken + 1 /\ Taken \in Nat
  BY <1>1, <1>2 DEF Taken
<1>4. /\ queue' \in Seq(Frame) /\ Len(queue') = Len(queue) - 1
      /\ Follow(queue', Taken + 1, emitted)
  BY <1>1, <1>2, <1>3, TailFollows DEF TypedThread, Aligned
<1>5. Len(queue) \in Nat \ {0} /\ Head(queue) = queue[1] /\ queue[1] \in Frame
  BY <1>2 DEF TypedThread
<1>6. event' = Of(Len(handled) + 1, emitted) /\ event' \in Nat
  <2>1. /\ 1 \in 1 .. Len(queue) /\ Len(handled) + 1 \in Nat
        /\ Taken + 1 = 2 * (Len(handled) + 1) - 1
    BY <1>2, <1>3, <1>5
  <2>2. queue[1] = EventFrame(Of(Len(handled) + 1, emitted))
    BY <1>2, <2>1 DEF Aligned, Follow
  <2>3. QED
    BY <1>1, <1>5, <2>2 DEF Frame, NumbersIn, EventFrame
<1>7. TypedThread' /\ Places' /\ HandledInOrder'
  BY <1>1, <1>2, <1>4, <1>6 DEF TypedThread, Places, HandledInOrder
<1>8. Heard(mon.socketPtr)' = Heard(mon.socketPtr)
  BY <1>1 DEF Heard
<1>9. \/ Len(queue') + Taken' = 2 * emitted'
      \/ Len(queue') + Taken' = 2 * emitted' + 2 /\ ~ Heard(mon.socketPtr)'
  BY <1>1, <1>2, <1>3, <1>4, <1>5, <1>8, SMTT(60) DEF Aligned
<1>10. Aligned'
  BY <1>1, <1>2, <1>3, <1>4, <1>6, <1>9 DEF Aligned
<1>11. QED
  BY <1>7, <1>10 DEF Told

\* Counting frames: one is left after the event frame of the end of monitoring.
LEMMA OneIsLeft ==
    ASSUME NEW h \in Nat, NEW e \in Nat, NEW t \in Nat, NEW q \in Nat \ {0},
           t = 2 * h + 1, h = e, q + t = 2 * e \/ q + t = 2 * e + 2
    PROVE  q = 1
OBVIOUS

\* An event whose first frame was taken is handed on with one frame more.
LEMMA OneMoreTaken ==
    ASSUME NEW h \in Nat, NEW t \in Nat, t = 2 * h + 1
    PROVE  2 * (h + 1) = t + 1
OBVIOUS

\* An event is two frames.
LEMMA TwoMoreSent ==
    ASSUME NEW e \in Nat, NEW t \in Nat, NEW q \in Nat, q + t = 2 * e
    PROVE  (q + 2) + t = 2 * (e + 1) /\ q + 2 # 0
OBVIOUS

\* The second frame is the address of the same event.
LEMMA ReadAddressTold ==
    ASSUME Told, ReadAddress, errors = 0
    PROVE  Told'
<1> DEFINE n == Len(handled) + 1
<1>1. /\ pc = "address" /\ pc' \in {"poll", "handle"} /\ queue' = Tail(queue)
      /\ Live /\ Live' = Live
      /\ UNCHANGED <<mon, watch, emitted, event, errors>>
  BY DEF ReadAddress, Receive, Handle, To, Told, Places, Live, Ending,
     contextVars, socketVars
<1>2. /\ TypedThread /\ Places /\ HandledInOrder /\ Aligned
      /\ Len(handled) \in Nat /\ emitted \in Nat /\ emitted <= MaxEvents
      /\ MaxEvents \in Nat /\ event = Of(n, emitted)
  BY <1>1, EventsAssumption DEF Told, Aligned, TypedThread
<1>3. Taken = 2 * Len(handled) + 1 /\ Taken \in Nat
  BY <1>1, <1>2 DEF Taken
<1>4. Len(queue) \in Nat \ {0}
  BY <1>2, <1>3 DEF Aligned, TypedThread
<1>5. /\ queue # << >> /\ Head(queue) = queue[1] /\ queue[1] \in Frame
  BY <1>2, <1>4 DEF TypedThread
<1>6. /\ queue' \in Seq(Frame) /\ Len(queue') = Len(queue) - 1
      /\ Follow(queue', Taken + 1, emitted)
  BY <1>1, <1>2, <1>3, <1>5, TailFollows DEF TypedThread, Aligned
<1>7. AddressIn(Head(queue)) = Of(n, emitted)
  <2>1. 1 \in 1 .. Len(queue) /\ n \in Nat /\ Taken + 1 = 2 * n
    BY <1>2, <1>3, <1>4
  <2>2. queue[1] = AddressFrame(Of(n, emitted))
    BY <1>2, <2>1 DEF Aligned, Follow
  <2>3. QED
    BY <1>5, <2>2 DEF AddressIn, AddressFrame
<1>8. Places' /\ Heard(mon.socketPtr)' = Heard(mon.socketPtr)
  BY <1>1, <1>2 DEF Places, Heard, Live
<1>9. CASE event = Stopped
  <2>1. handled' = handled /\ Taken' = 2 * Len(handled)
    BY <1>1, <1>9 DEF ReadAddress, Handle, Taken
  <2>2. Len(handled) = emitted
    BY <1>2, <1>9 DEF Of, Stopped, Aligned
  <2>3. Len(queue) = 1
    <3>1. \/ Len(queue) + Taken = 2 * emitted
          \/ Len(queue) + Taken = 2 * emitted + 2
      BY <1>2 DEF Aligned
    <3>2. QED
      BY <1>2, <1>3, <1>4, <2>2, <3>1, OneIsLeft
  <2>4. Len(queue') + Taken' = 2 * emitted'
    BY <1>1, <1>2, <1>6, <2>1, <2>2, <2>3
  <2>5. Len(queue') = 0
    BY <1>6, <2>3
  <2>6. Follow(queue', Taken', emitted')
    BY <2>5 DEF Follow
  <2>7. Aligned'
    BY <1>1, <1>2, <2>1, <2>2, <2>4, <2>6 DEF Aligned
  <2>8. TypedThread' /\ HandledInOrder'
    BY <1>1, <1>2, <1>6, <2>1 DEF TypedThread, HandledInOrder
  <2>9. QED
    BY <1>8, <2>7, <2>8 DEF Told
<1>10. CASE event # Stopped
  <2>1. event = n /\ AddressIn(Head(queue)) = n /\ n <= emitted /\ n \in Nat
    BY <1>2, <1>7, <1>10 DEF Of
  <2>2. handled' = Append(handled, <<n, n>>) /\ <<n, n>> \in Nat \X Nat
    BY <1>10, <2>1 DEF ReadAddress, Handle
  <2>3. /\ handled' \in Seq(Nat \X Nat) /\ Len(handled') = n
        /\ \A i \in 1 .. Len(handled) : handled'[i] = handled[i]
        /\ handled'[n] = <<n, n>>
    BY <1>2, <2>2 DEF TypedThread
  <2> HIDE DEF n
  <2>4. n = Len(handled) + 1
    BY DEF n
  <2>5. TypedThread' /\ HandledInOrder'
    <3>1. TypedThread'
      BY <1>1, <1>2, <1>6, <2>3 DEF TypedThread
    <3>2. ASSUME NEW i \in 1 .. Len(handled') PROVE handled'[i] = <<i, i>>
      <4>1. CASE i = n
        BY <2>3, <4>1
      <4>2. CASE i # n
        <5>1. i \in 1 .. Len(handled)
          BY <1>2, <2>3, <2>4, <4>2
        <5>2. QED
          BY <1>2, <2>3, <5>1 DEF HandledInOrder
      <4>3. QED
        BY <4>1, <4>2
    <3>3. QED
      BY <3>1, <3>2 DEF HandledInOrder
  <2>6. Taken' = Taken + 1
    <3>1. Taken' = 2 * Len(handled') + 0
      BY <1>1 DEF Taken
    <3>2. Len(handled') = Len(handled) + 1
      BY <2>3, <2>4
    <3>3. 2 * (Len(handled) + 1) = Taken + 1
      BY <1>2, <1>3, OneMoreTaken
    <3>4. 2 * (Len(handled) + 1) \in Nat
      BY <1>2
    <3>5. QED
      BY <3>1, <3>2, <3>3, <3>4
  <2>7. \/ Len(queue') + Taken' = 2 * emitted'
        \/ Len(queue') + Taken' = 2 * emitted' + 2 /\ ~ Heard(mon.socketPtr)'
    BY <1>1, <1>2, <1>3, <1>4, <1>6, <1>8, <2>6, SMTT(60) DEF Aligned
  <2>8. Aligned'
    BY <1>1, <1>6, <2>1, <2>3, <2>6, <2>7 DEF Aligned
  <2>9. QED
    BY <1>8, <2>5, <2>8 DEF Told
<1>11. QED
  BY <1>9, <1>10

\* An event is sent behind those that were sent.
LEMMA EmitTold ==
    ASSUME Told, Emit, errors = 0
    PROVE  Told'
<1>1. /\ Live /\ Live' = Live /\ Heard(mon.socketPtr)
      /\ emitted' = emitted + 1 /\ emitted < MaxEvents
      /\ queue' = queue \o Frames(emitted + 1)
      /\ UNCHANGED <<mon, watch, event, errors, handled, pc>>
  BY DEF Emit, Live, Ending, threadVars, contextVars, socketVars
<1>2. /\ TypedThread /\ Places /\ HandledInOrder /\ Aligned
      /\ Len(handled) \in Nat /\ emitted \in Nat
      /\ MaxEvents \in Nat
  BY <1>1, EventsAssumption DEF Told, TypedThread
<1>3. Taken \in Nat /\ Taken' = Taken /\ 2 * Len(handled) <= Taken
      /\ (pc = "address" => Taken = 2 * Len(handled) + 1)
  BY <1>1, <1>2 DEF Taken
<1>4. queue \in Seq(Frame) /\ Len(queue) \in Nat
      /\ Len(queue) + Taken = 2 * emitted /\ Follow(queue, Taken, emitted)
  BY <1>1, <1>2 DEF Aligned, TypedThread
<1>5. Of(emitted + 1, emitted + 1) = emitted + 1 /\ emitted + 1 \in Nat
  BY <1>2 DEF Of
<1>6. /\ queue' \in Seq(Frame) /\ Len(queue') = Len(queue) + 2
      /\ Follow(queue', Taken, emitted')
  BY <1>1, <1>2, <1>3, <1>4, <1>5, FramesFollow
<1>7. TypedThread' /\ Places' /\ HandledInOrder'
  BY <1>1, <1>2, <1>6 DEF TypedThread, Places, HandledInOrder
<1>8. pc' = "address" => event' = Of(Len(handled') + 1, emitted')
  <2>1. pc = "address" => Len(handled) + 1 <= emitted
    BY <1>2, <1>3, <1>4
  <2>2. QED
    BY <1>1, <1>2, <2>1 DEF Aligned, Of
<1>9. queue' # << >> /\ Len(queue') + Taken' = 2 * emitted'
  <2>1. (Len(queue) + 2) + Taken = 2 * (emitted + 1) /\ Len(queue) + 2 # 0
    BY <1>2, <1>3, <1>4, TwoMoreSent
  <2>2. Len(queue') + Taken' = 2 * emitted' /\ Len(queue') # 0
    BY <1>1, <1>3, <1>6, <2>1
  <2>3. QED
    BY <2>2
<1>10. Aligned'
  BY <1>1, <1>2, <1>3, <1>6, <1>8, <1>9 DEF Aligned
<1>11. QED
  BY <1>7, <1>10 DEF Told

\* Handlers are given an event and an address.
LEMMA HandledTyped ==
    ASSUME NEW h \in Seq(Nat \X Nat), NEW n \in Nat, NEW a \in Nat
    PROVE  Append(h, <<n, a>>) \in Seq(Nat \X Nat)
<1> DEFINE x == <<n, a>>
<1>1. x \in Nat \X Nat
  OBVIOUS
<1> HIDE DEF x
<1>2. Append(h, x) \in Seq(Nat \X Nat)
  BY <1>1, AppendProperties
<1>3. QED
  BY <1>2 DEF x

\* Once a receive has failed for another reason than the end of the context,
\* nothing is said of the order, only of the types and of who has a PAIR.
LEMMA ErredTold ==
    ASSUME Told, \/ (ReadEvent \/ ReadAddress \/ Emit) /\ errors # 0
                 \/ EventErrs \/ AddressErrs
    PROVE  Told'
<1>1. TypedThread /\ Places /\ Stopped \in Nat /\ Numbers \subseteq Nat
      /\ MaxEvents \in Nat
  BY EventsAssumption DEF Told, Stopped, Numbers
<1>2. errors' \in Nat \ {0}
  BY <1>1 DEF TypedThread, ReadEvent, ReadAddress, Emit, threadVars, EventErrs,
     AddressErrs
<1>3. queue' \in Seq(Frame) /\ event' \in Nat /\ emitted' \in 0 .. MaxEvents
      /\ handled' \in Seq(Nat \X Nat)
  <2>1. CASE ReadEvent \/ ReadAddress
    <3>1. queue # << >> /\ queue' = Tail(queue) /\ emitted' = emitted
      BY <2>1 DEF ReadEvent, ReadAddress, Receive
    <3>2. queue' \in Seq(Frame) /\ Head(queue) \in Frame
      BY <1>1, <3>1 DEF TypedThread
    <3>3. NumbersIn(Head(queue)) \subseteq Nat /\ AddressIn(Head(queue)) \in Nat
      BY <1>1, <3>2 DEF NumbersIn, AddressIn, Frame
    <3>4. event' \in Nat
      BY <1>1, <2>1, <3>3 DEF TypedThread, ReadEvent, ReadAddress
    <3>5. handled' \in Seq(Nat \X Nat)
      <4>1. \/ handled' = handled
            \/ handled' = Append(handled, <<event, AddressIn(Head(queue))>>)
        BY <2>1 DEF ReadEvent, ReadAddress, Handle
      <4>2. QED
        BY <1>1, <3>3, <4>1, HandledTyped DEF TypedThread
    <3>6. QED
      BY <1>1, <3>1, <3>2, <3>4, <3>5 DEF TypedThread
  <2>2. CASE Emit
    <3>1. emitted' = emitted + 1 /\ emitted < MaxEvents
          /\ queue' = queue \o Frames(emitted') /\ UNCHANGED <<event, handled>>
      BY <2>2 DEF Emit, threadVars
    <3>2. emitted' \in 0 .. MaxEvents
      BY <1>1, <3>1 DEF TypedThread
    <3>3. Frames(emitted') \in Seq(Frame)
      BY <3>2 DEF Frames, Frame
    <3>4. queue' \in Seq(Frame)
      BY <1>1, <3>1, <3>3, ConcatProperties DEF TypedThread
    <3>5. QED
      BY <1>1, <3>1, <3>2, <3>4 DEF TypedThread
  <2>3. CASE EventErrs \/ AddressErrs
    <3>1. /\ UNCHANGED <<queue, emitted>> /\ event' \in Nat
          /\ handled' = handled \/ handled' = Append(handled, <<event, 0>>)
      BY <1>1, <2>3 DEF TypedThread, EventErrs, AddressErrs, Handle, eventVars
    <3>2. QED
      BY <1>1, <3>1, HandledTyped DEF TypedThread
  <2>4. QED
    BY <2>1, <2>2, <2>3
<1>4. Places'
  <2>1. UNCHANGED <<mon, watch>> /\ (mon.monitor_socket = NULL => pc' = pc)
    BY <1>1 DEF Places, ReadEvent, ReadAddress, Handle, To, Emit, threadVars,
       EventErrs, AddressErrs, eventVars
  <2>2. QED
    BY <1>1, <2>1 DEF Places
<1>5. HandledInOrder' /\ ~ Live'
  BY <1>2 DEF HandledInOrder, Live
<1>6. QED
  BY <1>2, <1>3, <1>4, <1>5 DEF Told, TypedThread

\* Every step keeps the frames and the events in line.
LEMMA NextTold == Inv /\ Told /\ [Next]_vars => Told'
<1> SUFFICES ASSUME Inv, Told, [Next]_vars PROVE Told'
  OBVIOUS
<1>1. CASE Owners /\ UNCHANGED <<mon, lost, eventVars, threadVars>>
  BY <1>1, OwnersTold
<1>2. ASSUME NEW s \in SocketObjects, CloseMonitored(s) \/ MonitorInit(s)
      PROVE  Told'
  BY <1>2, CloseTold, MonitorInitTold
<1>3. CASE MonitorRelease \/ HandlerAborts \/ Unwind
  BY <1>3, ReleaseTold
<1>4. CASE Start \/ PollAstray \/ PollThrows \/ PollInterrupted \/ PollReturns
           \/ ReadFails \/ HandlerReturns
  BY <1>4, ThreadTold
<1>5. CASE ReadEvent \/ ReadAddress \/ Emit \/ EventErrs \/ AddressErrs
  BY <1>5, ReadEventTold, ReadAddressTold, EmitTold, ErredTold DEF EventErrs, AddressErrs
<1>6. CASE UNCHANGED vars
  <2>1. UNCHANGED <<mon, watch, queue, emitted, event, errors, handled, pc>>
        /\ Live' = Live
    BY <1>6 DEF vars, eventVars, threadVars, contextVars, socketVars, Live, Ending
  <2>2. Places'
    BY <2>1 DEF Told, Places
  <2>3. Live /\ pc = "event" => queue # << >>
    BY DEF Told, Aligned
  <2>4. QED
    BY <2>1, <2>2, <2>3, QuietTold
<1>7. QED
  BY <1>1, <1>2, <1>3, <1>4, <1>5, <1>6 DEF Next, Thread

\* Handlers are called with the events in their order, each once and with its
\* own address, and never for the end of monitoring: for any number of events,
\* wherever the socket is closed, the context ends or a handler aborts, until a
\* receive fails for another reason.
THEOREM EventsInOrder == Spec => []HandledInOrder
<1>1. Told => HandledInOrder
  BY DEF Told
<1>2. QED
  BY <1>1, InitTold, NextTold, HoldersCorrect, PTL DEF Spec
=============================================================================
