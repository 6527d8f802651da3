SPECIFICATION Spec
CONSTANTS
 ContextObjects={c1, c2}
 SocketObjects={s1}
 MaxContexts=2
 MaxSockets=3
 MaxEvents=2
 MaxErrors=1
INVARIANT HandledInOrder
PROPERTY ContextCloses
