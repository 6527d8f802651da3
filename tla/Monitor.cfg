SPECIFICATION Spec
CONSTANTS
 ContextObjects={c1, c2}
 SocketObjects={s1, s2}
 MaxContexts=2
 MaxSockets=3
 MaxEvents=1
 MaxErrors=0
INVARIANTS OneHolder SameContext
