SPECIFICATION FairSpec
CONSTANTS
 Ids={w1, w2, w3}
 w1=w1
 w2=w2
 w3=w3
 MaxClock=2
 HEARTBEAT_INTERVAL=1
 HEARTBEAT_LIVENESS=1
INVARIANTS TypeOK NoDuplicates NothingSkipped
PROPERTIES CallsReturn ImplementsPool
