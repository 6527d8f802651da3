SPECIFICATION Spec
CONSTANTS
 w1=w1 
 w2=w2 
 c1=c1 
 c2=c2 
 r1=r1 
 r2=r2
 HEARTBEAT_INTERVAL=1
 HEARTBEAT_LIVENESS=1
 Workers={w1}
 Clients={c1, c2}
 ReqClients={c1}
 Requests={r1, r2}
 Owner <- TwoClients
 HWM=1
 MaxClock=3
 ClockMayStep=TRUE
INVARIANTS RightClient FreshReceiveNeverBlocks RefusalMeansStaleFlag
