SPECIFICATION Spec
CONSTANTS
 HEARTBEAT_INTERVAL=2
 HEARTBEAT_LIVENESS=3
 w=w
 Wrap=9
 PassTime=1
 BeatTime=2
 Backlog=3
 Starts={0, 1, 12, 13}
 MaxTime=28
INVARIANTS RoundsKeepUp LeavesInTime SteadyStays
PROPERTIES RoundsApart StaysLifetime
