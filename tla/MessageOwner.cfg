SPECIFICATION Spec
CONSTANTS
 Objects={o1, o2, o3}
 Transit={p1, p2}
 Contents={b1, b2, b3}
 Absent=Absent
 Closed=Closed
 Inline=Inline
INVARIANTS FreedOnce SharedOnlyByCopy
PROPERTY ClosedForGood
