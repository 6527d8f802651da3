SPECIFICATION FairSpec
CONSTANTS
 MaxFrames=3
 MaxCopies=2
 HWM=1
 MaxSends=1
INVARIANTS ConcatenatesInOrder OneOwner
PROPERTY CallsReturn
