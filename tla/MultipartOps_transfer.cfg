SPECIFICATION Spec
CONSTANTS
 MaxFrames=3
 MaxCopies=1
 HWM=1
 MaxSends=2
INVARIANTS ReceivesWhole FailedFrameIsGone
