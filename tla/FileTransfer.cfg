CONSTANTS
  MaxChunks = 3
  MaxSessions = 2
  MaxBreaks = 1
  MaxTimeouts = 1
SPECIFICATION Spec
INVARIANTS BlobIsWhole NoGap ResumePointIsHeld
PROPERTIES TransferEnds CancelDropsPartial
CHECK_DEADLOCK FALSE
