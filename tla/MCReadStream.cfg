SPECIFICATION Spec
CONSTANTS
  WORD = 2
  PAGE = 3
  MAX_PACKET = 3
  WRAP = 8
  Jobs <- MCJobs
  MAX_READS = 2
  MAX_SYNCS = 4
  MAX_CHIP_FAULTS = 1
  MAX_LINE_FAULTS = 2
  MAX_EARLY = 1
  MAX_REPEATS = 1
INVARIANTS
  AcceptedIsFlash
  OneAtATime
  BufferHolds
  SilenceHasCause
PROPERTY ComesBack
CHECK_DEADLOCK FALSE
