SPECIFICATION UploadSpec
CONSTANTS
  CELLS = 6
  SECTOR = 2
  MAX_BLOCK = 2
  BLOCK = 2
  BLANK = BLANK
  OLD = OLD
  MIXED = MIXED
  Value <- MCValue
  Jobs <- MCJobs
  MAX_SESSIONS = 2
  ATTEMPTS = 3
  MAX_FAULTS = 2
  MAX_LOST_REQUESTS = 1
  MAX_LOST_RESPONSES = 1
  MAX_GARBLED = 1
  MAX_OTHERS = 1
INVARIANTS
  EndMeansWritten
  OnlyRepeats
PROPERTY SessionEnds
CHECK_DEADLOCK FALSE
