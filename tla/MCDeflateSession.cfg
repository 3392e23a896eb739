SPECIFICATION MCSpec
CONSTANTS
  CELLS = 6
  SECTOR = 2
  MAX_BLOCK = 2
  MAX_FAULTS = 1
  BLANK = BLANK
  OLD = OLD
  MIXED = MIXED
  GARBAGE = GARBAGE
  Value <- MCValue
  Streams <- MCStreams
  Openings <- MCOpenings
  BUFFER = 2
  MAX_UNITS = 2
  MAX_SESSIONS = 2
  MAX_STRAYS = 1
  WRAP = 16
INVARIANT NothingLost
PROPERTIES
  EndMeansExact
  StaysAnnounced
  PostEnds
