SPECIFICATION Spec
CONSTANTS
  CELLS = 4
  PAGE = 2
  BLOCK_PAGES = 2
  MAX_DATA = 3
  MAX_FAULTS = 1
  BLANK = BLANK
  OLD = OLD
  MIXED = MIXED
  v1 = v1
  v2 = v2
  Value <- MCValue
INVARIANT IncompleteIsDetected
