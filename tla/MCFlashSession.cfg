SPECIFICATION Spec
CONSTANTS
  CELLS = 4
  SECTOR = 2
  MAX_BLOCK = 2
  MAX_FAULTS = 1
  BLANK = BLANK
  OLD = OLD
  MIXED = MIXED
  v1 = v1
  v2 = v2
  Value <- MCValue
INVARIANTS
  TypeOK
  EraseReachesWrite
  BlankAhead
PROPERTIES
  Confined
  ImplementsImage
