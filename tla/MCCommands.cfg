SPECIFICATION MCSpec
CONSTANTS
  RATE = 1
  Workloads <- MCWorkloads
  RAM = 3
  Register32 = {"R"}
  Bits = {0, 1}
  CELLS = 4
  BLANK = BLANK
  OLD = OLD
  MIXED = MIXED
  Value = {}
  SECTOR = 2
  ERASE_PER_SECTOR_TIMEOUT_US = 2
  WRAP = 16
  MD5_BUFFER = 4
  WORD = 2
  NAND_BLOCKS = 2
INVARIANTS
  PostIsOwn
  LoadIsExact
  SuccessMeansDone
PROPERTIES
  ErrorsAreTold
  RegionCommandsEnd
