CONSTANTS
  END = END
  ESC = ESC
  ESC_END = ESC_END
  ESC_ESC = ESC_ESC
  b0 = b0
  b1 = b1
  ZERO = b0
  Data <- MCData
  FRAME_BUFFER_SIZE = 2
  ACK_SIZE = 1
  NULL = NULL
  NONE = NONE
  ERROR = ERROR
  Payloads <- MCAny
  MAX_FRAMES = 3
  MAX_FAULTS = 1
  MAX_TIMEOUTS = 2
SPECIFICATION LinkSpec
INVARIANT FreshFrameIsReceived
