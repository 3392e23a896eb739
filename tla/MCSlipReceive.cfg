CONSTANTS
  END = END
  ESC = ESC
  ESC_END = ESC_END
  ESC_ESC = ESC_ESC
  b0 = b0
  ZERO = b0
  Data <- MCData
  FRAME_BUFFER_SIZE = 2
  ACK_SIZE = 1
  NULL = NULL
  NONE = NONE
  ERROR = ERROR
SPECIFICATION Spec
INVARIANTS
  ArmedBufferIsFree
  DecoderInBounds
  ReleaseSparesRx
  AcquireSucceeds
  NeverDeaf
PROPERTY ImplementsChannel
