CONSTANTS
  p1 = p1
  p2 = p2
  p3 = p3
  Payload <- MCPayload
  NULL = NULL
  NONE = NONE
  ERROR = ERROR
SPECIFICATION Spec
INVARIANTS
  DriverAgrees
  SpareIsFree
PROPERTIES
  LinkRevives
  ImplementsChannel
