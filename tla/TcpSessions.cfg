SPECIFICATION Spec
CONSTANTS
  c1 = c1
  c2 = c2
  c3 = c3
  Clients = {c1, c2}
  Descriptors = {1, 2}
  Requests <- Sessions
  MAX_EVENTS = 2
  BUFFER_SIZE = 2
  MAX_FRAME = 3
  SendBuffer = 1
  MessageUnits = 2
  MaxKeyEvents = 1
  MAX_KEY_EVENTS = 1
  Reading = {c1, c2}
INVARIANTS
  TypeOK
  InputAccounted
  WholeMessages
  Answered
PROPERTIES
  ClosedForCause
  GracefulClose
