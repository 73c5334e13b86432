SPECIFICATION Spec
CONSTANTS
  c1 = c1
  c2 = c2
  c3 = c3
  Clients = {c1, c2}
  Descriptors = {1, 2}
  Requests <- LongThenShort
  MAX_EVENTS = 3
  BUFFER_SIZE = 2
  MAX_FRAME = 3
  SendBuffer = 1
  MessageUnits = 1
  MaxKeyEvents = 0
  MAX_KEY_EVENTS = 1
  Reading = {c1, c2}
PROPERTIES
  ClosedForCause
