SPECIFICATION Spec
CONSTANTS
  c1 = c1
  c2 = c2
  c3 = c3
  Clients = {c1, c2, c3}
  Descriptors = {1, 2}
  Requests <- Visitors
  MAX_EVENTS = 2
  BUFFER_SIZE = 1
  MAX_FRAME = 1
  SendBuffer = 1
  MessageUnits = 1
  MaxKeyEvents = 2
  MAX_KEY_EVENTS = 1
  Reading = {c1, c2, c3}
INVARIANTS
  RegistryConsistent
  BatchFresh
  BroadcastComplete
