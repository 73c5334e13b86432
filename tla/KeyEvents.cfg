SPECIFICATION FairSpec
CONSTANTS
  MAX_KEY_EVENTS = 2
  InputCapacity = 4
  MaxEdges = 4
INVARIANTS
  TypeOK
  StatusIsSnapshot
  QueueAgrees
PROPERTIES
  ImplementsWindow
  EventuallyAgreesWithKey
  StopEndsInJoin
