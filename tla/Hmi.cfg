SPECIFICATION FairSpec
CONSTANTS
  MAX_KEY_EVENTS = 1
  MaxEvents = 2
  MaxDisturbances = 2
  MaxInFlight = 0
INVARIANTS
  TypeOK
  Armed
PROPERTIES
  Reconnects
  LabelsSettle
  KeyLabelSettles
