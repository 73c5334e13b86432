SPECIFICATION FairSpec
CONSTANTS
  Processes = {p1, p2, p3}
INVARIANTS
  TypeOK
  FlagExact
  NoMissedWrite
PROPERTIES
  PollReturns
