SPECIFICATION Spec
CONSTANTS
  Lines <- Documented
INVARIANT SimulatedStatus
