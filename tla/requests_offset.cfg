\* An offset the TCS does not apply.
SPECIFICATION Spec
CONSTANTS
  MaxCalls = 1
  None = None
CHECK_DEADLOCK FALSE
INVARIANTS
  OffsetReported
