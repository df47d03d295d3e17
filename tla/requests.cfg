\* Two calls of any kind, late answers, a connection that may fail.
\* A call without a timeout may wait for ever.
SPECIFICATION FairSpec
CONSTANTS
  MaxCalls = 2
  None = None
CHECK_DEADLOCK FALSE
INVARIANTS
  TypeOK
  OwnAnswer
  QueuesReleased
  UntimedNeverTimesOut
  PostsAsReported
  CarefulProgramSurvives
PROPERTIES
  CallReturns
  ImplementsRequests
