\* Programs with two handlers each, two actions, one failure of the link, bridged or
\* followed by a reconnection.
\* A GMP that starts no more actions leaves the library idle, so a state without a
\* next step is no error.
SPECIFICATION FairSpec
CONSTANTS
  Programs = {{"ObsGdsHandler", "InstCmdHandler"}, {"EngineeringHandler", "ApplyHandler"},
              {"MyHandler", "GenericHandler"}}
  Activities = {"PRESET", "START"}
  Configs = {"empty", "testFast", "testSlow", "label"}
  MaxActions = 2
  MaxConnections = 2
  MaxFailures = 1
CHECK_DEADLOCK FALSE
INVARIANTS
  TypeOK
  ObservationComplete
PROPERTIES
  ImplementsActions
  EveryActionAnswered
  RunningIsCompleted
