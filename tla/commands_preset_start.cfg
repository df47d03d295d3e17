\* PRESET_START after three subscriptions.
\* A client that subscribes no more and a GMP that sends no more leave the
\* library idle, so a state without a next step is no error.
SPECIFICATION Spec
CONSTANTS
  Topics = {t1}
  MaxSubscriptions = 3
  MaxCommands = 0
  MaxSendFailures = 0
CHECK_DEADLOCK FALSE
INVARIANTS
  MostRecentIsUsedForAll

