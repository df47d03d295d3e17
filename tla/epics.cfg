\* Three calls on two channels, one of them invalid, two connections and two updates:
\* a subscription, a lost connection, and subscriptions before and after it.
\* A client that calls no more and a connection that is not restored leave the
\* library idle, so a state without a next step is no error.
SPECIFICATION FairSpec
CONSTANTS
  Channels = {valid, invalid}
  ValidChannels = {valid}
  MaxCalls = 3
  Cells <- MCCells
  Forms <- MCForms
  MaxConnections = 2
  MaxUpdates = 2
CHECK_DEADLOCK FALSE
INVARIANTS
  TypeOK
  MostRecentIsUsed
  ErrorMeansInvalid
  ResubscribeWhenKnown
  ItemsReadBack
  OnlyUnsafeUpdatesTerminate
PROPERTIES
  UpdateReachesHandler
  ImplementsDelivery
