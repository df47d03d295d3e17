\* Three subscriptions on one topic, and a command at any moment among them.
\* A client that subscribes no more and a GMP that sends no more leave the
\* library idle, so a state without a next step is no error.
SPECIFICATION FairSpec
CONSTANTS
  Topics = {t1}
  MaxSubscriptions = 3
  MaxCommands = 1
  MaxSendFailures = 1
CHECK_DEADLOCK FALSE
INVARIANTS
  TypeOK
  HolderReceives
  MostRecentIsUsed
  AnsweredOnce
PROPERTIES
  CommandAnswered
  ImplementsDelivery
