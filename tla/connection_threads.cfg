\* Two client threads that open sessions and register handlers race each
\* other and onException.
SPECIFICATION Spec
CONSTANTS
  Threads = {t1, t2}
  Recoveries = {r1}
  Conns = {c1, c2, c3, c4}
  None = None
  Functions = {1}
  Objects = {1}
  ThrowingHandlers = {}
  MaxFailures = 1
SYMMETRY ThreadSymmetry
INVARIANTS
  TypeOK
  ConnectionsOwned
  ListenerInstalled
PROPERTIES
  AllHandlersInvoked
  ImplementsSessions
