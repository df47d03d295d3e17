\* One client thread, two failures: recovery re-establishes the connection.
SPECIFICATION FairSpec
CONSTANTS
  Threads = {t1}
  Recoveries = {r1, r2}
  Conns = {c1, c2, c3, c4}
  None = None
  Functions = {}
  Objects = {}
  ThrowingHandlers = {}
  MaxFailures = 2
INVARIANTS
  SessionLossAnnounced
PROPERTIES
  RecoverySucceeds
