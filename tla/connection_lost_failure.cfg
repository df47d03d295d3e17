\* The transport fails before the listener is installed.
SPECIFICATION Spec
CONSTANTS
  Threads = {t1}
  Recoveries = {r1}
  Conns = {c1, c2, c3}
  None = None
  Functions = {}
  Objects = {}
  ThrowingHandlers = {}
  MaxFailures = 1
INVARIANTS
  FailureIsHandled

