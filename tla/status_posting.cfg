\* An alarm item and a plain one: a thread sets values and posts, another sets alarms.
SPECIFICATION Spec
CONSTANTS
  Items = {i1, i2}
  AlarmItems = {i1}
  ValueSetters = {p}
  Creator = p
  AlarmSetters = {s1}
  Posters = {p}
  None = None
  Failed = Failed
  MaxCalls = 3
  MaxSendFailures = 1
INVARIANTS
  TypeOK
  PublishedIsCurrent
  PostedOnlyIfMarked
  OkAlarmIsClean
