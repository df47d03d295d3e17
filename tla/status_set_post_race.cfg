\* A value is set by one thread while another one posts the item.
SPECIFICATION Spec
CONSTANTS
  Items = {i1}
  AlarmItems = {}
  ValueSetters = {s1}
  Creator = s1
  AlarmSetters = {}
  Posters = {p}
  None = None
  Failed = Failed
  MaxCalls = 1
  MaxSendFailures = 0
INVARIANTS
  PublishedIsCurrent
