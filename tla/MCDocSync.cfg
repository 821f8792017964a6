\* One worker, one request on one item, one fault.
CONSTANTS
  r1 = r1
  r2 = r2
  c1 = c1
  c2 = c2
  p1 = p1
  w1 = w1
  w2 = w2
  Item = {1}
  Request = {r1}
  Content = {c1}
  Path = {p1}
  Keep = Keep
  MaxVersion = 2
  MaxTasks = 0
  Worker = {w1}
  BatchLimit = 2
  MaxFaults = 1
SPECIFICATION SyncSpec
INVARIANTS
  SyncTypeOK
  MappingIsWritten
  SyncDebt
PROPERTIES
  NeverBackwards
CHECK_DEADLOCK FALSE
