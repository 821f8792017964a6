\* Two workers on the queue of one item that is made and removed, one fault.
CONSTANTS
  r1 = r1
  r2 = r2
  c1 = c1
  c2 = c2
  p1 = p1
  w1 = w1
  w2 = w2
  Item = {1}
  Request = {r1}
  Content = {c1}
  Path = {p1}
  Keep = Keep
  MaxVersion = 1
  MaxTasks = 0
  Worker = {w1, w2}
  BatchLimit = 2
  MaxFaults = 1
SPECIFICATION FairSyncSpec
INVARIANTS
  TaskHeldOnce
PROPERTIES
  FinishedStaysFinished
  EveryTaskFinishes
CHECK_DEADLOCK FALSE
