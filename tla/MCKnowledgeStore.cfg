\* One item, three requests: every interleaving of three edits on one row.
CONSTANTS
  Item = {1}
  r1 = r1
  r2 = r2
  r3 = r3
  c1 = c1
  c2 = c2
  p1 = p1
  p2 = p2
  Request = {r1, r2, r3}
  Content = {c1, c2}
  Path = {p1, p2}
  Keep = Keep
  MaxVersion = 3
  MaxTasks = 1
SPECIFICATION Spec
SYMMETRY Symmetry
INVARIANTS
  TypeOK
  LogMatchesItem
PROPERTIES
  NoLostUpdate
  RestoreOnlyRemoved
  RefinesHistory
CHECK_DEADLOCK FALSE
