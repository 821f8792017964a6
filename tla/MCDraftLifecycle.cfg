\* Two drafts, two requests beside the worker, one fault.
CONSTANTS
  d1 = d1
  d2 = d2
  d3 = d3
  r1 = r1
  r2 = r2
  r3 = r3
  p1 = p1
  p2 = p2
  Draft = {d1, d2}
  Request = {r1, r2}
  Path = {p1}
  Keep = Keep
  None = None
  SweepLimit = 1
  MaxFaults = 1
SPECIFICATION Spec
SYMMETRY Symmetry
INVARIANTS
  TypeOK
  ItemsMatchStatus
  OneRevision
  AtMostOneReminder
PROPERTIES
  QuietDecisionIsFinal
CHECK_DEADLOCK FALSE
