\* Two approvals of one draft.
CONSTANTS
  d1 = d1
  d2 = d2
  d3 = d3
  r1 = r1
  r2 = r2
  r3 = r3
  p1 = p1
  p2 = p2
  Draft = {d1}
  Request = {r1, r2}
  Path = {p1, p2}
  Keep = Keep
  None = None
  SweepLimit = 1
  MaxFaults = 0
SPECIFICATION Spec
INVARIANTS
  OneItemPerDraft
CHECK_DEADLOCK FALSE
