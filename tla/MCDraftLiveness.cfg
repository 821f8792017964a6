\* Two drafts, one request, one fault, every sweep full: liveness (no symmetry).
CONSTANTS
  d1 = d1
  d2 = d2
  d3 = d3
  r1 = r1
  r2 = r2
  r3 = r3
  p1 = p1
  p2 = p2
  Draft = {d1, d2}
  Request = {r1}
  Path = {p1}
  Keep = Keep
  None = None
  SweepLimit = 1
  MaxFaults = 1
SPECIFICATION FairSpec
PROPERTIES
  EveryDraftIsDecided
CHECK_DEADLOCK FALSE
