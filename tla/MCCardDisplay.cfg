\* One draft, two requests, one card.
CONSTANTS
  d1 = d1
  r1 = r1
  r2 = r2
  p1 = p1
  c1 = c1
  Draft = {d1}
  Request = {r1, r2}
  Path = {p1}
  Keep = Keep
  None = None
  SweepLimit = 1
  MaxFaults = 1
  Card = {c1}
SPECIFICATION CardSpec
SYMMETRY Symmetry
INVARIANTS
  CardTypeOK
  ClosedCardMeansClosedDraft
  LabelsAreEarned
CHECK_DEADLOCK FALSE
