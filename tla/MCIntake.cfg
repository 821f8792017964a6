\* Three messages in one chat, two goroutines, one event delivered twice.
SPECIFICATION Spec

CONSTANTS
  m1 = m1
  m2 = m2
  m3 = m3
  h1 = h1
  h2 = h2
  None = None
  Msg = {m1, m2, m3}
  Slot = {h1, h2}
  Says <- MCSays
  Understands <- MCUnderstands
  Listed = 2
  MaxExtra = 1
  MaxDraft = 2
  MaxCard = 1
  MaxFaults = 1

SYMMETRY Alike

INVARIANTS
  TypeOK
  OneDraftPerMessage

PROPERTIES
  NeverGuesses
  NumberMeansEntry
  RefusalHolds

\* Every message may have been handled.
CHECK_DEADLOCK FALSE
