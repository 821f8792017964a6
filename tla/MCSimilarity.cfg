\* Three checks, two items, answers of two records.
CONSTANTS
  i1 = i1
  i2 = i2
  d1 = d1
  NoDraft = NoDraft
  r1 = r1
  r2 = r2
  r3 = r3
  Item = {i1, i2}
  Draft = {d1}
  Request = {r1, r2, r3}
  About <- MCAbout
  Grams <- MCGrams
  LLMVerdict <- MCVerdict
  RecallLimit = 2
  Kept = 2
SPECIFICATION FairSpec
INVARIANTS
  SimilarityTypeOK
  NothingOlderStays
  StoredWhole
PROPERTIES
  RulesNotSilenced
  EveryCheckEnds
CHECK_DEADLOCK FALSE
