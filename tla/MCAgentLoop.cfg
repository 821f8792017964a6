\* Two turns, of which the first asks for a record and the second replies to it.
SPECIFICATION FairSpec

CONSTANTS
  t1 = t1
  t2 = t2
  Turn = {t1, t2}
  Recording = {t1}
  None = None
  ReplyTo <- MCReplyTo
  MaxRounds = 2
  MaxMessages = 2
  MaxRetries = 1
  MaxCalls = 2
  MaxDraft = 2
  MaxFaults = 1

INVARIANTS
  TypeOK
  CallsAnswered
  CardIsNewestOwn
  HistoryInWindow

PROPERTIES
  EveryTurnEnds

\* Every message may have been handled.
CHECK_DEADLOCK FALSE
