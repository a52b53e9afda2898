SPECIFICATION FairChatSpec
CONSTANTS
  t1 = t1
  t2 = t2
  NoJob = NoJob
  Consolidators = {c1}
  Jobs = {t1, t2}
  Legacy = {}
  RefreshAttempts = 2
  Messages = 4
  Threshold = 3
  MaxFailures = 1
INVARIANTS
  NeverMeetsAGap
PROPERTIES
  BacklogIsQueued
  GrowingPrefix
  EveryRefreshLands
\* A conversation may simply end.
CHECK_DEADLOCK FALSE
