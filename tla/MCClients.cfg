CONSTANTS
  c1 = c1
  j1 = j1
  j2 = j2
  t1 = t1
  Calls = {c1, j1, j2}
  SdkCalls = {c1}
  Joins = {j1, j2}
  Targets = {t1}
  NoTarget = NoTarget
  NoFile = NoFile
  Torn = Torn
  MaxRetries = 1
  MaxPolls = 2
  all = all
  commits = commits
  Consumers = {all, commits}
  Wanted <- MCWanted
  Heads <- MCHeads
  MaxTxs = 2
  MaxLines = 2
  MaxEvents = 2
  Filters <- MCFilters
  Hint <- MCHint
SPECIFICATION MCSpec
INVARIANTS
  DoneIsFinal
  CreatingCallsLandOnce
  FileFollowsTheChain
  JoinedMeansStored
  HandledInLogOrder
  OnlyItsOwnFaultsCostEvents
PROPERTIES
  CallsReturn
  LimitEndsTheBot
CHECK_DEADLOCK FALSE
