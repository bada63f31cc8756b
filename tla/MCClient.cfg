SPECIFICATION FairSpec
CONSTANTS
  N = 3
  NumQueries = 3
  LogSets = {{}, {0}, {1}, {0, 1}, {1, 2}, {0, 1, 2}}
INVARIANTS RanksAgree QuitReported
PROPERTY AllRanksLeave
CHECK_DEADLOCK FALSE
