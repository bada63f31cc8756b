SPECIFICATION Spec
CONSTANTS
  N = 2
  NumQueries = 1
  LogSets = {{}}
INVARIANT ConnectionAlive
CHECK_DEADLOCK FALSE
