SPECIFICATION Spec
CONSTANTS
  M = 2
  N = 2
  Clients = {j1}
  NoClient = NoClient
  MaxSteps = 2
  MaxQueries = 1
  Backlog = 1
  MaxReadErrors = 0
  CollectiveDisconnect = TRUE
INVARIANT NoClientHangsAfterExit
