SPECIFICATION FairSpec
CONSTANTS
  M = 2
  N = 2
  Clients = {j1, j2}
  NoClient = NoClient
  MaxSteps = 4
  MaxQueries = 1
  Backlog = 1
  MaxReadErrors = 0
  CollectiveDisconnect = TRUE
PROPERTIES FinalizeReturns CommandsAnswered PublishedClientsServed
CHECK_DEADLOCK FALSE
