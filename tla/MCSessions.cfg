SPECIFICATION Spec
CONSTANTS
  M = 3
  N = 2
  Clients = {j1, j2}
  NoClient = NoClient
  MaxSteps = 5
  MaxQueries = 2
  Backlog = 1
  MaxReadErrors = 1
  CollectiveDisconnect = FALSE
SYMMETRY ClientSymmetry
INVARIANTS
  TypeOK IntsNotConfused StrictAlternation NothingUnreadAtClose QueryCoherent
  NoThrow ListenerQuiet ConnectedClientsAreTold FollowInv
PROPERTY ImplementsInTransit
