SPECIFICATION FairSpec
CONSTANTS
  M = 4
  N = 3
  Window = 2
  MaxAcceptErrors = 2
INVARIANTS TypeOK SocketsAgree RootNotFlooded
PROPERTY SetupCompletes
CHECK_DEADLOCK FALSE
