SPECIFICATION Spec
CONSTANTS
  HostLists <- MCHostLists
  Base = 4
  Word = 2
  Capacity = 1
INVARIANTS WriteFits RoundTrip
