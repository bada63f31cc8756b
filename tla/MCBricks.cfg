SPECIFICATION Spec
CONSTANTS
  Sizes = {1, 2, 3, 4, 5, 6, 7, 8, 9, 12, 16, 17, 24, 30, 36, 49, 60}
  Volumes <- MCVolumes
  Limit = 9
  ClientSizes = {1, 2, 3, 4, 5, 6, 7, 8, 16, 20}
INVARIANTS GridHasOneCellPerRank SlicesInPlace CountsFit
  EveryRankPingedOnce RemainderSpreadEvenly
