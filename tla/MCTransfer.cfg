SPECIFICATION Spec
CONSTANTS
  Names = {f, g}
  Lengths = {0, 1, 2}
  Stride <- MCStride
  ParticleCounts = {0, 1, 4}
  ParticleStride = 1
  Boxes = {empty, box}
  EmptyBox = empty
  FlagRange = 4
  IntRange = 8
  MaxCalls = 3
  MaxSteps = 2
INVARIANTS FramingKept RegionIsSnapshot
