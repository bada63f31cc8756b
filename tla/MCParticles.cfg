SPECIFICATION Spec
CONSTANTS
  Names = {f}
  Lengths = {1}
  Stride <- MCStride
  ParticleCounts = {0, 1}
  ParticleStride = 1
  Boxes = {empty}
  EmptyBox = empty
  FlagRange = 4
  IntRange = 0
  MaxCalls = 1
  MaxSteps = 1
INVARIANT ParticlesArrive
