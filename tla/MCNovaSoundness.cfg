SPECIFICATION Spec
CONSTANTS
  P = 5
  A <- MCA
  B <- MCB
  C <- MCC
  G = 2
  H = 1
  Blinds = {0}
  MaxFolds = 1
INVARIANTS
  FoldSoundness
