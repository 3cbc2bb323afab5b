SPECIFICATION CFSpec
CONSTANTS
  P = 3
  A <- MCA
  B <- MCB
  C <- MCC
  G = 1
  H = 2
  Blinds = {1}
  MaxFolds = 3
INVARIANTS
  HonestFoldsHold
  VerifiersAgree
  DelegationExact
