SPECIFICATION Spec
CONSTANTS
  P = 5
  Shapes <- MCShapes
  RoundConstants = {1, 2}
  Words = {3}
  MaxChunks = 3
  Modulus = 3
  WordSize = 16
  Loaded <- MCLoaded
  Coefficients = {2}
  Values = {1, 2}
  MaxLength = 2
  MaxVariables = 3
  MaxConstraints = 2
  Order = 3
  ScalarBits = 3
  Lengths = {0, 1, 2, 3}
  MaxMessage = 3
  Base = 5
  CurveA = 2
  CurveB = 1
  Prime = 13
  Sizes = {1, 2, 4}
  MaxSquares = 3
  Entries = {1, 5}
  MaxRows = 5
INVARIANTS
  HashGadgetAgrees
  PermuteIsInjective
  EvaluationSafe
  EvaluationsAgree
  RelaxationExact
  ExtractionExact
  OpeningsExact
  PointsAgree
  PolynomialsExact
CHECK_DEADLOCK FALSE
