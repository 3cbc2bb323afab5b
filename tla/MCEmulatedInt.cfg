SPECIFICATION Spec
CONSTANTS
  P = 101
  W = 2
  B = 4
  M = 7
  Ranges <- MCRanges
  Constants = {0, 5}
  Tampering <- MCTampering
  AbsorbBits = 2
  MaxSize = 3
INVARIANTS
  ValuesExact
  ComparisonsForced
  HintsForced
  NoneRefused
  CarryWithinGroup
  AbsorbsAlike
CHECK_DEADLOCK FALSE
