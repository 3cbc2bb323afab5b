SPECIFICATION Spec
CONSTANTS
  Rate = 2
  Elements = {0, 1}
  Zero = 0
  Plus <- MCPlus
  Messages <- MCMessages
  MaxGet = 5
  MaxBlocks = 3
INVARIANTS
  TypeOK
  CutInBlocks
  AnswerInOrder
PROPERTIES
  LoopsProgress
  CallsAreAtomic
CHECK_DEADLOCK FALSE
