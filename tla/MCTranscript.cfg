SPECIFICATION Spec
CONSTANTS
  Rate = 2
  Modulus = 11
  UsableBits = 3
  ByteBits = 1
  LengthBytes = 2
  Hashes = {1}
  Domains <- MCDomains
  Messages <- MCMessages
  Gets = {3}
  Bits = {4}
  MaxTranscripts = 3
  MaxCalls = 6
INVARIANTS
  VariableAgrees
  ReplaysRecording
  DomainsApart
  AnswersBind
  AnswersFresh
CHECK_DEADLOCK FALSE
