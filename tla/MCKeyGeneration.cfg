SPECIFICATION Spec
CONSTANTS
  Circuits = {"deep", "wide", "log"}
  Synth <- MCSynth
  CycleFoldR1CS <- MCCycleFoldR1CS
  MaxSize = 9
INVARIANTS
  TypeOK
  CommitmentsFit
  CircuitMatchesKey
PROPERTIES
  SecondPassSettles
  LoopEnds
