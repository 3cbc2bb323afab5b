SPECIFICATION ProverSpec
CONSTANTS
  k1 = k1
  k2 = k2
  Keys = {k1, k2}
  Elems = {0, 1}
  Ext = {"count", "reset", "fail"}
  StepOf <- MCStepOf
  Holds <- MCHolds
  MaxI = 3
  Shapes = {"ref", "regrouped"}
  RefShape = "ref"
  SecondaryKey <- MCSecondaryKey
  Refused = {"fail"}
  MaxCalls = 3
INVARIANTS
  CurrentProofAttests
