SPECIFICATION Spec
CONSTANTS
  k1 = k1
  k2 = k2
  Keys = {k1}
  Elems = {0, 1}
  Ext = {"count", "reset"}
  StepOf <- MCStepOf
  Holds <- MCHolds
  MaxI = 2
  Shapes = {"ref", "regrouped"}
  RefShape = "ref"
  SecondaryKey <- MCSecondaryKey
  Refused = {}
  MaxCalls = 2
INVARIANTS
  Soundness
CHECK_DEADLOCK FALSE
