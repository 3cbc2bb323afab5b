SPECIFICATION Spec
CONSTANTS
  k1 = k1
  k2 = k2
  Keys = {k1}
  Elems = {0, 1}
  Ext = {"count", "reset"}
  StepOf <- MCStepOf
  Holds <- MCHolds
  MaxI = 3
  Shapes = {"ref"}
  RefShape = "ref"
  SecondaryKey <- MCSecondaryKey
  Refused = {}
  MaxCalls = 3
INVARIANTS
  Completeness
PROPERTIES
  PromiseKept
CHECK_DEADLOCK FALSE
