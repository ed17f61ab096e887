CONSTANT N = 5
SPECIFICATION Spec
INVARIANTS
  LifoUnwinding
  ControlLeavesTheNode
  TurnDataCleared
CHECK_DEADLOCK FALSE
