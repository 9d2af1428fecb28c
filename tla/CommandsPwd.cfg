SPECIFICATION Spec
CONSTANTS
  Getters = {g1}
  MaxManage = 0
INVARIANT TypeFlagIsStored
CHECK_DEADLOCK FALSE
