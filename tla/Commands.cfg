SPECIFICATION Spec
CONSTANTS
  Getters = {g1, g2}
  MaxManage = 1
SYMMETRY Runs
INVARIANTS BlockerIsRootCause DirectoryIsNeverSentAsText DatagramsDecode LanAddressAdvertised
PROPERTIES SavedWhole FailedExtractCleansUp
CHECK_DEADLOCK FALSE
