SPECIFICATION FairSpec
CONSTANTS
  Path <- MCPath
  Part <- MCPart
  Above <- MCAbove
  Rank <- MCRank
  Versions = 2
  Sources <- MCSources
  OldFolders <- MCOldFolders
  Chunks = 2
  BatchSize = 1
  MaxStale = 1
  Absent = Absent
  Folder = Folder
  Nobody = Nobody
  MaxEdits = 1
  MaxTroubles = 1
INVARIANTS DoneMeansMirrored SendersSuccessIsShared RepeatSendsNothing
PROPERTIES MirrorPromise RunEnds SyncConverges
CHECK_DEADLOCK FALSE
