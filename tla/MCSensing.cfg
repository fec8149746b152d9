SPECIFICATION FairSpec
CONSTANTS
  Drives <- MCDrives
  Rotating = {"sdb"}
  Moods <- MCMoods
  CommandTimeout = 2
  CycleBudget = 4
  ReadInterval = 4
  WriteTime = 4
  Dwell = 8
  Levels = 2
INVARIANTS TypeOK DriveReadingIsRecent OneStallLeavesTime PointIsOfItsLevel
PROPERTIES HotDriveIsSeen ScanEnds
