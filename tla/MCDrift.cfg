SPECIFICATION Spec
CONSTANTS
  Res = 1
  Order <- MCOrder
  Pinned = {}
  InMode = "min-noise"
  Env <- MCEnv
  Windows <- MCWindows
  PinnedPair <- MCPinnedPair
  MaxDeadband = 7
  Inherited = {}
  Behind = 2
INVARIANT TargetBelowEmergency
