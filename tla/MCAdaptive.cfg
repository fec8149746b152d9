SPECIFICATION Spec
CONSTANTS
  Res = 1
  Order <- MCOrder
  Pinned <- MCPinned
  InMode = "balanced"
  Env <- MCEnv
  Windows <- MCWindows
  PinnedPair <- MCPinnedPair
  MaxDeadband = 4
  Inherited <- MCInherited
  Behind = 2
INVARIANTS TypeOK PinIsKept LosesAtMostOneStep
PROPERTIES DecisionsTakeEffect KeepsDirective
