SPECIFICATION Spec
CONSTANTS
  Fan = {f0}
  Res = 1
  MinFan = 20
  MaxFan = 60
  SafeStartFan = 50
  CycleSpeeds = {20, 60}
  ScanLevels <- MCScanLevels
  Comforts = {34, 38}
  ProfileComfort = 38
  SlowPlant = TRUE
INVARIANT NeverStranded
