SPECIFICATION Spec
CONSTANTS
  Res = 1
  Floor = 32
  Class <- MCClass
  Sleeper = {"hdd"}
  Target <- MCTarget
  Emergency <- MCEmergency
  MinCurveSpan <- MCMinCurveSpan
  Drifting = {"hdd", "ssd"}
  InMode = "balanced"
  Env <- MCEnv
  MinFan = 10
  MaxFan = 100
  Window = 2
  Sane <- MCSane
  MaxDisturbances = 1
  Profile <- TLProfile
  Heats <- TLHeats
  Cooling <- MCCooling
PROPERTIES ComesToRest RestsAtTarget
