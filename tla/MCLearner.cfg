SPECIFICATION Spec
CONSTANTS
  Res = 1
  Floor = 32
  Class <- MCClass
  Sleeper = {"hdd"}
  Target <- MCTarget
  Emergency <- MCEmergency
  MinCurveSpan <- MCMinCurveSpan
  Drifting = {}
  InMode = "balanced"
  Env <- MCEnv
  MinFan = 10
  MaxFan = 100
  Window = 2
  Sane <- MCSane
  MaxDisturbances = 2
  Profile <- MCProfile
  Heats <- MCHeats
  Cooling <- MCCooling
INVARIANT TypeOK
PROPERTIES ReclaimsOnlyOwnFan ComesToRest RestsAtTarget
