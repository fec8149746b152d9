SPECIFICATION Spec
CONSTANTS
  f0 = f0
  f1 = f1
  Fan = {f0, f1}
  FanIndices <- MCFanIndices
  Res = 1
  MinFan = 95
  MaxFan = 98
  Emergency <- MCEmergency
  MinCurveSpan <- MCSpan
  OwnFanThreshold = 80
  Readings <- MCReadings
  Dts = {2, 15}
  Comforts <- MCComforts
INVARIANT EmergencyMeansFullSpeed
