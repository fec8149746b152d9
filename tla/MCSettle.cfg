SPECIFICATION FairSpec
CONSTANTS
  f0 = f0
  f1 = f1
  Fan = {f0}
  FanIndices <- MCBroadcast
  Res = 4
  MinFan = 95
  MaxFan = 98
  Emergency <- MCEmergency
  MinCurveSpan <- MCSpan
  OwnFanThreshold = 80
  Readings <- MCSettleReadings
  Dts = {2}
  Comforts <- MCSettleComforts
PROPERTY Settles
