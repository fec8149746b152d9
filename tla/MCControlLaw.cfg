SPECIFICATION Spec
CONSTANTS
  Res = 2
  MaxTemp = 9
  MinFans = {10, 20, 33}
  MaxFans = {60, 100}
  Thresholds = {0, 50, 85, 99, 100}
  MinSpan = 3
  Floor = 1
  ScanFans <- BoxScanFans
  Rises <- NoisyRises
  ScanMargin = 5
INVARIANTS CurveIsStretchedFloor GainIsBounded AssistSpansTheRange FitHoldsTarget
  SaturationRaises BandAttracts
CHECK_DEADLOCK FALSE
