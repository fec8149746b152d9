SPECIFICATION Spec
CONSTANTS
  Res = 1
  Chassis <- MCChassis
  Profile <- MCProfile
  Default <- MCDefault
  Offers <- MCOffers
  MaxSet = 2
  Rests <- MCRests
INVARIANTS TypeOK RunsOnSafeSettings OperatorsNumbersHold PinsFollowTheMode OnlyOverridesAreRefused
