SPECIFICATION Spec
CONSTANTS
  v1 = v1
  v2 = v2
  v3 = v3
  Validators = {v1, v2, v3}
  WindowSize = 3
  MaxPower = 9
  Genesis <- MCGenesis
  Powers = {0, 2, 7}
  MaxRotations = 3
INVARIANTS
  TypeOK
  TotalsExact
  CumHasNoZeros
  WindowPower
  PreviousSetIsHistory
  FlowBelowThird
  SurvivesPersistence
CHECK_DEADLOCK FALSE
