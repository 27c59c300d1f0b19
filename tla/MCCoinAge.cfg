CONSTANTS
  h1 = h1
  h2 = h2
  Holders = {h1, h2}
  Amounts = {1, 2}
  ParamSets <- BothBounds
  Genesis <- OneHeld
  YoungPenaltyBps = 8
  OldPenaltyBps = 1
  BpsDenominator = 10
  StartTime = 3
  MaxTime = 5
  MaxSupply = 4
SPECIFICATION Spec
SYMMETRY Symmetry
INVARIANTS
  SpendIsFifo
PROPERTIES
  AgeNeverManufactured
