CONSTANTS
  a1 = a1
  a2 = a2
  a3 = a3
  none = none
  NoAccount = none
  Accounts = {a1, a2}
  NumIds = 2
  RootAdmin <- TwoRoot
  GenesisRoles <- TwoAdmins
  GenesisTiers <- OneTier
  Bootstrap = TRUE
  Params <- DefaultParams
  InstParams <- NoInputs
  NoInstParams <- NoCaps
  AppConfigs = {v1}
  DepositKeys = {k1}
  NoKey = NoKey
  Grants <- NoInputs
  Registrants <- EitherA2
  Applicants <- OnlyA2
  BootstrapChoices = {FALSE}
  Freezable = {1}
  RemovalBudget = 2
  DefaultThreshold = 2
  MaxEpoch = 1
SPECIFICATION InstSpec
INVARIANTS
  RecordsOwned
PROPERTIES
  CleanStart
  RemovalCompletes
CHECK_DEADLOCK FALSE
