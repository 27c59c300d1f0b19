CONSTANTS
  a1 = a1
  a2 = a2
  a3 = a3
  none = none
  d1 = d1
  r1 = r1
  r2 = r2
  NoAccount = none
  Bootstrap = FALSE
  AppConfigs = {}
  DepositKeys = {}
  NoKey = NoKey
  Applicants <- NoInputs
  BootstrapChoices = {}
  RemovalBudget = 10
  DefaultThreshold = 2
  NoInstParams <- NoCaps
  GenesisTiers <- NoTiers
  UphiPerPhi = 4
  BpsDenominator = 4
  MaxProtocolFeeBps = 1
  Tiers = {1}
  DIDs = {}
  Unidentified = Unidentified
  GenesisReserve <- Reserve3
  NoBrake <- Off
  DefaultCap30 = 2
  DefaultCap60 = 3
  Unset = Unset
  Day30 = 1
  Day60 = 2
  Day90 = 3
  RetentionDays = 1
  MinAdmins = 2
  Accounts = {a1, a2, a3}
  NumIds = 1
  RootAdmin <- OneRoot
  GenesisRoles <- BothAdmins
  Params <- LargeTwo
  InstParams <- NoInputs
  Grants <- EitherA3
  Registrants <- RegisterA1
  Freezable = {}
  MaxEpoch = 1
  Tomans = {1, 2}
  Carves = {0}
  MaxBacking = 3
  Mints <- RefMints
  Redeems <- RefRedeems
  Reserves = {2}
  Brakes <- NoInputs
  DayLen = 1
  MaxNow = 1
SPECIFICATION VaultSpec
INVARIANTS
  RefsUsedOnce
  ApproverIsNotAttestor
PROPERTIES
  RolesByFreshQuorum
CHECK_DEADLOCK FALSE
