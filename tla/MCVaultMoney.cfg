CONSTANTS
  a1 = a1
  a2 = a2
  a3 = a3
  none = none
  d1 = d1
  r1 = r1
  r2 = r2
  NoAccount = none
  Bootstrap = FALSE
  AppConfigs = {}
  DepositKeys = {}
  NoKey = NoKey
  Applicants <- NoInputs
  BootstrapChoices = {}
  RemovalBudget = 10
  DefaultThreshold = 2
  NoInstParams <- NoCaps
  GenesisTiers <- NoTiers
  UphiPerPhi = 4
  BpsDenominator = 4
  MaxProtocolFeeBps = 1
  Tiers = {1}
  DIDs = {d1}
  Unidentified = Unidentified
  GenesisReserve <- Reserve3
  NoBrake <- Off
  DefaultCap30 = 2
  DefaultCap60 = 3
  Unset = Unset
  Day30 = 1
  Day60 = 2
  Day90 = 3
  RetentionDays = 0
  MinAdmins = 2
  Accounts = {a1, a2}
  NumIds = 1
  RootAdmin <- OneRoot
  GenesisRoles <- A2Admin
  Params <- RatesAndFloors
  InstParams <- RedeemCaps
  Grants <- NoInputs
  Registrants <- NoInputs
  Freezable = {}
  MaxEpoch = 0
  Tomans = {1, 2, 3}
  Carves = {0, 1}
  MaxBacking = 3
  Mints <- CapMints
  Redeems <- CapRedeems
  Reserves = {}
  Brakes <- OnlyStep
  DayLen = 2
  MaxNow = 5
SPECIFICATION VaultSpec
INVARIANTS
  TodayCounted
  FloorRedeemable
PROPERTIES
  ImplementsPeg
CHECK_DEADLOCK FALSE
