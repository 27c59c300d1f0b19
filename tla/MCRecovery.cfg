CONSTANTS
    d1 = d1
    d2 = d2
    d3 = d3
    a1 = a1
    a2 = a2
    a3 = a3
    s1 = s1
    s2 = s2
    NoAccount = NoAccount
    Genesis <- GuardianOnly
    FreshKeys = {k1}
    Salts = {s1}
    GuardianSets <- ReplacedGuardians
    Subjects = {d1}
    TailCap = 1
    Dids = {d1, d2}
    Accounts = {a1, a2}
    Nonces = {n1, n2}
    ParamSets <- OneParam
    MaxEpoch = 2
    MaxTime = 4
SPECIFICATION Spec
SYMMETRY NonceSymmetry
INVARIANTS
  FreezeMatchesSuspension
  VetoWindowKept
  ConsentIsCurrent
  EscrowMatchesDeposits
PROPERTIES
  ControlMovesByRecoveryOnly
  ExpiredStaysExpired
  ImplementsEligibility
CHECK_DEADLOCK FALSE
