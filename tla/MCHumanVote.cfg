CONSTANTS
    d1 = d1
    d2 = d2
    a1 = a1
    a2 = a2
    Dids = {d1, d2}
    Accounts = {a1, a2}
    NoAccount = NoAccount
    TailCap = 1
    Genesis <- OneHuman
    MaxTime = 3
    N = 1
    Msgs <- Routable
    Validators = {a1}
    MinAges = {0, 1}
    RouteTables <- Tables
    Period = 2
    FastPeriod = 1
    Budget = 1
    Ballots <- Weighted
    Movable = {d2}
SPECIFICATION FairSpec
INVARIANTS
  DenominatorExact
  VotersWithinBasis
  TallyMatchesBallots
PROPERTIES
  GainIsStamped
  DecidedIsPruned
CHECK_DEADLOCK FALSE
