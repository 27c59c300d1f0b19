CONSTANTS
  d1 = d1
  d2 = d2
  a1 = a1
  a2 = a2
  k1 = k1
  k2 = k2
  v1 = v1
  v2 = v2
  v3 = v3
  Dids = {d1, d2}
  Accounts = {a1, a2}
  Keys = {k1, k2}
  Genesis <- AllActive
  Templates = {"t1"}
  BbsKeys = {"b1", "b2"}
  Policies <- TwoPolicies
  Hashes = {"x1"}
  Deadlines = {0, 1}
  ParamSets = {1, 2}
  MaxVersion = 2
  MaxTime = 4
  Elections = {"e1"}
  Voters = {v1, v2, v3}
  Holds <- TwoHolders
  Options = {2, 3}
  Windows <- NowOrLater
  VotingParams <- TwoParams
  SoundnessEnforced = TRUE
  MaxTally = 2
SPECIFICATION ElectionSpec
SYMMETRY Sym
INVARIANTS
  AnchorsExportable
  DisclosureWithinPin
  CompletedIffAllSigned
  TalliesMatchBallots
  ElectorateFixed
CHECK_DEADLOCK FALSE
