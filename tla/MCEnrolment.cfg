CONSTANTS
  k1 = k1
  k2 = k2
  k3 = k3
  m1 = m1
  m2 = m2
  RegistrantKeys = {k1, k2, k3}
  Markers = {m1, m2}
  Issuers = {"i1"}
  IssuerKeys = {"p1", "p2"}
  Nonces = {"n1", "n2"}
  Thresholds = {0, 1, 2}
  NoKey = NoKey
  NoDoc = NoDoc
  NoOwner = NoOwner
  MaxAttested = 3
SPECIFICATION EnrolSpec
SYMMETRY EnrolSymmetry
INVARIANTS
  OneHumanOneDid
  NonceSingleUse
