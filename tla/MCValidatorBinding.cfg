CONSTANTS
  a1 = a1
  a2 = a2
  a3 = a3
  Dids = {1, 2, 3}
  NoDid = 0
  Accounts = {a1, a2, a3}
  NoAccount = NoAccount
  Genesis <- OneFounder
  Founders = {a1}
  MaxScan = 2
  MaxTime = 1
  TailCap = 1
SPECIFICATION ValSpec
SYMMETRY Symmetry
INVARIANTS
  BindingOneToOne
PROPERTIES
  SweptSetIdentified
  TombstoneOnlyRevoked
