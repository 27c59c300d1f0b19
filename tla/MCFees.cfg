CONSTANTS
  a1 = a1
  a2 = a2
  a3 = a3
  Accounts = {a1, a2, a3}
  NoAccount = NoAccount
  Dids = {1, 2}
  NoDid = 0
  Txs <- LessTxs
  ParamSets <- MixedParams
  GenesisBal <- Funds
  GenesisOwner <- OwnHolder
  GenesisGrants <- SponsorGrants
  BpsDenominator = 10
  Retention = 1
  Budget = 1
  MaxDay = 3
  MaxOwed = 8
SPECIFICATION FairSpec
INVARIANTS
  FeesFullyRouted
  QuotaPerHuman
PROPERTIES
  StaleQuotaGoes
  UnsignedDebitGranted
