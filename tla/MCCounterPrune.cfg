CONSTANTS
  Live = Live
  Day <- RingDays
  TotalDay <- RingTotals
  Budget = 1
  Retention = 1
  MaxDay = 3
SPECIFICATION PruneSpec
PROPERTIES
  StaleCountersGo
