SPECIFICATION FairSpec
CONSTANTS
  SlotsPerEpoch = 2
  SlotDuration = 6
  FirstBlock = 1
  MaxEpochs = 2
  Registrations <- MCRegistrations
  Committees <- MCCommittees
  PageSize = 2
  Departures = {FALSE, TRUE}
INVARIANT SpoQueriesAgree
PROPERTIES PoolsTakeTurns EveryPoolIsRefreshed EpochsAreSaved
CHECK_DEADLOCK FALSE
