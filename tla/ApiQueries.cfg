SPECIFICATION ApiSpec
CONSTANTS
  None = None
  Err = Err
  Absent = None
  Bytes32Size = 2
  Uint128Size = 1
  CiphertextSize = 1
  PayloadSize = 1
  SlotMillis = 6000
  MaxDtime = 999
  BlockLimit = 4
  Bodies <- ApiBodies
  Geneses <- ApiGeneses
  MaxHeight = 3
  BlocksBuffer = 1
  CaughtUpMaxDistance = 0
  CaughtUpLeeway = 1
  MaxStops = 0
  GenerationDecayRate = 1
  NightDustRatio = 8
  Requests <- MCRequests
  EventFilters <- MCEventFilters
  NullifierPrefixes <- MCNullifierPrefixes
  MaxPage = 3
  Retained = 2
INVARIANTS BlockAnswer TransactionAnswer ContractAnswer DustAnswer BridgeAnswer NoServerError SelectionsAreExact
PROPERTY PinnedAnswersStay
CHECK_DEADLOCK FALSE
