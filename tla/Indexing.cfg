SPECIFICATION Spec
CONSTANTS
  None = None
  Err = Err
  Absent = None
  Bytes32Size = 2
  Uint128Size = 1
  CiphertextSize = 1
  PayloadSize = 1
  SlotMillis = 6000
  MaxDtime = 999
  BlockLimit = 4
  Bodies <- MCBodies
  Geneses <- MCGeneses
  MaxHeight = 3
  BlocksBuffer = 2
  CaughtUpMaxDistance = 0
  CaughtUpLeeway = 1
  MaxStops = 1
INVARIANTS NeverFails AuthorIsProducer TablesAreLedger RegistrationsAreObserved EmittersAreNamed
CHECK_DEADLOCK FALSE
