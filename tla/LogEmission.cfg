SPECIFICATION Spec
CONSTANTS
  Absent = Absent
  Bytes32Size = 3
  Uint128Size = 2
  CiphertextSize = 2
  PayloadSize = 2
  ByteValues = {0, 1}
INVARIANT DecodedIsEmitted
CHECK_DEADLOCK FALSE
