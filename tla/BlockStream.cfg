SPECIFICATION FairSpec
CONSTANTS
  MaxBlocks = 5
  Margin = 1
  BlocksBuffer = 2
  SilentIn = {"live"}
  MaxFaults = 3
PROPERTY LogSpec
CHECK_DEADLOCK FALSE
