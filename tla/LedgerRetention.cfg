\* The retention may be another at every start: the window grows and shrinks.
SPECIFICATION FairSpec
CONSTANTS
  Root = {r1, r2}
  Fresh = Fresh
  MaxBlocks = 5
  Retentions = {2, 3}
  MaxStops = 2
INVARIANTS NeverFails RecentIsLoadable
PROPERTY EverythingIsIndexed
CHECK_DEADLOCK FALSE
