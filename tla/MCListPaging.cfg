SPECIFICATION FairSpec
CONSTANTS
  Name = {a, b, c}
  Size = {1, 2, 5}
  MaxHandlers = 2
  ResultScratch = 4
  HeaderLen = 2
  MaxPages = 3
  MaxBinds = 1
INVARIANT NoDuplicates
INVARIANT ListIsComplete
PROPERTY ListEnds
CHECK_DEADLOCK FALSE
