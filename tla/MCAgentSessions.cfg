SPECIFICATION FairSpec
CONSTANTS
  first = first
  second = second
  Procs <- Pair
  NumHosts = 1
  NumIds = 7
  MaxTrouble = 1
INVARIANTS
  Survivor
PROPERTIES
  EvictionEnds
  ReportsHeard
CHECK_DEADLOCK FALSE
