SPECIFICATION Spec
CONSTANTS
  first = first
  second = second
  Procs <- Pair
  NumHosts = 2
  NumIds = 7
  MaxTrouble = 0
INVARIANTS
  OneSurvivor
CHECK_DEADLOCK FALSE
