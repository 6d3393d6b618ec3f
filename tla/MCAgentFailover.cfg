SPECIFICATION FairSpec
CONSTANTS
  first = first
  second = second
  Procs <- Alone
  NumHosts = 2
  NumIds = 7
  MaxTrouble = 2
INVARIANTS
  TypeOK
PROPERTIES
  Attached
  ComesHome
CHECK_DEADLOCK FALSE
