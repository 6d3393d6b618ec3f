SPECIFICATION Spec
CONSTANTS
  plain = plain
  secret = secret
  NoAgent = NoAgent
  Tasks = {plain, secret}
  Agents = {a1}
  Secret = {secret}
  MaxAttempts <- MCMaxAttempts
  MaxTrouble = 2
INVARIANTS
  TypeOK
  JournalCatchesUp
  ClosedComplete
  RestoredBudget
  OneReceiptAcrossRestarts
PROPERTIES
  DurableLifecycle
  AnswersStand
CHECK_DEADLOCK FALSE
