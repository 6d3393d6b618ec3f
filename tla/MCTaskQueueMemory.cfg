SPECIFICATION Spec
CONSTANTS
  a1 = a1
  a2 = a2
  t1 = t1
  t2 = t2
  t3 = t3
  NoInstance = NoInstance
  NoAgent = NoAgent
  Agents = {a1, a2}
  Tasks = {t1, t2, t3}
  Instance <- MCInstance
  Capable <- MCCapable
  Target <- MCTarget
  Needs <- MCNeeds
  MaxMemory = 2
  MaxAttempts <- MCMaxAttempts
  MaxFinished = 1
  MaxParked = 1
INVARIANTS
  LedgerExact
  EndsExact
CHECK_DEADLOCK FALSE
