SPECIFICATION Spec
CONSTANTS
  a1 = a1
  a2 = a2
  a3 = a3
  t1 = t1
  t2 = t2
  laptop = laptop
  other = other
  NoInstance = NoInstance
  NoAgent = NoAgent
  Agents = {a1, a2, a3}
  Tasks = {t1, t2}
  Instance <- MCInstance
  Capable <- MCCapable
  Target <- MCTarget
  Needs <- MCNeeds
  MaxMemory = 1
  MaxAttempts <- MCMaxAttempts
  MaxFinished = 1
  MaxParked = 1
INVARIANTS
  TypeOK
  PendingExact
  NoIdleMatch
  AttemptBudget
  DispatchSound
  OneRegistration
PROPERTY ImplementsLifecycle
CHECK_DEADLOCK FALSE
