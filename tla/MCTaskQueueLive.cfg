SPECIFICATION FairSpec
CONSTANTS
  a1 = a1
  a2 = a2
  t1 = t1
  t2 = t2
  NoInstance = NoInstance
  NoAgent = NoAgent
  Agents = {a1, a2}
  Tasks = {t1, t2}
  Instance <- MCInstance
  Capable <- MCCapable
  Target <- MCTarget
  Needs <- MCNeeds
  MaxMemory = 0
  MaxAttempts <- MCMaxAttempts
  MaxFinished = 1
  MaxParked = 1
PROPERTIES
  NoStarvation
  EventuallyFinished
CHECK_DEADLOCK FALSE
