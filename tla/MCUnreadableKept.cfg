SPECIFICATION Spec
CONSTANTS
  plain = plain
  secret = secret
  NoAgent = NoAgent
  Tasks = {plain, secret}
  Agents = {a1}
  Secret = {secret}
  MaxAttempts <- MCMaxAttempts
  MaxTrouble = 2
PROPERTIES
  UnreadableKept
CHECK_DEADLOCK FALSE
