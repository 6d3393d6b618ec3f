SPECIFICATION MCSpec
CONSTANTS
  q1 = q1
  q2 = q2
  jack = jack
  Requests <- MCRequests
  Emails <- MCEmails
  NumUsers = 2
  NumInvites = 1
  NumKeys = 2
  NoOne = NoOne
  MaxFailures = 1
  MaxSaves = 2
  Callers <- MCRequests
  NumNotes = 3
  MaxUnwritten = 3
  Clicks <- MCRequests
  Allowance = 1
  NumMonths = 2
  NumSubs = 2
  MaxEvents = 2
  Plays <- MCRequests
  Tracks = {s1, s2}
  NumSlices = 2
  MaxRestarts = 2
  CacheMax = 1
  MaxVersions = 3
  StoreKeys = {1, 2, 3}
  Limit = 4
  MaxValue = 5
  Total = 9
  Reserve = 2
  Quota = 2
  Batch = 2
  RenderTries = 2
  MaxTasks = 3
  MaxJobs = 2
  MaxAsked = 2
  MaxResets = 1
  MaxSketches = 2
  Threshold = 1
  Confirmations = 2
  Cooldown = 1
  PerHour = 2
  PerDay = 2
  Hour = 3
  Day = 4
  MaxTime = 4
  MaxCuts = 1
  MaxBuilds = 2
  Slots = 2
  Lease = 3
  Grace = 2
  ThrottleMax = 1
  Retries = 1
  Tries = 2
  MaxRuns = 2
  NumOthers = 2
  MaxRelease = 2
  Failures = 2
  Recover = 2
  LocalFailures = 2
  Stay = FALSE
  MinWindow = 2
  MinInterval = 3
  StaleAfter = 2
  Transit = 1
  LoadAverage = FALSE
  MaxNow = 9
  MaxProcesses = 2
  MaxSent = 2
SYMMETRY MCSymmetry
INVARIANTS
  ComponentsTypeOK
  InboxSound
  BillingSound
  CacheWhole
  LentOnce
  OwnOutputs
  BudgetKept
  InTime
  LoadSound
PROPERTIES
  AccountsKept
  AccountsGuarded
  ReportTrue
CHECK_DEADLOCK FALSE
