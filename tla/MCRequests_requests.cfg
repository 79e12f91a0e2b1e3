SPECIFICATION AnySpec
CONSTANTS
  Parts = {"signin", "settings", "graph"}
  None = None
  Workers = {w1, w2}
  Browsers = {b1, b2}
  TimeSteps = {s1, s2}
  Required = {TRUE, FALSE}
  AtFirst <- EitherAccount
  MaxFailures = 3
  SetSize = 2
  MaxSecrets = 3
  MaxCodes = 6
  MaxRequests = 6
  MaxEnds = 2
  Tenants = {d, t1}
  Default = d
  Good = {c1, c2}
  Bad = {x1}
  Kept = c1
  Types = {png, svg}
  Along = {"none"}
  MaxSettings = 3
  MaxFaults = 1
  People = {1, 2}
  PageSize = 1
  Foreign = foreign
  Cleartext = cleartext
  MaxPages = 3
  MaxAttempts = 2
  Margin = 2
  Transit = 1
  Lifetimes = {4}
  Waits = {0, 2}
  MaxTime = 5
  MaxCalls = 2
  MaxChanges = 2
INVARIANTS AllTyped LockedInTime OnIsProven DeadCodesStayDead CodeUses
INVARIANTS TlsRuleHolds LogoIsThere JobFollowsSchedule AuditedOrDied OneFounder
INVARIANTS TokenInGoodHands AnswersAreTrue
PROPERTIES LockStands
SYMMETRY Swaps
CHECK_DEADLOCK FALSE
