SPECIFICATION AnySpec
CONSTANTS
  Parts = {"settings"}
  None = None
  Workers = {w1}
  Browsers = {b1}
  TimeSteps = {s1}
  Required = {TRUE, FALSE}
  AtFirst <- EitherAccount
  MaxFailures = 3
  SetSize = 2
  MaxSecrets = 3
  MaxCodes = 6
  MaxRequests = 0
  MaxEnds = 0
  Tenants = {d}
  Default = d
  Good = {c1}
  Bad = {x1}
  Kept = c1
  Types = {png}
  Along = {"none"}
  MaxSettings = 2
  MaxFaults = 1
  People = {1, 2}
  PageSize = 1
  Foreign = foreign
  Cleartext = cleartext
  MaxPages = 3
  MaxAttempts = 2
  Margin = 2
  Transit = 1
  Lifetimes = {4}
  Waits = {0, 2}
  MaxTime = 5
  MaxCalls = 2
  MaxChanges = 2
INVARIANT Restartable
CHECK_DEADLOCK FALSE
