\* Two users, an exclusion rule, the brake, trimmed history, no operator sends.
SPECIFICATION Spec
CONSTANTS
  None = None
  u1 = u1
  u2 = u2
  a1 = a1
  a2 = a2
  r1 = r1
  SendFloor = 3
  PurgeFloor = 20
  User = {u1, u2}
  Addr = {a1}
  Request = {r1}
  Recipients <- TwoUsers
  Validity = 2
  NeverExpires = {}
  UserRules = {}
  GroupRules = {u2}
  ReminderDays = {0, 1}
  LogRetention = 1
  NotifyCap = 1
  NotifyRatio <- NoRatio
  Attempts = 2
  FirstChange <- Staggered
  DryRun = {FALSE, TRUE}
  Toggled = {u1}
  ChangeDays = {}
  MaxDay = 2
  MaxFaults = 0
INVARIANTS RunWithinBrake
PROPERTIES FinishedRunLeavesTrace
CHECK_DEADLOCK FALSE
