\* One user, one address: every reminder that is owed is paid in the end.
SPECIFICATION LiveSpec
CONSTANTS
  None = None
  u1 = u1
  u2 = u2
  a1 = a1
  a2 = a2
  r1 = r1
  SendFloor = 20
  PurgeFloor = 20
  User = {u1}
  Addr = {a1}
  Request = {r1}
  Recipients <- OneMailbox
  Validity = 2
  NeverExpires = {}
  UserRules = {}
  GroupRules = {}
  ReminderDays = {0, 1}
  LogRetention = 1
  NotifyCap = 500
  NotifyRatio <- Half
  Attempts = 2
  FirstChange <- Yesterday
  DryRun = {FALSE}
  Toggled = {}
  ChangeDays = {1}
  MaxDay = 2
  MaxFaults = 1
PROPERTIES OwedIsPaid
CHECK_DEADLOCK FALSE
