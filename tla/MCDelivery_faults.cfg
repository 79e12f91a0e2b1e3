\* One user with two addresses, an operator and one fault.
SPECIFICATION Spec
CONSTANTS
  None = None
  u1 = u1
  u2 = u2
  a1 = a1
  a2 = a2
  r1 = r1
  SendFloor = 20
  PurgeFloor = 20
  User = {u1}
  Addr = {a1, a2}
  Request = {r1}
  Recipients <- OneUser
  Validity = 3
  NeverExpires = {}
  UserRules = {}
  GroupRules = {}
  ReminderDays = {1, 2}
  LogRetention = 1
  NotifyCap = 500
  NotifyRatio <- Half
  Attempts = 2
  FirstChange <- Yesterday
  DryRun = {FALSE}
  Toggled = {}
  ChangeDays = {1}
  MaxDay = 2
  MaxFaults = 1
INVARIANTS TypeOK SentMeansHandedOver
PROPERTIES KeepsPromise NeverLessUrgent
SYMMETRY Addresses
CHECK_DEADLOCK FALSE
