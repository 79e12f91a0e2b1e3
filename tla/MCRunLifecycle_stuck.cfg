\* No fault at all: a departed account that was once mailed.
SPECIFICATION Spec
CONSTANTS
  None = None
  t1 = t1
  t2 = t2
  x = x
  y = y
  m = m
  Cron = cron
  SendFloor = 20
  PurgeFloor = 20
  Tenant = {t1}
  Account = {x, y}
  Manual = {}
  UserRetention = 1
  AuditRetention = FALSE
  NotifyCap = 0
  Reconfigurable = {}
  Moving = {x, y}
  Switchable = {}
  MaxRows = 3
  MaxFaults = 0
INVARIANTS RunningMeansLive
CHECK_DEADLOCK FALSE
