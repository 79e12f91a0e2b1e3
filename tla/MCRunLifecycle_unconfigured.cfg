\* Graph is taken out of the configuration for longer than the retention.
SPECIFICATION Spec
CONSTANTS
  None = None
  t1 = t1
  t2 = t2
  x = x
  y = y
  m = m
  Cron = cron
  SendFloor = 20
  PurgeFloor = 20
  Tenant = {t1}
  Account = {x, y}
  Manual = {}
  UserRetention = 1
  AuditRetention = FALSE
  NotifyCap = 0
  Reconfigurable = {t1}
  Moving = {}
  Switchable = {}
  MaxRows = 3
  MaxFaults = 0
PROPERTIES PurgeSparesPresent
CHECK_DEADLOCK FALSE
