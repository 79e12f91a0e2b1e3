\* Two tenants, the cron job and an operator: the lock and the fan-out.
SPECIFICATION LiveSpec
CONSTANTS
  None = None
  t1 = t1
  t2 = t2
  x = x
  y = y
  m = m
  Cron = cron
  SendFloor = 20
  PurgeFloor = 20
  Tenant = {t1, t2}
  Account = {}
  Manual = {m}
  UserRetention = 0
  AuditRetention = FALSE
  NotifyCap = 0
  Reconfigurable = {t1}
  Moving = {}
  Switchable = {t2}
  MaxRows = 2
  MaxFaults = 1
PROPERTIES PickedIsServed LockIsPassedOn
CHECK_DEADLOCK FALSE
