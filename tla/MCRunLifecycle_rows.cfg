\* One tenant with two accounts: retention, faults and the row of a run.
SPECIFICATION Spec
CONSTANTS
  None = None
  t1 = t1
  t2 = t2
  x = x
  y = y
  m = m
  Cron = cron
  SendFloor = 20
  PurgeFloor = 20
  Tenant = {t1}
  Account = {x, y}
  Manual = {}
  UserRetention = 1
  AuditRetention = TRUE
  NotifyCap = 1
  Reconfigurable = {}
  Moving = {x}
  Switchable = {}
  MaxRows = 2
  MaxFaults = 2
INVARIANTS TypeOK RowsAddUp PurgesAreRecorded
PROPERTIES RestartSettlesRuns PurgeSparesPresent
CHECK_DEADLOCK FALSE
