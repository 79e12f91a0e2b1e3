SPECIFICATION Spec
CONSTANTS
  u1 = u1
  u2 = u2
  u3 = u3
  c1 = c1
  c2 = c2
  p = p
  g1 = g1
  g2 = g2
  w1 = w1
  w2 = w2
  teams = teams
  admins = admins
  leaver = leaver
  Accounts = {u1, u2, u3}
  Customers = {c1}
  Provider = p
  None = None
  Teams = {g1, g2}
  Workers = {w1, w2}
  Movers = {u1, u2}
  Issuers = {u1}
  Scenes = {teams, admins}
  Ops <- OpsOf
  StartAccount <- AccountOf
  StartGrant <- GrantOf
  StartTeam <- TeamOf
  StartDirectory <- DirectoryOf
  MaxChanges = 3
  MaxCrashes = 1
INVARIANTS TypeOK CustomerIsolation CustomerStaysHome SyncSettles KeepsASuperadmin
PROPERTIES SyncSparesOthers ManualSurvives KeepsAnAdmin
SYMMETRY SwapWorkers
CHECK_DEADLOCK FALSE
