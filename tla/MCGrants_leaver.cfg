SPECIFICATION Spec
CONSTANTS
  u1 = u1
  u2 = u2
  u3 = u3
  c1 = c1
  c2 = c2
  p = p
  g1 = g1
  g2 = g2
  w1 = w1
  w2 = w2
  teams = teams
  admins = admins
  leaver = leaver
  Accounts = {u1}
  Customers = {c1}
  Provider = p
  None = None
  Teams = {g1}
  Workers = {w1}
  Movers = {u1}
  Issuers = {u1}
  Scenes = {leaver}
  Ops <- OpsOf
  StartAccount <- AccountOf
  StartGrant <- GrantOf
  StartTeam <- TeamOf
  StartDirectory <- DirectoryOf
  MaxChanges = 2
  MaxCrashes = 0
INVARIANT LeaverIsRemoved
CHECK_DEADLOCK FALSE
