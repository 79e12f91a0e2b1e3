------------------------------- MODULE MCGrants -------------------------------
(* Instances of Grants: who exists, what was granted and by whom.          *)
EXTENDS Grants, TLC

CONSTANTS u1, u2, u3, c1, c2, p, g1, g2, w1, w2, teams, admins, leaver

\* The scene "teams": a member of the provider's staff, known to the first team and
\* holding what it grants; a customer's administrator whom Entra names as a member of
\* the second.  People join and leave, and the server may crash.
TeamAccount ==
  [u \in Accounts |-> CASE u = u1 -> SsoRow("admin", p)
                        [] u = u2 -> SsoRow("admin", c1)
                        [] OTHER -> None]
TeamGrant ==
  [x \in Accounts \X Tenants \X Kinds |->
     IF x = <<u1, c1, "admin">> THEN "group" ELSE "none"]
TeamStart ==
  [g \in Teams |-> IF g = g1 THEN [role |-> "admin", tenants |-> {c1}, members |-> {u1}]
                   ELSE [role |-> "auditor", tenants |-> {c1}, members |-> {u2}]]
TeamDirectory == [g \in Teams |-> IF g = g1 THEN {u1} ELSE {u2}]
TeamOps == {"sync", "login", "edit", "set", "move", "crash"}

\* The scene "admins": a superadmin, and two administrators of the customer c1, one
\* local with a row made by hand, one of the customer's own SSO.  There are no teams.
StaffAccount ==
  [u \in Accounts |-> CASE u = u1 -> LocalRow("superadmin", p)
                        [] u = u2 -> LocalRow("admin", c1)
                        [] OTHER -> SsoRow("admin", c1)]
StaffGrant ==
  [x \in Accounts \X Tenants \X Kinds |->
     IF x = <<u2, c1, "admin">> THEN "manual" ELSE "none"]
NoTeams == [g \in Teams |-> None]
NoMembers == [g \in Teams |-> {}]
StaffOps == {"set", "add", "remove", "role", "promote", "demote", "delete", "sso",
             "purge", "create", "serve"}

\* The scene "leaver" begins as "teams" does and has nothing but syncs.
Pick(a, b) == [s \in Scenes |-> IF s = admins THEN b ELSE a]
OpsOf == [s \in Scenes |-> CASE s = teams -> TeamOps
                            [] s = admins -> StaffOps
                            [] OTHER -> {"sync", "move"}]
AccountOf == Pick(TeamAccount, StaffAccount)
GrantOf == Pick(TeamGrant, StaffGrant)
TeamOf == Pick(TeamStart, NoTeams)
DirectoryOf == Pick(TeamDirectory, NoMembers)
SwapWorkers == Permutations(Workers)
=============================================================================
