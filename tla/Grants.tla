-------------------------------- MODULE Grants --------------------------------
(***************************************************************************)
(* The requests that change who may see which customer.  Teams are Entra   *)
(* security groups of the provider: a team keeps a snapshot of its members *)
(* and a sync or an SSO login turns membership into rows with source       *)
(* 'group'.  The superadmin assigns customers by hand, changes roles and   *)
(* deletes accounts and tenants; the SSO sync adds and removes accounts.   *)
(*                                                                         *)
(* Every request is a job of one worker and runs in a database transaction *)
(* of its own (READ COMMITTED).  add_grant and remove_grant commit, so a   *)
(* job becomes visible row by row, and a commit carries along whatever the *)
(* job had written until then: job.snap and job.pend.  A row that another  *)
(* transaction has written and not committed blocks the writer.            *)
(*                                                                         *)
(* The instance is in multi-tenant mode throughout.                        *)
(***************************************************************************)
EXTENDS AccessModel

CONSTANTS
  Teams,
  Workers,        \* requests under way at the same time
  Movers,         \* who may be put into a group and taken out of it in Entra
  Issuers,        \* accounts that have issued an invitation or a reset link
  Scenes,         \* situations to start in; for each of them:
  Ops,            \* the requests that come in and the events that happen
  StartAccount,   \* the accounts, rows, teams and group members there are
  StartGrant,
  StartTeam,
  StartDirectory,
  MaxChanges,     \* bound: requests, console edits, membership changes
  MaxCrashes      \* bound: crashes of the server

AllOps == {"sync", "login", "set", "add", "remove", "role", "promote",
           "demote", "delete", "sso", "purge", "create", "edit", "serve", "move", "crash"}

TeamRows == [role : Kinds, tenants : SUBSET Tenants, members : SUBSET Accounts]

ASSUME GrantsAssumption ==
  /\ None \notin Teams \union TeamRows \union Workers
  /\ Issuers \subseteq Accounts /\ Movers \subseteq Accounts
  /\ Ops \in [Scenes -> SUBSET AllOps]
  /\ StartAccount \in [Scenes -> [Accounts -> AccountRows \union {None}]]
  /\ StartGrant \in [Scenes -> [Accounts \X Tenants \X Kinds -> Sources]]
  /\ StartTeam \in [Scenes -> [Teams -> TeamRows \union {None}]]
  /\ StartDirectory \in [Scenes -> [Teams -> SUBSET Accounts]]
  /\ MaxChanges \in Nat /\ MaxCrashes \in Nat

\* The situations are ones the database can be in: no row without its account, none
\* across customers, and superadmins are local accounts.
ASSUME StartAssumption ==
  \A s \in Scenes, u \in Accounts :
    LET row == StartAccount[s][u] IN
    /\ row # None /\ row.sso => row.role # "superadmin"
    /\ row = None \/ row.home # Provider =>
         \A t \in Tenants, k \in Kinds :
           \/ StartGrant[s][<<u, t, k>>] = "none"
           \/ row # None /\ row.home = t /\ StartGrant[s][<<u, t, k>>] = "manual"

VARIABLES
  scene,      \* the one it started in
  team,       \* assignment_group with its tenants and members, or None
  directory,  \* Entra: the members of the group behind each team
  job,        \* what each worker is doing
  changes,
  crashes,
  history     \* what has happened that a sync alone does not make good

bounds == <<scene, changes, crashes>>
vars == <<access, team, directory, job, bounds, history>>

NoPend == [u \in Accounts |-> None]

Idle ==
  [pc |-> "idle", op |-> "sync", team |-> None, user |-> None,
   fetched |-> {}, left |-> {}, gone |-> {}, doomed |-> {},
   want |-> [k \in Kinds |-> {}], kind |-> "admin", add |-> {}, del |-> {},
   tenant |-> None, snap |-> FALSE, pend |-> NoPend]

Jobs ==
  [pc : {"idle", "snapshot", "member", "diff", "write", "leavers", "commit",
         "account", "invited", "revoke", "migrate", "clear", "remove", "tenant"},
   op : AllOps,
   team : Teams \union {None},
   user : Accounts \union {None},
   fetched : SUBSET Accounts,        \* members or accounts the request names
   left : SUBSET Accounts,           \* of these, still to be looked at
   gone : SUBSET Accounts,           \* members that left the team
   doomed : SUBSET Accounts,         \* deleted, not committed
   want : [Kinds -> SUBSET Tenants],
   kind : Kinds,                     \* the table being written
   add : SUBSET Tenants,
   del : SUBSET Tenants,
   tenant : Tenants \union {None},   \* the one the request is about
   snap : BOOLEAN,                   \* the snapshot is written, not committed
   pend : [Accounts -> AccountRows \union {None}]]  \* so are these accounts

TypeOK ==
  /\ AccessTypeOK
  /\ scene \in Scenes
  /\ team \in [Teams -> TeamRows \union {None}]
  /\ directory \in [Teams -> SUBSET Accounts]
  /\ job \in [Workers -> Jobs]
  /\ changes \in 0..MaxChanges
  /\ crashes \in 0..MaxCrashes
  /\ history \subseteq {"overlap", "crash", "unsynced"}

------------------------------------------------------------------------------
(* What a transaction sees, what it locks, what its commit makes visible.  *)

TeamNow(w) ==
  IF job[w].snap THEN [team EXCEPT ![job[w].team].members = job[w].fetched]
                 ELSE team

(* Mutant: membership is read as it was before the snapshot. *)
TeamsOfMutStale(w, u) == {g \in Teams : team[g] # None /\ u \in team[g].members}
\* groups_containing_upn, as w sees it
TeamsOf(w, u) == {g \in Teams : team[g] # None /\ u \in TeamNow(w)[g].members}

\* the groups claim of a token, as far as it names teams
Claims(u) == {g \in Teams : team[g] # None /\ u \in directory[g]}

\* tenant_role_map_for_entra_groups: an admin team wins
Desired(teams) ==
  LET of(role) == UNION {team[g].tenants : g \in {h \in teams : team[h].role = role}}
  IN  [k \in Kinds |-> IF k = "admin" THEN of("admin")
                                      ELSE of("auditor") \ of("admin")]

Staff(u) == Exists(u) /\ IsProvider(u)
SnapshotTeams(u) == {g \in Teams : team[g] # None /\ u \in team[g].members}

\* A member of the staff has the rows its teams want, and no other of theirs.
InLine(u) ==
  Staff(u) => \A k \in Kinds :
    LET want == Desired(SnapshotTeams(u))[k] IN
    GroupRows(u, k) \subseteq want /\ want \subseteq Rows(u, k)

AccountNow(w) ==
  [u \in Accounts |-> IF u \in job[w].doomed THEN None
                      ELSE IF job[w].pend[u] # None THEN job[w].pend[u]
                      ELSE account[u]]

LocksAccount(w, u) == job[w].pend[u] # None \/ u \in job[w].doomed
LocksTeam(w, g) == job[w].snap /\ job[w].team = g
Others(w) == Workers \ {w}
CanWrite(w, u) == \A v \in Others(w) : ~LocksAccount(v, u)
Overlaps(w) == \E v \in Others(w) : job[v].pc # "idle"  \* w may be None

Keep(j) == [j EXCEPT !.snap = FALSE, !.pend = NoPend, !.doomed = {}]

\* w commits, leaves the rows as g, and goes on as j.
Commit(w, g, j) ==
  /\ account' = AccountNow(w)
  /\ grant' = g
  /\ team' = TeamNow(w)
  /\ job' = [job EXCEPT ![w] = Keep(j)]
  /\ UNCHANGED <<known, serving, directory, bounds, history>>

\* w goes on as j; nobody else can see that yet.
Go(w, j) ==
  /\ job' = [job EXCEPT ![w] = j]
  /\ UNCHANGED <<access, team, directory, bounds, history>>

\* An error: the transaction is rolled back, what was committed stays.
Abandon(w) == Go(w, Idle)

Counts == changes < MaxChanges /\ changes' = changes + 1

Marks(event, holds) == IF holds THEN {event} ELSE {}

\* A request starts as j.  It may overlap with another one, and it may leave
\* something that only a sync of every team would make good.
Starts(w, op, j, unsynced) ==
  /\ op \in Ops[scene] /\ job[w].pc = "idle" /\ Counts
  /\ job' = [job EXCEPT ![w] = [j EXCEPT !.op = op]]
  /\ history' = history \union Marks("overlap", Overlaps(w))
                        \union Marks("unsynced", unsynced)
  /\ UNCHANGED <<directory, scene, crashes>>

At(w, pc) == job[w].pc = pc

\* A request keeps the id of its account: while one still works on a deleted
\* account, no other account takes the name here.
Fresh(u) == ~Exists(u) /\ \A w \in Workers : job[w].user # u

------------------------------------------------------------------------------
(* sync_group                                                              *)

Fetched(g) == [Idle EXCEPT !.pc = "snapshot", !.team = g, !.fetched = directory[g]]

\* The members come from Graph before anything is read from the database.
SyncFetch(w, g) ==
  /\ team[g] # None
  /\ Starts(w, "sync", Fetched(g), FALSE)
  /\ UNCHANGED <<access, team>>

\* reconcile_snapshot, not committed.  The old and the new members are looked
\* at, so that those who left lose what the team gave them.
SyncSnapshot(w) ==
  LET g == job[w].team  old == team[g].members  new == job[w].fetched IN
  /\ At(w, "snapshot") /\ team[g] # None
  /\ \A v \in Others(w) : ~LocksTeam(v, g)
  /\ Go(w, [job[w] EXCEPT !.pc = "member", !.snap = TRUE,
                          !.left = old \union new, !.gone = old \ new])

SyncTeamGone(w) ==
  At(w, "snapshot") /\ team[job[w].team] = None /\ Abandon(w)

\* reconcile_group_grants for one member: only accounts of the provider.
SyncMember(w, u) ==
  /\ At(w, "member") /\ u \in job[w].left
  /\ Go(w, LET j == [job[w] EXCEPT !.left = @ \ {u}] IN
           IF Exists(u) /\ IsProvider(u)
             THEN [j EXCEPT !.pc = "diff", !.user = u, !.kind = "admin",
                            !.want = Desired(TeamsOf(w, u))]
             ELSE j)

SyncMembersDone(w) ==
  /\ At(w, "member") /\ job[w].left = {}
  /\ Go(w, [job[w] EXCEPT !.pc = "leavers"])

(* Mutant: whose account it is does not matter. *)
FullyDeprovisionedMutAnyHome(w, u) ==
  /\ Exists(u)
  /\ account[u].sso
  /\ account[u].role # "superadmin"
  /\ TeamsOf(w, u) = {}
  /\ ~HasRows(u)
\* _is_fully_deprovisioned: the gate before an account is deleted
FullyDeprovisioned(w, u) ==
  /\ Exists(u)
  /\ account[u].sso
  /\ account[u].role # "superadmin"
  /\ IsProvider(u)
  /\ TeamsOf(w, u) = {}
  /\ ~HasRows(u)

SyncLeavers(w) ==
  LET doomed == {u \in job[w].gone : FullyDeprovisioned(w, u)} IN
  /\ At(w, "leavers")
  /\ \A u \in doomed : CanWrite(w, u)
  /\ Go(w, [job[w] EXCEPT !.pc = "commit", !.doomed = doomed])

------------------------------------------------------------------------------
(* oidc_callback: an SSO login authorised by team membership               *)

SsoRow(role, home) == [role |-> role, sso |-> TRUE, active |-> TRUE, home |-> home]

\* resolve_group_role: the highest role among the teams the token names
TeamRole(u) ==
  IF \E g \in Claims(u) : team[g].role = "admin" THEN "admin" ELSE "auditor"

\* A new account is committed without a home; its home, like the role and the
\* home of an account that is there, waits for the next commit.
Login(w, u) ==
  /\ Claims(u) # {}
  /\ CanWrite(w, u)
  /\ IF Exists(u) THEN account[u].sso /\ account[u].active ELSE Fresh(u)
  /\ account' = IF Exists(u) THEN account
                ELSE [account EXCEPT ![u] = SsoRow(TeamRole(u), None)]
  /\ Starts(w, "login",
            [Idle EXCEPT !.pc = "diff", !.user = u, !.want = Desired(Claims(u)),
                         !.pend[u] = SsoRow(TeamRole(u), Provider)],
            Claims(u) # TeamsOf(w, u))
  /\ UNCHANGED <<known, serving, grant, team>>

------------------------------------------------------------------------------
(* Writing the rows of one account: reconcile_group_grants first brings    *)
(* admin_tenant in line with what the teams want, then auditor_tenant; an  *)
(* assignment and a new account write one table.                           *)

ByTeam(w) == job[w].op \in {"sync", "login"}

\* The rows of one table are read, and the difference is what will be written;
\* a row made by hand is neither wanted again nor removed.
Diff(w) ==
  LET j == job[w]  want == j.want[j.kind] IN
  /\ At(w, "diff")
  /\ Go(w, [j EXCEPT !.pc = "write", !.add = want \ Rows(j.user, j.kind),
                     !.del = GroupRows(j.user, j.kind) \ want])

\* add_grant; the reconcile passes over a tenant that is not active.
WriteAdd(w, t) ==
  LET j == job[w]  rest == [j EXCEPT !.add = @ \ {t}] IN
  /\ At(w, "write") /\ t \in j.add
  /\ IF ByTeam(w) /\ ~IsActive(t)
       THEN Go(w, rest)
       ELSE /\ AccountNow(w)[j.user] # None /\ HasTenant(t)
            /\ Commit(w, WithRow(j.user, t, j.kind,
                                 IF ByTeam(w) THEN "group" ELSE "manual"), rest)

\* The account or the tenant is gone: the foreign key refuses the row.
WriteRefused(w) ==
  LET j == job[w] IN
  /\ At(w, "write")
  /\ \E t \in j.add : /\ AccountNow(w)[j.user] = None \/ ~HasTenant(t)
                      /\ ~ByTeam(w) \/ IsActive(t)
  /\ Abandon(w)

\* remove_grant; an assignment first asks who would be left.
WriteRemove(w, t) ==
  LET j == job[w] IN
  /\ At(w, "write") /\ j.add = {} /\ t \in j.del
  /\ IF ByTeam(w)
       THEN Commit(w, WithoutRow(j.user, t, j.kind), [j EXCEPT !.del = @ \ {t}])
       ELSE Go(w, IF WouldLockOut(t, j.kind) THEN Idle
                  ELSE [j EXCEPT !.pc = "revoke", !.tenant = t])

Revoke(w) ==
  LET j == job[w] IN
  /\ At(w, "revoke")
  /\ Commit(w, WithoutRow(j.user, j.tenant, j.kind),
            [j EXCEPT !.pc = "write", !.del = @ \ {j.tenant}, !.tenant = None])

Written(w) == At(w, "write") /\ job[w].add = {} /\ job[w].del = {}

WriteDone(w) ==
  LET j == job[w]  on == [j EXCEPT !.user = None, !.kind = "admin"] IN
  /\ Written(w)
  /\ Go(w, CASE ByTeam(w) /\ j.kind = "admin" ->
                  [j EXCEPT !.pc = "diff", !.kind = "auditor"]
             [] j.op = "sync" /\ j.kind = "auditor" ->
                  [on EXCEPT !.pc = "member", !.want = Idle.want]
             [] j.op = "create" \/ (j.op = "login" /\ j.kind = "auditor") ->
                  [on EXCEPT !.pc = "commit"]
             [] OTHER -> [on EXCEPT !.pc = "account"])

------------------------------------------------------------------------------
(* bulk_assign; set_assignments is "set" for one account                   *)

Assign(w, op, us, ts) ==
  /\ op \in {"set", "add", "remove"} \intersect Ops[scene]
  /\ op # "remove" => \A t \in ts : IsActive(t)
  /\ Starts(w, op, [Idle EXCEPT !.pc = "account", !.left = us,
                                !.want = [k \in Kinds |-> ts]], TRUE)
  /\ UNCHANGED <<access, team>>

Requested(w, existing) ==
  LET ts == job[w].want["admin"] IN
  CASE job[w].op = "add" -> existing \union ts
    [] job[w].op = "remove" -> existing \ ts
    [] OTHER -> ts

\* An account that is gone, a superadmin, or one of a customer that may not be
\* granted what is requested is skipped.
AssignAccount(w, u) ==
  /\ At(w, "account") /\ u \in job[w].left
  /\ Go(w, LET j == [job[w] EXCEPT !.left = @ \ {u}]
               kind == GrantKind(account[u].role)
               existing == Rows(u, kind)
               requested == Requested(w, existing) IN
           IF /\ Exists(u)
              /\ account[u].role # "superadmin"
              /\ CrossGrantLockAllows(u, requested)
             THEN [j EXCEPT !.pc = "write", !.user = u, !.kind = kind,
                            !.add = requested \ existing,
                            !.del = existing \ requested]
             ELSE j)

AssignDone(w) ==
  At(w, "account") /\ job[w].left = {} /\ Go(w, [job[w] EXCEPT !.pc = "commit"])

------------------------------------------------------------------------------
(* admin_users: accounts created, promoted, demoted and deleted            *)

LocalRow(role, home) == [role |-> role, sso |-> FALSE, active |-> TRUE, home |-> home]

\* The row is committed as soon as it is written, the deactivation of an invited
\* account next, and its grant after that.
CreateAccount(w, u, row, tenants, invited) ==
  /\ Fresh(u)
  /\ account' = [account EXCEPT ![u] = row]
  /\ Starts(w, "create",
            [Idle EXCEPT !.pc = IF invited THEN "invited" ELSE "write",
                         !.user = u, !.kind = GrantKind(row.role), !.add = tenants,
                         !.pend[u] = IF invited THEN [row EXCEPT !.active = FALSE]
                                     ELSE None],
            TRUE)
  /\ UNCHANGED <<known, serving, grant, team>>

\* create_local: from the provider's context (no grant) or from a customer's.
CreateLocal(w, u, role, t, invited) ==
  IsActive(t) /\ CreateAccount(w, u, LocalRow(role, t), {t} \ {Provider}, invited)

\* create_superadmin: only an invited one has a home.
CreateSuperadmin(w, u, invited) ==
  LET home == IF invited THEN Provider ELSE None IN
  CreateAccount(w, u, LocalRow("superadmin", home), {}, invited)

Deactivate(w) ==
  At(w, "invited") /\ Commit(w, grant, [job[w] EXCEPT !.pc = "write"])

\* The guards of set_role and delete_user: an administrator must remain, in
\* the instance and with every customer that u administers.
NoneLockedOut(u) == \A t \in WriteTenants(u) : ~LastAdmin(account, t)

\* set_role: the rows of a local account move to the table of its new role.
SetRole(w, u, role) ==
  LET old == account[u].role IN
  /\ Exists(u) /\ old # "superadmin"
  /\ old = "admin" /\ role # "admin" =>
       Cardinality(Active("admin")) > 1 /\ NoneLockedOut(u)
  /\ CanWrite(w, u)
  /\ Starts(w, "role",
            [Idle EXCEPT !.pc = "migrate", !.user = u, !.kind = GrantKind(role),
                         !.pend[u] = [account[u] EXCEPT !.role = role],
                         !.add = IF ~account[u].sso /\ old # role
                                   THEN Rows(u, GrantKind(old)) ELSE {}],
            TRUE)
  /\ UNCHANGED <<access, team>>

OtherKind(k) == IF k = "admin" THEN "auditor" ELSE "admin"

MigrateAdd(w, t) ==
  LET j == job[w] IN
  /\ At(w, "migrate") /\ j.del = {} /\ t \in j.add
  /\ IF AccountNow(w)[j.user] # None /\ HasTenant(t)
       THEN Commit(w, WithRow(j.user, t, j.kind, "manual"),
                   [j EXCEPT !.add = @ \ {t}, !.del = {t}])
       ELSE Abandon(w)

MigrateRemove(w, t) ==
  LET j == job[w] IN
  /\ At(w, "migrate") /\ t \in j.del
  /\ Commit(w, WithoutRow(j.user, t, OtherKind(j.kind)), [j EXCEPT !.del = {}])

\* set_superadmin: a promoted account gives its rows back, table by table.
Promote(w, u) ==
  /\ Exists(u) /\ account[u].role # "superadmin" /\ ~account[u].sso
  /\ CanWrite(w, u)
  /\ Starts(w, "promote",
            [Idle EXCEPT !.pc = "clear", !.user = u, !.del = Rows(u, "admin"),
                         !.pend[u] = [account[u] EXCEPT !.role = "superadmin"]],
            TRUE)
  /\ UNCHANGED <<access, team>>

Clear(w, t) ==
  LET j == job[w] IN
  /\ At(w, "clear") /\ t \in j.del
  /\ Commit(w, WithoutRow(j.user, t, j.kind), [j EXCEPT !.del = @ \ {t}])

ClearNext(w) ==
  LET j == job[w] IN
  /\ At(w, "clear") /\ j.del = {} /\ j.kind = "admin"
  /\ Go(w, [j EXCEPT !.kind = "auditor", !.del = Rows(j.user, "auditor")])

Demote(w, u) ==
  /\ Exists(u) /\ account[u].role = "superadmin"
  /\ Cardinality(Active("superadmin")) > 1
  /\ CanWrite(w, u)
  /\ Starts(w, "demote",
            [Idle EXCEPT !.pc = "commit",
                         !.pend[u] = [account[u] EXCEPT !.role = "admin"]],
            TRUE)
  /\ UNCHANGED <<access, team>>

DeleteUser(w, u) ==
  /\ Exists(u) /\ Cardinality({v \in Accounts : Exists(v)}) > 1
  /\ account[u].role = "superadmin" => Cardinality(Active("superadmin")) > 1
  /\ account[u].role = "admin" => NoneLockedOut(u)
  /\ CanWrite(w, u)
  /\ Starts(w, "delete", [Idle EXCEPT !.pc = "commit", !.doomed = {u}], TRUE)
  /\ UNCHANGED <<access, team>>

------------------------------------------------------------------------------
(* sync_sso_users: the SSO accounts of one tenant follow two Entra groups  *)

\* A local account and an account of another tenant are passed over.  Creating
\* an account commits, so some of the changed roles may already be visible.
SsoSync(w, t, admins, auditors) ==
  LET desired == admins \union auditors
      role(u) == IF u \in admins THEN "admin" ELSE "auditor"
      new == {u \in desired : ~Exists(u)}
      kept == {u \in desired : Exists(u) /\ account[u].sso /\ account[u].home = t}
      row(u) == IF u \in new THEN SsoRow(role(u), t)
                ELSE [account[u] EXCEPT !.role = role(u)]
      mine == new \union {u \in Accounts : Exists(u) /\ account[u].sso
                                             /\ account[u].home = t}
      leaving == mine \ desired
      implausible == desired = {} \/ 2 * Cardinality(leaving) > Cardinality(mine)
  IN
  /\ IsActive(t)
  /\ \A u \in kept : CanWrite(w, u)
  /\ \A u \in new : Fresh(u)
  /\ \E early \in SUBSET kept :
       /\ new = {} => early = {}
       /\ account' = [u \in Accounts |-> IF u \in new \union early THEN row(u)
                                         ELSE account[u]]
       /\ Starts(w, "sso",
            [Idle EXCEPT !.pc = "remove", !.left = IF implausible THEN {} ELSE leaving,
                         !.pend = [u \in Accounts |-> IF u \in kept \ early
                                                       THEN row(u) ELSE None]],
            TRUE)
  /\ UNCHANGED <<known, serving, grant, team>>

\* The sole administrator of a tenant is never removed.
SsoRemove(w, u) ==
  LET j == job[w] IN
  /\ At(w, "remove") /\ u \in j.left
  /\ CanWrite(w, u)
  /\ Go(w, IF \/ ~Exists(u)
              \/ \E t \in WriteTenants(u) : LastAdmin(AccountNow(w), t)
             THEN [j EXCEPT !.left = @ \ {u}]
             ELSE [j EXCEPT !.left = @ \ {u}, !.doomed = @ \union {u}])

------------------------------------------------------------------------------
(* The console: tenants and teams                                          *)

(* Mutant: a tenant that is gone is edited, too. *)
ServeMutGone(t) ==
  /\ "serve" \in Ops[scene] /\ Counts
  /\ serving' = serving \union {t}
  /\ UNCHANGED <<account, known, grant, team, job, directory, scene, crashes, history>>
\* update_tenant
Serve(t) ==
  /\ "serve" \in Ops[scene] /\ t \in known /\ Counts
  /\ serving' = IF t \in serving THEN serving \ {t} ELSE serving \union {t}
  /\ history' = history \union {"unsynced"} \union Marks("overlap", Overlaps(None))
  /\ UNCHANGED <<account, known, grant, team, job, directory, scene, crashes>>

Homed(t) == {u \in Accounts : Exists(u) /\ account[u].home = t}

\* delete_tenant: first its SSO accounts, with what they had issued; then the
\* tenant, its rows and its place in the teams.  Other accounts lose their home.
Purge(w, t) ==
  LET sso == {u \in Homed(t) : account[u].sso} IN
  /\ t \in known
  /\ \A u \in sso : CanWrite(w, u)
  /\ account' = [u \in Accounts |-> IF u \in sso THEN None ELSE account[u]]
  /\ grant' = WithoutRowsOf(sso, {})
  /\ Starts(w, "purge", [Idle EXCEPT !.pc = "tenant", !.tenant = t], TRUE)
  /\ UNCHANGED <<known, serving, team>>

PurgeTenant(w) ==
  LET t == job[w].tenant IN
  /\ At(w, "tenant")
  /\ \A u \in Homed(t) : CanWrite(w, u)
  /\ known' = known \ {t} /\ serving' = serving \ {t}
  /\ account' = [u \in Accounts |-> IF u \in Homed(t)
                                     THEN [account[u] EXCEPT !.home = None]
                                     ELSE account[u]]
  /\ grant' = WithoutRowsOf({}, {t})
  /\ team' = [g \in Teams |-> IF team[g] = None THEN None
                              ELSE [team[g] EXCEPT !.tenants = @ \ {t}]]
  /\ job' = [job EXCEPT ![w] = Idle]
  /\ UNCHANGED <<directory, bounds, history>>

\* create_group and set_group_tenants are followed by a sync, as far as Graph
\* answers (_auto_sync).
EditThenSync(w, g, row) ==
  /\ "edit" \in Ops[scene]
  /\ team' = [team EXCEPT ![g] = row]
  /\ \/ Starts(w, "sync", Fetched(g), FALSE)
     \/ /\ job[w].pc = "idle" /\ Counts
        /\ history' = history \union {"unsynced"}
        /\ UNCHANGED <<job, directory, scene, crashes>>
  /\ UNCHANGED access

CreateTeam(w, g, role) ==
  /\ team[g] = None
  /\ EditThenSync(w, g, [role |-> role, tenants |-> {}, members |-> {}])

SetTeamTenants(w, g, ts) ==
  /\ team[g] # None
  /\ \A t \in ts : IsActive(t)
  /\ EditThenSync(w, g, [team[g] EXCEPT !.tenants = ts])

\* update_group and delete_group are not.
Edit(g, row) ==
  /\ "edit" \in Ops[scene] /\ team[g] # None /\ Counts
  /\ \A w \in Workers : ~LocksTeam(w, g)
  /\ team' = [team EXCEPT ![g] = row]
  /\ history' = history \union {"unsynced"} \union Marks("overlap", Overlaps(None))
  /\ UNCHANGED <<access, job, directory, scene, crashes>>

UpdateTeam(g, role) == team[g] # None /\ Edit(g, [team[g] EXCEPT !.role = role])

DeleteTeam(g) == Edit(g, None)

\* Entra: somebody joins or leaves a group.
Membership(g, u) ==
  /\ "move" \in Ops[scene] /\ Counts
  /\ directory' = [directory EXCEPT ![g] = IF u \in @ THEN @ \ {u} ELSE @ \union {u}]
  /\ UNCHANGED <<access, team, job, scene, crashes, history>>

------------------------------------------------------------------------------
(* The last commit of a job, errors and crashes                            *)

Finished(w) ==
  \/ At(w, "commit")
  \/ At(w, "remove") /\ job[w].left = {}
  \/ At(w, "migrate") /\ job[w].add = {} /\ job[w].del = {}
  \/ At(w, "clear") /\ job[w].kind = "auditor" /\ job[w].del = {}

\* group_sync and sync_sso_users leave user_token.created_by alone: its foreign
\* key refuses to let the account go.  delete_user clears it first.
Refused(w) ==
  job[w].op \in {"sync", "sso"} /\ job[w].doomed \intersect Issuers # {}

Finish(w) ==
  /\ Finished(w) /\ ~Refused(w)
  /\ Commit(w, WithoutRowsOf(job[w].doomed, {}), Idle)

\* All that the job had not committed is lost, a team's new snapshot too.
FinishRefused(w) ==
  /\ Finished(w) /\ Refused(w)
  /\ job' = [job EXCEPT ![w] = Idle]
  /\ history' = history \union {"unsynced"}
  /\ UNCHANGED <<access, team, directory, bounds>>

Crash ==
  /\ "crash" \in Ops[scene] /\ crashes < MaxCrashes /\ crashes' = crashes + 1
  /\ job' = [w \in Workers |-> Idle]
  /\ history' = history \union {"crash"}
  /\ UNCHANGED <<access, team, directory, scene, changes>>

\* A worker that is free takes a request.
Request(w) ==
  /\ At(w, "idle") /\ changes < MaxChanges
  /\ \/ \E g \in Teams : SyncFetch(w, g)
     \/ \E u \in Accounts : Login(w, u)
     \/ \E op \in AllOps, us \in SUBSET {u \in Accounts : Exists(u)}, ts \in SUBSET Tenants : Assign(w, op, us, ts)
     \/ \E u \in Accounts, role \in Kinds, t \in Tenants, invited \in BOOLEAN :
          CreateLocal(w, u, role, t, invited)
     \/ \E u \in Accounts, invited \in BOOLEAN : CreateSuperadmin(w, u, invited)
     \/ \E u \in Accounts, role \in Kinds : SetRole(w, u, role)
     \/ \E u \in Accounts : Promote(w, u) \/ Demote(w, u) \/ DeleteUser(w, u)
     \/ \E t \in Tenants, admins, auditors \in SUBSET Accounts :
          SsoSync(w, t, admins, auditors)
     \/ \E t \in Customers : Purge(w, t)
     \/ \E g \in Teams, role \in Kinds : CreateTeam(w, g, role)
     \/ \E g \in Teams, ts \in SUBSET Tenants : SetTeamTenants(w, g, ts)

Step(w) ==
  \/ SyncSnapshot(w) \/ SyncTeamGone(w) \/ SyncMembersDone(w) \/ SyncLeavers(w)
  \/ Diff(w) \/ WriteRefused(w) \/ Revoke(w) \/ WriteDone(w)
  \/ AssignDone(w) \/ Deactivate(w) \/ ClearNext(w) \/ PurgeTenant(w)
  \/ Finish(w) \/ FinishRefused(w)
  \/ \E u \in Accounts : SyncMember(w, u) \/ AssignAccount(w, u) \/ SsoRemove(w, u)
  \/ \E t \in Tenants : \/ WriteAdd(w, t) \/ WriteRemove(w, t)
                        \/ MigrateAdd(w, t) \/ MigrateRemove(w, t) \/ Clear(w, t)

World ==
  \/ \E t \in Customers : Serve(t)
  \/ \E g \in Teams, role \in Kinds : UpdateTeam(g, role)
  \/ \E g \in Teams : DeleteTeam(g)
  \/ \E g \in Teams, u \in Movers : Membership(g, u)
  \/ Crash

\* Rows that do not agree with the teams to begin with are for a sync, too.
Init ==
  /\ scene \in Scenes
  /\ account = StartAccount[scene]
  /\ known = Customers /\ serving = Customers
  /\ grant = StartGrant[scene]
  /\ team = StartTeam[scene]
  /\ directory = StartDirectory[scene]
  /\ job = [w \in Workers |-> Idle]
  /\ changes = 0 /\ crashes = 0
  /\ history = Marks("unsynced", \E u \in Accounts : ~InLine(u))

Next == World \/ \E w \in Workers : Request(w) \/ Step(w)

Spec == Init /\ [][Next]_vars

------------------------------------------------------------------------------
Quiet == \A w \in Workers : job[w].pc = "idle"
Synced == \A g \in Teams : team[g] # None => team[g].members = directory[g]

\* In the step, w goes on with a request of one of these kinds.
Working(w, ops) == job[w].pc # "idle" /\ job[w].op \in ops /\ job'[w] # job[w]

(* Syncs keep the rows of the provider's staff in line with the teams      *)
(* (group_sync, "brings the local snapshot up to that state, and           *)
(* materializes customer access from it"): whenever nothing is under way,  *)
(* nobody has a team's row without a team that wants it, and nobody lacks  *)
(* one, however people joined and left.  Undisturbed: one request at a     *)
(* time, no crash, no sync refused, no role edit, no team deleted and no   *)
(* login ahead of a sync.                                                  *)
SyncSettles == history = {} /\ Quiet => \A u \in Accounts : InLine(u)

(* CHANGELOG.md:424: "When a provider staff member is removed from every   *)
(* Team, the next group sync removes their account entirely" -- unless a   *)
(* row made by hand is left.                                               *)
LeaverIsRemoved ==
  Quiet /\ Synced =>
    \A u \in Accounts : Staff(u) /\ account[u].sso /\ SnapshotTeams(u) = {} => HasRows(u)

(* What a sync deletes is an SSO account of the provider's own that no     *)
(* team's snapshot contains any more (_is_fully_deprovisioned); the gate   *)
(* is read before the deletion, and other requests run in between.         *)
SyncSparesOthers ==
  [][\A w \in Workers, u \in Accounts :
       Working(w, {"sync"}) /\ Exists(u) /\ account'[u] = None =>
         Staff(u) /\ account[u].sso /\ account[u].role # "superadmin"]_vars

(* "A 'manual' grant is NEVER touched (not converted, not deleted)" by the *)
(* reconcile (assignment_group_repo, invariant 2), although it deletes by  *)
(* account and tenant alone, some commits after it has read the sources;   *)
(* nor by the deletion of a leaver.  True of requests that do not overlap. *)
ManualSurvives ==
  [][\A w \in Workers, u \in Accounts, t \in Tenants, k \in Kinds :
       /\ "overlap" \notin history
       /\ Working(w, {"sync", "login"})
       /\ grant[<<u, t, k>>] = "manual"
       => grant'[<<u, t, k>>] = "manual"]_vars

(* The guards against locking a customer out (admin_users "A4",            *)
(* admin_assignments "L-01", oidc "L-03"), for requests that do not        *)
(* overlap: an account that stops being an administrator of an active      *)
(* tenant by demotion, revocation or deletion leaves another one there.    *)
KeepsAnAdmin ==
  [][\A w \in Workers, t \in Tenants :
       /\ "overlap" \notin history
       /\ Working(w, {"role", "set", "remove", "add", "delete", "sso"})
       =>
       \A u \in TenantAdmins(account, t) :
         /\ IsActive(t) /\ IsActive(t)'
         /\ u \notin TenantAdmins(account, t)'
         /\ job[w].op = "sso" => account'[u] = None
         => TenantAdmins(account, t)' # {}]_vars

(* "Otherwise no one could manage the instance" (admin_users:601): an      *)
(* instance that has a superadmin keeps one that can log in, as long as    *)
(* requests do not overlap, whoever is created, promoted, demoted or       *)
(* deleted, one by one.                                                    *)
HasSuperadmin(accounts) ==
  \E u \in Accounts : accounts[u] # None /\ accounts[u].role = "superadmin"
                                         /\ accounts[u].active
KeepsASuperadmin ==
  "overlap" \notin history /\ HasSuperadmin(StartAccount[scene]) => HasSuperadmin(account)
=============================================================================
