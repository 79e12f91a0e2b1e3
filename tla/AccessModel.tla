----------------------------- MODULE AccessModel -----------------------------
(***************************************************************************)
(* Who may see and manage which customer: the accounts with their role and *)
(* home tenant, the tenants, and the rows of admin_tenant and              *)
(* auditor_tenant.  This module holds that state and the questions the     *)
(* code asks of it; Grants holds the requests that change it.              *)
(***************************************************************************)
EXTENDS Integers, FiniteSets

CONSTANTS
  Accounts,   \* app_user, by username; a team member's UPN is a username
  Customers,  \* tenants other than the provider's
  Provider,   \* the tenant with is_default
  None        \* no account, no team, a home that is NULL

Tenants == Customers \union {Provider}
Kinds == {"admin", "auditor"}
Roles == {"admin", "auditor", "superadmin"}
Sources == {"none", "manual", "group"}

AccountRows ==
  [role : Roles, sso : BOOLEAN, active : BOOLEAN, home : Tenants \union {None}]

ASSUME AccessAssumption ==
  /\ Provider \notin Customers
  /\ None \notin Tenants \union Accounts \union AccountRows

VARIABLES
  account,  \* app_user: the row of each account, or None
  known,    \* tenant: the customers that have a row
  serving,  \* tenant.is_active: those that are active
  grant     \* admin_tenant, auditor_tenant: the source of each row, or "none"

access == <<account, known, serving, grant>>

Exists(u) == account[u] # None
HasTenant(t) == t = Provider \/ t \in known
IsActive(t) == t = Provider \/ t \in serving
IsProvider(u) == account[u].home = Provider

\* tenant_repo._grant_kind
GrantKind(role) == IF role = "admin" THEN "admin" ELSE "auditor"

\* tenant_repo.list_grant_tenant_ids: no join with tenant.is_active
Rows(u, k) == {t \in Tenants : grant[<<u, t, k>>] # "none"}
(* Mutant: the reconcile does not look at the source. *)
GroupRowsMutAll(u, k) == Rows(u, k)
GroupRows(u, k) == {t \in Tenants : grant[<<u, t, k>>] = "group"}
HasRows(u) == \E k \in Kinds : Rows(u, k) # {}

\* tenant_repo.admin_tenants: the home of an SSO admin counts as granted
HomeAdmin(row, t) == row.sso /\ row.role = "admin" /\ row.home = t
WriteTenants(u) ==
  {t \in Rows(u, "admin") : IsActive(t)} \union
  {t \in Tenants : HomeAdmin(account[u], t)}

\* tenant_repo.auditor_tenants, likewise
ReadTenants(u) ==
  {t \in Rows(u, "auditor") : IsActive(t)} \union
  {t \in Tenants : account[u].sso /\ account[u].role = "auditor" /\ account[u].home = t}

\* The one kind of account that is of the whole instance.
IsSuperadmin(u) == ~account[u].sso /\ account[u].role = "superadmin"

\* tenant_repo.is_allowed: the gate every tenant-scoped route goes through; the home of
\* an SSO account is in the sets above even while it is inactive.
IsAllowed(u, t, write) ==
  /\ IsActive(t)
  /\ \/ IsSuperadmin(u)
     \/ t \in WriteTenants(u)
     \/ ~write /\ t \in ReadTenants(u)

\* tenant_repo.resolve_initial_tenant, by name; here any of those it sorts
Initial(u) ==
  CASE account[u].sso -> {account[u].home} \ {None}
    [] IsSuperadmin(u) -> {Provider}
    [] OTHER -> {t \in Rows(u, account[u].role) : IsActive(t)}

(* Mutant: the claim of the access token is believed. *)
ResolvedMutClaim(u, claim, write) ==
  IF claim # None THEN {claim} ELSE {t \in Initial(u) : IsAllowed(u, t, write)}
\* deps._resolve_authorized_tenant: the tenants a request of u with this claim may be
\* scoped to; an empty set is the answer 403.
Resolved(u, claim, write) ==
  {t \in IF claim # None THEN {claim} ELSE Initial(u) : IsAllowed(u, t, write)}

\* deps.get_audit_session: whose entries of the audit log a request may read
AuditSeen(u, claim) == IF IsSuperadmin(u) THEN Tenants ELSE Resolved(u, claim, FALSE)

\* user_repo.count_tenant_admins counts these, of the accounts as given
TenantAdmins(accounts, t) ==
  {u \in Accounts : /\ accounts[u] # None
                    /\ accounts[u].active
                    /\ accounts[u].role = "admin"
                    /\ \/ grant[<<u, t, "admin">>] # "none"
                       \/ HomeAdmin(accounts[u], t)}
(* Mutant: one less. *)
LastAdminMutZero(accounts, t) == TenantAdmins(accounts, t) = {}
LastAdmin(accounts, t) == Cardinality(TenantAdmins(accounts, t)) <= 1

(* Mutant: deactivated accounts count, too. *)
ActiveMutAll(role) == {u \in Accounts : Exists(u) /\ account[u].role = role}
\* user_repo.count_admins and count_superadmins
Active(role) == {u \in Accounts : Exists(u) /\ account[u].role = role /\ account[u].active}

\* ON CONFLICT DO NOTHING: a row that is there keeps its source.
WithRow(u, t, k, source) ==
  IF grant[<<u, t, k>>] = "none" THEN [grant EXCEPT ![<<u, t, k>>] = source] ELSE grant

\* remove_grant deletes by account, tenant and kind, whatever the source.
WithoutRow(u, t, k) == [grant EXCEPT ![<<u, t, k>>] = "none"]

\* Deleted accounts and tenants take their rows along (ON DELETE CASCADE).
WithoutRowsOf(us, ts) ==
  [x \in Accounts \X Tenants \X Kinds |->
     IF x[1] \in us \/ x[2] \in ts THEN "none" ELSE grant[x]]

(* Mutant: the account's own tenant among those requested is enough. *)
CrossGrantLockAllowsMutSome(u, requested) ==
  IsProvider(u) \/ account[u].home \in requested
\* admin_assignments._cross_grant_lock_allows
CrossGrantLockAllows(u, requested) ==
  IsProvider(u) \/ requested \subseteq ({account[u].home} \ {None})

\* admin_assignments._would_lock_out_last_tenant_admin
WouldLockOut(t, k) == k = "admin" /\ IsActive(t) /\ LastAdmin(account, t)

AccessTypeOK ==
  /\ account \in [Accounts -> AccountRows \union {None}]
  /\ known \subseteq Customers
  /\ serving \subseteq known
  /\ grant \in [Accounts \X Tenants \X Kinds -> Sources]

(* Tenant isolation (README.md:278, admin_assignments "Cross-grant lock"): *)
(* an account at home with a customer, or nowhere, holds no row for        *)
(* another tenant and no row a team gave it.  It rests on two gates, one   *)
(* in the reconcile and one in the assignment routes, each read some       *)
(* commits before the rows are written.                                    *)
CustomerIsolation ==
  \A u \in Accounts : Exists(u) /\ account[u].home # Provider =>
    \A t \in Tenants, k \in Kinds :
      /\ grant[<<u, t, k>>] # "group"
      /\ grant[<<u, t, k>>] # "none" => t = account[u].home

(* What the isolation is for (deps.py:140-141: a forged or stale claim is  *)
(* refused, never answered with nothing): whatever tenant the token of     *)
(* such an account names, its requests read, write and audit no tenant but *)
(* its home, and that only while the home is active.                       *)
CustomerStaysHome ==
  \A u \in Accounts, claim \in Tenants \union {None} :
    Exists(u) /\ account[u].home # Provider /\ ~IsSuperadmin(u) =>
      \A t \in Resolved(u, claim, TRUE) \union Resolved(u, claim, FALSE) \union
               AuditSeen(u, claim) :
        t = account[u].home /\ t \in serving
=============================================================================
