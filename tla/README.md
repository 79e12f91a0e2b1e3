# PwNotify in TLA+

PwNotify mirrors the accounts of a Microsoft Entra directory, computes when each
password expires and mails reminders at configured stages ("14, 7, 3, 1, 0 days
left").  It is one FastAPI process with one PostgreSQL database; a cron job and
operators start runs.  It serves several customers (tenants), each isolated by
row-level security.

This directory specifies that behaviour in TLA+, checks it with TLC on small
instances and proves part of it with TLAPS for all of them.  All source paths
below are relative to `backend/app/` of the repository.

## Inventory

| Part | State it keeps | Operations | What is hard about it | Correct when |
| --- | --- | --- | --- | --- |
| Reminder arithmetic (`services/expiry.py`, brakes in `runner.py`, `retention.py`) | none | expiry date, due stage, forced stage, two brakes | borders: overdue, exact hit, unsorted lists | the due stage is the most urgent reached one, never sent twice |
| Reminder delivery (`notifier.py`, `notification_repo.py`, `routes/users.py`, `routes/notifications.py`) | `notification_log`, one row per user, stage and expiry cycle | the run's loop, "notify now", bulk, retry, exclude, trimming | sends and rows are not atomic; three kinds of senders share a key; lost answers | a mailbox gets a reminder once, up to named exceptions; the history is honest; what is owed is sent |
| Directory sync (`graph/sync.py`, `entra_repo.py`) | `entra_user` | sync, purge of departed accounts | partial or missing syncs make everything look stale | nobody present is deleted |
| Run orchestration (`runner.py`, `run_repo.py`) | `run` rows, one transaction | eight steps with their own handlers | an aborted transaction outlives the handler that swallowed its error | every run gets an outcome that adds up |
| Scheduler (`scheduler.py`, `routes/runs.py`, `main.py`) | one lock, one job | queue, fan-out, shutdown, restart | one broken tenant, crash between row and outcome | everybody queued is served, every tenant attempted |
| Audit log (`audit.py`, `audit_repo.py`) | `audit_log` | record, purge with an entry of its own | committed by somebody else's commit | no silent purge |
| Tenant access (`tenant_repo.py`, `deps.py`, `admin_assignments.py`) | `admin_tenant`, `auditor_tenant`, home tenant | grant, revoke, switch, gate | every grant commits on its own; checks and writes are apart | customer accounts stay in their tenant; a tenant keeps an admin |
| Team and SSO sync (`group_sync.py`, `oidc.py`, `assignment_group*_repo.py`) | team snapshots, grants with `source` | reconcile on login and on sync, deprovision | interleaved with manual assignment, partial commits | manual grants are untouched; who left a team loses its grants |
| Sessions (`routes/auth.py`, `deps.py`, `user_repo.py`) | sessions, `token_generation` | login, refresh, logout, revoke, change password | rotation races | a revoked token opens nothing |
| Signing in (`routes/auth.py`, `core/security.py`) | failure counter, `locked_until`, TOTP secret and last step, recovery codes | login, second factor, enrolment, disabling, change of password | every request reads the row, judges and writes back what it changes | a lock stands; what is switched on can be used; a spent code stays spent |
| Invitations (`user_token.py`, `public_tokens.py`) | `user_token` | issue, accept, reset | concurrent use of one link, replaced links | a link works once |
| Settings (`settings_service.py`, `settings_validators.py`, `routes/settings.py`, `admin_instance.py`) | `setting`, one row per tenant and key | PUT, template reset, exclusions, instance mode, test mail | a rule over two keys; change, audit entry and job are three steps | smtp_tls = none goes with an internal host only; the job runs at the time that is set |
| Branding (`routes/branding.py`) | a directory per tenant, a row that names the file | upload, removal | unlink, write and row are not atomic | what the row names is there, and nothing else |
| Setup and seed (`routes/setup.py`, `seed.py`) | `app_user`, an advisory lock | `create_admin`, `run_seed` at boot | open to anybody until there is an account | one founder |
| Graph client (`graph/client.py`) | a token and its expiry | paged lists, mail, checks, photo, test | retries, throttling, links out of answers, a token that ages meanwhile | tokens go to Graph only; what a call says is true |
| Tenant context (`tenant_context.py`, `session.py`) | a context variable, per-transaction role | nested contexts | which tenant a transaction runs under | never another tenant's rows |
| Alerts, rendering, HTTP layer, web client | none that others read | mail after a run, templates, middleware | little | - |

The parts meet in five places: the scheduler calls `execute_run` once per
tenant; `execute_run` calls the sync, the retention steps and `notify_user`;
operators call `notify_user` directly, outside the scheduler's lock; and all of
them share the history table, through which they influence each other.  Who may
see a tenant's history is decided by the access tables, which logins, team syncs,
the SSO sync and the console write concurrently.  And the settings decide when the
scheduler's one job runs, so a PUT ends in the scheduler's memory.

## Modules

| Module | Models | Extends |
| --- | --- | --- |
| `ReminderStage` | the pure arithmetic | - |
| `Delivery` | one tenant: sync, run, operators, transport, history | `ReminderStage` |
| `ReminderPromise` | abstract: what runs promise to a mailbox | - |
| `RunLifecycle` | all tenants: queue, lock, fan-out, `execute_run`, retention, rows | `ReminderStage` |
| `AccessModel` | accounts, tenants and grants, and what the code asks of them | - |
| `Grants` | the requests that change them: syncs, logins, assignments, accounts, teams, tenants | `AccessModel` |
| `Sessions` | one account: browsers, sessions, the token generation, links, and the requests that change them | - |
| `SignIn` | one local account: password, lockout, second factor, recovery codes | - |
| `Settings` | the settings of each tenant, the logo files, the scheduler's job, the audit entries, setup and boot | - |
| `GraphClient` | one client of Graph: token, pages, links, retries, and the Graph behind it | - |
| `MCDelivery`, `MCRunLifecycle`, `MCGrants`, `MCSessions` | values of the constants for TLC | the above |
| `MCRequests` | the sum of `SignIn`, `Settings` and `GraphClient` | `SignIn`, instances of the two others |
| `DeliveryProofs`, `RunLifecycleProofs`, `GrantsProofs`, `SessionsProofs`, `SignInProofs`, `SettingsProofs`, `GraphClientProofs`, `RequestsProofs` | theorems | the above and `TLAPS` |

`MCRequests` puts three independent modules into one run: the variable `part` says
which of them a behaviour is about, and the two others rest in a state they may start
in.  Nothing is interleaved between the parts, because nothing is shared.

`Delivery` and `RunLifecycle` are two views of the same run.  `Delivery` asks
who is mailed and what the history says, and keeps one tenant, every address and
every commit of a history row; it leaves out the run's own row and the account
retention.  `RunLifecycle` asks what becomes of the run, and keeps the tenants,
the queue and the transaction; of a user it only keeps the outcome.

### Delivery: state and actions

| Variable | In the code |
| --- | --- |
| `today`, `directory` | the calendar; Entra's `lastPasswordChangeDateTime` |
| `mirror`, `optedOut` | `entra_user.expiry_date`/`days_left`, `entra_user.excluded` |
| `log` | `notification_log`, a function of its dedup key |
| `run` | the local variables of `execute_run` |
| `used`, `queue` | requests of operators and the ids a bulk request still has to serve |
| `att` | the local variables of `notify_user` or `retry` between two sends |
| `mailed`, `handed`, `waived`, `faults` | history variables |

Every coroutine suspends at a send, so there is one action per send (`Send`) and
one for the row written after the last address (`Record`).  A run is `RunStart`
(the sync), `RunTrim`, `RunSelect` (candidates, exclusion rules, brake), then
`RunTake`/`RunSkip` per user, and `RunEnd`.  Operators are `RequestForce` (one
user or several), `ForceTake`/`ForceSkip`, and `RequestRetry`.  `Send` chooses
how many copies the transport puts out and whether the call returns or raises.
`DbError` and `Crash` end what is in progress; what has been mailed stays mailed.

### RunLifecycle: state and actions

`line` is the asyncio lock with its waiters; `todo`, `tried` and `returned` are
the local variables of `SchedulerService._run`; `exec` those of `execute_run`,
with `aborted` for the state of its transaction and `pending` for what is
executed and not committed; `rows` is the table `run`; `age` is the time since
`entra_user.last_synced_at`, `logged` the accounts the history refers to, `trail`
the audit log as far as its purge is concerned.  One action per step of
`execute_run`: `Create`, `Sync`, `SsoSync`, `AuditPurge`, `PurgeAccounts`,
`TrimHistory`, `Select`, `Notify` (per user), `LoopEnd`, `Finish` or
`FinishFails`; around them `Enqueue`, `Acquire`, `AcquireFails`, `CreateFails`
and `FinishFanout`, and `Crash` and `Restart` of the process.

### Grants: state and actions

| Variable | In the code |
| --- | --- |
| `account` | `app_user`: role, `is_sso`, `is_active`, home tenant |
| `known`, `serving` | the rows of `tenant`, and those with `is_active`; the provider's tenant always is both |
| `grant` | `admin_tenant` and `auditor_tenant`: per account, tenant and table the `source`, or none |
| `team` | `assignment_group` with its tenants and the snapshot of its members |
| `directory` | the members Entra would name |
| `job` | what each request under way holds in its local variables and its open transaction |
| `history` | history variable: whether requests have overlapped, the server has crashed, or there is something that only a sync of every team makes good: rows out of line to begin with, an edit nobody syncs, a login ahead of a sync, a sync that is refused |

`add_grant` and `remove_grant` commit, so a request becomes visible row by row.  A
worker's job therefore keeps what it has written and not committed (`snap`, the new
snapshot; `pend`, account rows; `doomed`, deleted accounts), `TeamNow` and
`AccountNow` are what its own transaction sees, and `Commit` publishes all of it.
A row another transaction has written blocks the writer (`CanWrite`, `LocksTeam`).

- A team's sync is `SyncFetch` (the members, from Graph), `SyncSnapshot`, then per
  old and new member `SyncMember`, `Diff` and the writes for the admin table and the
  auditor table, then `SyncLeavers` (the gate and the deletions) and `Finish`.
- An SSO login is `Login`, then the same reconcile.
- An assignment of one account or many is `Assign`, `AssignAccount` per account,
  `WriteAdd`, `WriteRemove` (which asks who would be left) and `Revoke`.
- `CreateLocal`, `CreateSuperadmin`, `SetRole`, `Promote`, `Demote`, `DeleteUser`,
  `SsoSync`, `Purge` and the team routes start with their guards and go on commit by
  commit.  `FinishRefused` and `WriteRefused` are foreign keys that refuse.

### Sessions: state and actions

| Variable | In the code |
| --- | --- |
| `user` | `app_user.token_generation` and `is_active` |
| `row` | `user_session`: the refresh token good for it, `revoked`, whether it has been idle for too long or has expired |
| `link` | `user_token`: purpose, consumed, and how often it was used (history) |
| `jar` | the two cookies of each browser: the generation in the access token, the refresh token |
| `req` | what each request under way holds in its local variables: the generation and the row it has read, the rows it is going to revoke, the pair it will answer with |
| `cut`, `excused` | history variables: devices a revocation has signed out, devices that may lose their session |

One action per query or commit of a request:

- Signing in is `Login`, `Prune`, `Create` (the SSO callback skips `Prune`).
- `Refresh`, `Activity` and `SwitchTenant` look the row up in `ReadRow`, which also
  decides on a session that is revoked, expired or idle, and end in `Rotate` or
  `Touch`; a refresh reads the account in between (`ReadAccount`).
- `Logout`, and `_end_if_idle` inside the three above, is `End` (the row, committed)
  and `Bump` (the generation).
- `RevokeOthers` (the session page or a change of password) is `List`, `WriteOthers`
  (committed), `ReadOwn` and `Reissue` (the generation and the caller's new pair).
  `revoke_all` is `List` and `RevokeAll`.
- `SendReset` is `Void` and `Mint`; a link is looked up in `Redeem` and used in
  `Consume`, and a reset goes on with `revoke_all`.
- `Respond` brings the cookies to the browser; `Die` is a crash, a lost answer or the
  loser of a deadlock.  `Fail` is an error the code raises or meets.

`quiet`, a field of each request, is the set of devices that have had no request since
it began.  A revocation that completes adds its `quiet` to `cut`: those are the devices
the properties speak about.

### SignIn: state and actions

`account` is the row of `app_user`: `failed_login_count`, `locked_until` (none, held or
over), `totp_enabled`, `totp_secret`, the last step accepted and the recovery codes.
`session` and `interim` are what browsers hold, `req` is what each request has read
(`seen`).  A request is `Begin`, which reads the row and applies every guard that comes
before the judgement, and one action for its outcome, which judges by `seen` and writes
(`Written`) the columns that differ from it, as a flush of the ORM does: `WrongPassword`,
`PasswordAlone`, `PasswordSuffices`, `ChangePassword`, `RightCode`, `RecoveryCode`,
`WrongCode`, `Setup`, `Enable`, `Disable`, or `Refused`, which writes nothing.  `LockEnds`
and `SessionEnds` are the passing of time.

### Settings: state and actions

`cfg` are the rows over the defaults, reduced to the SMTP host and cipher, the crontab
and the logo; `files` the directories; `plan` the job in the scheduler's memory; `people`
the accounts; `lock` the advisory lock of the setup.  Each request (`job`) goes through a
course of steps, `Course(op, vals)`, with one action per step: `Check` (the rule on
smtp_tls, against the persisted rows), `Save`, `Record`, `Commit`, `Read` and `Plan`
(reschedule), `File`, and `Lock` and `Create` for the first account.  The order of `save`,
`record` and `commit` is what differs between the routes: where the entry is added before
the commit of the change, both go together.  `Dies` ends a request anywhere, `Crash` all of
them, and either may break a request off in the middle of its step at the files
(`BrokenOff`): with the old file unlinked and the new one not there, or there in part.
`Boot` is the seed and the start of the scheduler, which may fail and leave the
server down.  `odd` holds the aspects of a tenant that overlapping requests, a request that
died half way or an unchecked name have disturbed, until one request alone puts them right;
`silent` the operations that ended with a change and no entry.

### GraphClient: state and actions

`token` is what the client keeps, with the time it goes by (`exp`) and the time Graph goes
by (`good`); `call` is the call under way.  `KeptToken` or `AskForToken` and `TokenGranted`
or `TokenDenied`; then the request is on the wire until `Page`, `Accepted`, `Refused`,
`Throttled` or `Lost`; after the last two comes `TryAgain`, which starts with the token
again.  `Page(link)` takes whatever link an answer names.  The outside moves by itself:
`Tick`, `JoinOrLeave`.

### Gates

`AccessModel!Resolved` is the gate of `deps.py` that scopes every request to a tenant: by
the claim in its token, which is checked again each time, or without one.  It changes no
state; `CustomerStaysHome` asks it in every state of `Grants` for every claim there is.

### Choices a reader should know

- Days are integers.  Retention cutoffs have the granularity of days.
- Settings are constants of a behaviour; `max_notify_ratio` is a pair of
  integers.  In `RunLifecycle` the ratio brake is off and only the cap decides.
- `None` is one model value outside the integers; `days_left` is `None` exactly
  when `expiry_date` is.
- A sync is one step.  A sync that fails half way has updated some of the rows;
  the model lets them count at once, the code commits them every 200 rows or with
  the next commit of the run.
- A bulk request is a set of users: the code serves them in the given order, the
  model in any order.
- After a failed statement nobody rolls the session back, so every later
  statement of that session fails.  In `Delivery` this ends the run at once, since
  skipped users leave no trace there; `RunLifecycle` follows it to the end.
- `Crash` also stands for a shutdown that cancels the job.
- In `RunLifecycle` a run takes less than a day, the order of tenants is
  arbitrary (the query has no ORDER BY), "expired" means that there are audit
  entries past their retention and that the purge brake lets them go, and
  trimming the history removes any of the accounts from it.  A statement of the
  directory sync or of a notification's record may fail and abort the transaction, and the
  one the foreign key refuses does; those of the audit purge, the trimming and the selection
  do not fail.
- `Grants` covers multi-tenant mode.  The caller is left out: every route modelled is
  open to a superadmin, whom the scope checks let pass.  A name is not given to a new
  account while a request still holds the id of the old one.  A Graph error changes
  nothing and is no action.  The SSO sync's reads and role changes are one step; what
  an account creation may commit early is chosen freely.  SQLAlchemy hands out a row
  already loaded in the session without reading it again; the model reads the
  committed row, which lets it do at least as much to an account as the code.
- Redeeming an invitation is left out of `Grants`: it only adds active accounts.
- `Sessions` has one account.  The second factor and the count of failed attempts are in
  `SignIn`; the active tenant of a session and the expiry of access tokens and links are
  left out: a token or link stays good until something else ends it.  Any login comes from
  somebody who knows the password, so nothing else distinguishes browsers.
- In `SignIn` every session is live until it ends; what ends it is the business of
  `Sessions`.  A code is presented while its time step is in the window, so any of
  `TimeSteps` may come at any time; that is more than a clock allows.
- In `Settings` a PUT holds keys of one kind (mail, schedule or the logo's name).  A host
  is internal or external as the operator's list of allowed hosts says.  What no property
  tells apart (exclusions, templates, instance mode, test mail) changes no `cfg`, but goes
  through its steps.  The value ranges of single keys, and the masking and encryption of
  secrets, are left out.  `smtp_tls` is "starttls" (which stands for "ssl"), "none" or
  "other", any value without a meaning of its own.  A PUT of host and `smtp_tls` together
  changes the latter to a value in `Along`, in the runs "none" alone: no other value can be
  refused, and each key is changed to every value by itself.
- The environment of the runs' `Boot` has an administrator or none and the default crontab;
  crontabs that do not parse come by PUT.  A seed with any other value that `set_many`
  refuses keeps the server down before anything is written, and is no action.
- In `GraphClient` the directory lists people in a fixed order and a page is named by the
  person it starts after: that is assumed of Graph, not modelled from code.  So is that it
  answers 2xx, 4xx, 429, 5xx or not at all, and that a page carries "value": `_request` lets
  a 3xx pass as a success, of `sendMail`, too (`client.py:251-262`), and a body without
  "value" reads as an empty page (`client.py:326`, `391`).
- A serial id or a random token identifier is the least name nobody refers to.
- The statement that bumps the generation locks the account's row until its commit
  (`Locked`).  Rows of `user_session` are written without waiting in the model; where
  the database would wait, the model lets the steps happen in either order.
- The variables called history variables above exist only for the properties; no
  guard of a program step reads them, except `faults`, which bounds the faults.

## What the runs check

| Run | Instance | Result |
| --- | --- | --- |
| `faults` | one user, two addresses, one operator request, one fault, password change on day 1, retention one day, days 0..2 | `TypeOK`, `SentMeansHandedOver`, `KeepsPromise`, `NeverLessUrgent` hold |
| `brake` | two users, one in an exclusion group, one whose flag is flipped, cap of one, dry and real runs | `RunWithinBrake`, `FinishedRunLeavesTrace` hold |
| `live` | one user, one address, one request, one fault, fairness | `OwedIsPaid` holds |
| `rows` | one tenant, two accounts, both retentions, two faults, two runs | `TypeOK`, `RowsAddUp`, `PurgesAreRecorded`, `RestartSettlesRuns`, `PurgeSparesPresent` hold |
| `fanout` | two tenants, cron job and one operator, one fault, fairness | `PickedIsServed`, `LockIsPassedOn` hold |
| `stuck` | one tenant, departed accounts, no fault | `RunningMeansLive` is violated |
| `unconfigured` | one tenant whose Graph configuration is removed, no fault | `PurgeSparesPresent` is violated |
| `grants` | scene "teams": two teams, a member of staff, a customer's administrator in a team's group; sync, login, assignment and console edits, one crash. Scene "admins": a superadmin and two administrators of one customer; eleven kinds of requests. Two requests at a time, three changes | `TypeOK`, `CustomerIsolation`, `CustomerStaysHome`, `SyncSettles`, `KeepsASuperadmin`, `SyncSparesOthers`, `ManualSurvives`, `KeepsAnAdmin` hold |
| `leaver` | one member of staff who has issued an invitation | `LeaverIsRemoved` is violated |
| `sessions` | one account with two browsers signed in, or invited with none; two requests at a time out of eleven kinds, three requests, one that dies, one session that ages | `TypeOK`, `RevokedStayOut`, `SignedInUntilEnded`, `RevokedIsFinal`, `LinkWorksOnce` hold |
| `requests` | signing in with and without a second factor: two browsers, two requests at a time, six in all; settings of two tenants: two requests at a time, three in all, one fault; Graph: two people, pages of one, two attempts, two calls | `AllTyped`, `LockedInTime`, `OnIsProven`, `DeadCodesStayDead`, `CodeUses`, `LockStands`, `TlsRuleHolds`, `LogoIsThere`, `JobFollowsSchedule`, `AuditedOrDied`, `OneFounder`, `TokenInGoodHands`, `AnswersAreTrue` hold |
| `unbootable` | one tenant, one request at a time, one crash | `Restartable` is violated |

The four violations are disagreements between a statement in the repository and
the code:

- `stuck`: "errors from a single user or a sub-step must never abort the run" -
  but a departed account that was ever mailed cannot be deleted, and the failed
  statement takes the run's whole transaction with it.
- `unconfigured`: account retention is meant to follow a clean sync only; a sync
  skipped for want of a configuration counts as clean.
- `leaver`: "the next group sync removes their account entirely" - but the foreign
  key of the invitations the leaver has issued refuses the deletion, and since an
  earlier commit of the same sync has published the new snapshot, no later sync looks
  at the leaver again.
- `unbootable`: "a single invalid value aborts the whole batch", but a crontab has no
  validator.  It is committed, the reschedule that follows raises and the old job goes on;
  the next start raises on the same row and takes the server down.

The repository's README (line 18) and `models/notification.py:17` promise each reminder
once per cycle.  That is true as far as the history goes back: `delete_older_than` trims it
by age, and with a retention shorter than a stage lasts the stage is sent again.  What does
hold is `KeepsPromise`, one mail per reminder and address plus one per *waiver*; a trimmed
row is one of the waivers the module enumerates.

Four properties of `Grants` are stated of requests that do not overlap
(`history`), because overlapping ones do break them, as the hazards in
`PROJECT.json` say: nothing locks the rows that the last-administrator guards count,
and a reconcile deletes a row by account and tenant, whatever has become of its
source.  `CustomerIsolation` and `SyncSparesOthers` hold under any overlap and crash.
`SyncSettles` is stated of an empty `history` altogether.  The proof found two of its
marks: rows that do not agree with the teams in the scene it starts from, and a sync that
ends in an error.  A leaver who has issued an invitation is still in the stored snapshot of
a team without customers; the team is given one, the sync that follows finds no row to
write, is refused and loses its new snapshot with everything else, and a leaver who joins
again has a team and a snapshot that says so, and not the row.

`RevokedStayOut` speaks of devices at rest, because of a device in the middle of a
refresh it is not true.  `refresh` reads the session row (`auth.py:541`) and then the
account (`auth.py:556`).  If a revocation commits its rows and its generation in between,
the refresh stamps the new generation into the access token of a session that is
revoked, and that token works until it expires, while the comment at `auth.py:827-829`
says that the device "must be cut off IMMEDIATELY".  TLC finds this behaviour of
`Sessions` at once when the property is stated of all devices: the trace is `Refresh`,
`ReadRow`, a whole `RevokeOthers`, `ReadAccount`, `Rotate`, `Respond`.
Several properties of `requests` leave out behaviours in which certain requests overlapped
(`crossed`, `odd`), because there they fail: two verifications with recovery codes at once
bring a used code back (`auth.py:430`), an enrolment whose secret is replaced before it is
confirmed switches on a secret nobody has shown a code for (`auth.py:973`), two PUTs of one
tenant get `smtp_tls = none` past the rule together with a host outside
(`settings_service.py:115`), and of two overlapping reschedules the one that read first may have the last word
(`scheduler.py:94`).  `LockStands`, `LockedInTime`, `CodeUses`, `AuditedOrDied`,
`OneFounder` and both properties of `GraphClient` are stated of all behaviours.  `CodeUses`
bounds what "every TOTP code is valid only once" (`auth.py:412`) comes to: overlapping
requests accept the same code, and only the last step is remembered.  It leaves out
behaviours in which requests that set the factor up have overlapped: `two_factor_enable`
does not look at the last step (`auth.py:1004`), and a disabling that has read no secret
leaves the secret another request has put there meanwhile, so with enough requests at a
time one secret could be confirmed, switched off and confirmed again by one code.

`TlsRuleHolds` is the rule on unencrypted mail as it is coded, not the purpose its docstring
states, that plaintext SMTP is "only permitted to an INTERNAL relay, never to an external
host, where it would leak the SMTP credentials in cleartext"
(`settings_validators.py:229-230`).  The code falls short of that without any overlap:
`mail.smtp_tls` has no validator (`settings_schema.py:117`), `check_smtp_tls_allowed` refuses
nothing but the literal "none" (`settings_validators.py:239`), and `SmtpMailSender` logs in
over a plain connection for whatever is neither "ssl" nor "starttls"
(`smtp_sender.py:82-89`).  One PUT of `smtp_tls = "off"` with a host outside is enough.  In
the model that value is "other": the property says nothing of it, and states with "other"
and an external host are reached by the run.  It is the gap that `unbootable` shows of the
crontab.

`LogoIsThere` speaks of a tenant that is in order.  A write that fails after the unlink, or a
crash there, leaves a row that names no file or part of one (`branding.py:283-286`), and the
next upload or removal puts that right.  What it says of every state is that a directory
holds one file at the most.

Likewise a reset does not commit "the pending password change, token consumption and
audit record" in `revoke_all` (`public_tokens.py:135`): `consume` has committed the
first two before, so a crash between the two leaves the old sessions alive.

Met while modelling, without a property: issuing a reset link voids the older ones in one
commit and makes the new one in another, so two administrators at once leave two good links
(`user_token.py:119`).  An administrator seeded from the environment gets the role "admin"
by default, and as there is an account then, the setup no longer makes a superadmin
(`seed.py:80-90`, `setup.py:148`).  A run keeps a connection while it waits for others from
the same pool (`scheduler.py:75`).  A retry that is used up raises the transport's own
error, not a `GraphError` (`client.py:237`).

### Bounds

Every bound is a constant marked "bound" in its module.  Three days are enough
for a stage to be reached, missed, caught up and overtaken by a new password, and
for a row to outlive a retention of one day.  Two addresses are the most that
make partial delivery possible; two users are the least for a cap of one.  One
fault per behaviour shows each way to lose a row or a mail; two faults are used
where a restart must settle rows of two broken runs.  In `Grants` three changes
are the least for "somebody joins, a console edit, a sync", and for an account that
is created, replaces another and is counted; one customer besides the provider is
enough for a foreign tenant, since both gates compare with the home only.  In
`Sessions` two devices are a caller and another one; three requests, two of them at a
time, are a revocation, a request that overlaps it and one that comes after; there are
enough rows, tokens and links for every request to make one.  With no fault and no
ageing the same properties hold for four requests.  In `requests` six requests to sign in
are the least for three failures that overlap, a lock that ends and a sign-in after it; two
secrets and two sets of codes besides the first are enough for a setup that replaces one
that is being enabled.  Three settings requests are two that overlap and one that puts
things right.  For Graph, two people on pages of one make a list of two pages and a page cap
of three; a token of four minutes with a margin of two runs out within a call.  Workers are interchangeable and
symmetric in `sessions`, whose temporal properties are about single steps.
Addresses are interchanged
by a symmetry set in `faults` only, where no temporal property is checked.
Deadlock checking is off: the days, runs and requests are bounded, so the models
stop.

### Fairness

`Delivery!Fairness`: the scheduler keeps starting real runs that reach every user
(strong fairness, because crashes and other runs interrupt), each step of a run
that has begun is taken (a coroutine that can continue does), and a transport
that is tried again and again accepts some mail (strong fairness).  Nothing is
assumed of operators or of the calendar.  `RunLifecycle!Fairness`: weak fairness
of every step of the program and of the restart (the container's restart policy);
none of triggers, faults or the world.

## What is proved

`DeliveryProofs`, for every finite set of users, every set of addresses and requests and
all bounds, from the named assumptions on the constants:

- The arithmetic of `ReminderStage`, for every set of stages and every number of days: the
  due stage is a reached stage that was not sent and no reached stage is more urgent
  (`DueStageIsMostUrgent`), and it never becomes less urgent as days pass
  (`StagesGetMoreUrgent`).  The one hard fact is that a non-empty set of integers with a
  lower bound has a least element, from the well-foundedness of `<` on the naturals
  (`LeastExists`).
- `TypeCorrect`: `Spec => []TypeOK`.
- `BooksBalance`, `RunMailsStayBounded`, `HistoryIsHonest`: `RunMailsBounded` is
  not inductive, because nothing in it says why the next run stays away.
  `Balanced` adds that: an address has had at most as many mails as waivers plus
  its *credit* - one if the run's current attempt has served it, else one if the
  row says "sent".  Sending moves an address from no credit to credit; writing
  the row "sent" keeps the credit, and every other end of an attempt loses it and
  issues a waiver.  The rest of `Balanced` says why an attempt never serves an
  address twice and why "sent" implies a mail.
- `RunsKeepPromise`: `Spec => Promise!Spec`, the refinement of `ReminderPromise`
  under `copies <- mailed, waivers <- waived`, from the same invariant.
- `RunsStayWithinBrake` (`RunWithinBrake`), `RunsGetMoreUrgent` (`NeverLessUrgent`) and
  `FinishedRunsLeaveTraces` (`FinishedRunLeavesTrace`), from two more invariants.
  `OnTime`: the mirror never shows more days than are left, and what was mailed for a
  cycle had been reached by then, so a stage that is due now is at most as far off.
  `Serving`: a run's attempt belongs to a user it has chosen and not told, those told are
  among the chosen, whom the brake has counted, and the row of everybody the loop has
  gone past is there.  That `User` is finite is needed to count them.

`RunLifecycleProofs`, for every set of tenants, every finite set of accounts and any number
of triggers and faults:

- `RunLifecycleTyped`, with `Ordered`: whoever runs tenants holds the lock, and the run in
  progress belongs to a tenant its holder has not finished, whose last row is open.
- `RowsAlwaysAddUp` (`RowsAddUp`).  `Counted` relates the run in progress to the row it will
  write: sent, failed and skipped together with those left in the loop are as many as were
  looked at, or nobody was counted.
- `PurgesAlwaysRecorded` (`PurgesAreRecorded`).  `Paired`: what is executed and not
  committed is the deletion with its entry or neither.
- `RestartAlwaysSettles` (`RestartSettlesRuns`).
- `RetentionSparesPresent` (`PurgeSparesPresent`), under `Reconfigurable = {}`: no tenant
  loses its Graph configuration.  The run `unconfigured` shows that this hypothesis is
  needed.  `Seen` says that a run which has got past its sync without an error has just
  seen everybody who was present.

`GrantsProofs`, for every set of accounts, customers, teams and requests at a time and any
number of changes and faults, from `AccessAssumption`, `GrantsAssumption` and
`StartAssumption` (the start scenes are typed, and isolated):

- `GrantsTyped`, `CustomersStayIsolated` (`CustomerIsolation`), `CustomersStayHome` and
  `SyncsSpareOthers` hold under any overlap and crash, from `IInv`.  A request writes its
  rows some commits after it has asked the gate, so `Isolated` (of the tables) is not
  inductive.  `Sound` says of each request under way what its gate has found and
  nobody can change until it is through: the home of an account is set once, an account
  under a request's name is not replaced (`Apart`), and a team's tenants are asked
  again.  `Calm` says what a step of one request may change of all that another relies on.
- `ASuperadminIsKept`, `ManualRowsSurvive` and `AnAdminIsKept` are about requests that do not
  overlap.  `Undisturbed` adds, as long as none have, that at most one request is under way
  (`Alone`), that a sync is not about to delete a row made by hand (`Sparing`), and that a
  superadmin is left whatever has not been committed yet (`Staffed`).  `Mindful`
  adds for a role change, a revocation or a deletion under way that a customer's last
  administrator is not among those it will take the role or the row from.
- `SyncsSettle` (`SyncSettles`).  A commit in the middle of a reconcile shows the others
  half of it, so the property itself is lost as soon as a sync starts.  `Settling` says who
  is in line meanwhile: everybody but those the request has still to look at (`Ahead`),
  judged by the accounts and teams as the request sees them and not as they are stored
  (`Follows`); and that of the account it is at, the administrator's table is done first
  and what it is about to write is just what is missing or too much (`Halfway`).
  `SameWanted` says why nobody else is affected by a new snapshot or by the tenants of a
  team: they are in neither the old nor the new one.  From `Settling` it also follows that an
  undisturbed sync is never cut off by a team, a tenant or an account that is gone.

`SessionsProofs`, for every set of devices, requests at a time, rows, tokens and links
and any number of requests, faults and ageing sessions:

- `SessionsTypeCorrect`: `Spec => []TypeOK`.
- `RevocationIsFinal`, `LinksWorkOnce`: the two action properties, from one lemma each
  about what a step may do to a row (`RowStep`) and to a link (`LinkStep`).
- `RevokedDevicesStayOut`: `Spec => []RevokedStayOut`.  The property is not inductive: it
  does not say what requests under way are about to hand out.  `IInv` adds that no token
  carries a generation still to come (`Ordered`), that a refresh token is in one place
  (`OwnTokens`), that a device at rest holds another token than the one a revocation
  spares (`Resting`), how far a revocation has got with the devices at rest (`Staged`:
  their live rows are on its list, then they have none), and that a device that is out
  has no request that could answer with a pair (`Out`).  `NoGain` carries most of it: a
  token somebody holds never becomes good for a session it was not good for.  `WorkStep`
  and `RequestStep` say once what a request may change when it goes on or begins, so
  that each part of the invariant needs no case for each of the twenty-six actions.
- `DevicesStaySignedIn`: `Spec => []SignedInUntilEnded`.  `OwnRows` says that no two rows
  have one refresh token, no two devices hold one, and a request's row is its own
  device's; `Cookies` that access comes with a refresh token; and `Provided` that a device
  nothing excuses is served at rest and otherwise has one request alone, which ends in an
  excuse or in a live session (`OnItsWay`).

`SignInProofs`, for every set of browsers, requests at a time and codes and any number of
failures, secrets and requests:

- `SignInTyped`, `SwitchedOnIsProven` (`OnIsProven`), `DeadCodesNeverReturn`
  (`DeadCodesStayDead`) and `NoLockIsTakenBack` (`LockStands`).
- `Inv` adds to the types what requests under way have read: that it let them in (`Reads`),
  that secrets and codes yet to be made are accounted for (`Counted`), that codes in lists
  were made (`CodesMade`), and, as long as nothing has overlapped that should not, that the
  secret a pending enrolment has read is still the account's (`Enrolled`) and that no list
  a pending verification will write back holds a dead code (`Recovered`).  The step lemmas
  say once what a flush may change of the row, whatever the request.
- `AccountsAreLockedInTime` (`LockedInTime`).  The count in the row says nothing of the
  failures it has lost, so `Tallied` bounds them: with two requests at a time, twice the
  failures never exceed `Ceiling(f) = f (2 MaxFailures + 1 - f)`, `f` being the count, and
  as much holds of a request that has read a lower count, plus two for each failure between
  its count and the row's (`ByTwo`).  `StartAssumption` says that an account does not start
  with a count that should have locked it.
- `CodesAreRationed` (`CodeUses`), for any number of requests at a time.  A code was
  accepted at most as often as requests can have it accepted once per acceptance of
  another (`Rationed`): those that can still have it accepted (`Able`) read the row before
  it was, and an enrolment leaves no trace when the step it enters is the one it has read
  (`Traceless`).  `Shown` says that a secret no code was shown for was not accepted either,
  and that while no enrolments overlap, a secret goes when its factor does.  The attempt
  to prove the property without that condition is what showed that it needs it.

`SettingsProofs`, for every set of tenants, requests at a time, crontabs and file types and
every environment that meets `SettingsAssumption`:

- `SettingsTyped`; `OneFounderOnly`: whoever is about to create holds the advisory lock
  and has counted nobody under it (`Founded`).  The lock goes with the commit that creates,
  so nobody can have created since.  `OnCourse` says where in its course a request can be.
- `TlsRuleKept` (`TlsRuleHolds`), `LogosAreThere`, `JobsFollowSchedule` and
  `ChangesAreAudited` (`AuditedOrDied`), from one invariant, `AspectsInv`.  It lists the steps
  a request can have ahead of it (`Ahead`), where its entry stands there (`Entered`), that
  nobody else is at an aspect it has for itself (`Sole`), and that what it has checked, put
  on the disk or read there still holds (`Checked`, `Filed`, `AsRead`); and that the logo
  and the job are as the settings say or a request is about to make them so (`Stored`,
  `Scheduled`), with one file at the most (`OneFile`).  `BrokenOffTypes` and
  `BrokenOffFiles` say what a request that breaks off leaves: files change only where the
  logo is then out of order.  That `None` is not a job, a crontab or a file type is an assumption
  (`SettingsAssumption`).

`GraphClientProofs`, under `GraphAssumption`, which says that a request times out in less
time than the margin a kept token must have (`Transit < Margin`) and than a new token lasts:

- `GraphTyped`, `TokensStaySafe` and `WhatIsSaidIsTrue`.  The invariant says that the client
  never takes a token for good longer than Graph does (`TokenKept`), that a request on the
  wire has a token that outlasts it and a link that was looked at (`Shown`), that everybody
  who was there all the time and comes before the next page has been read (`Read`), and how
  many mails were accepted in so many attempts (`Posted`).

`RequestsProofs` brings these together for the sum that `requests` checks.  `SumOfParts`:
a behaviour of `MCRequests` is one of `SignIn`, one of `Settings` and one of `GraphClient`,
each stuttering while the others move, and `PartsAssumption`, which TLC evaluates, gives the
assumptions of the two that are instances.  From it follow `PartsTyped`, `PartsOneFounder`,
`PartsTlsRule`, `PartsLogosAreThere`, `PartsJobsFollowSchedule`, `PartsChangesAreAudited`,
`PartsTokensSafe` and `PartsAnswersTrue`, the properties as the run states them.

Only model-checked:

- All liveness (`OwedIsPaid`, `PickedIsServed`, `LockIsPassedOn`): fairness and ENABLED are
  beyond the prover's reach.
- What the violation runs refute.

`ComputeExpiry` and the brakes are used in proofs by definition and have no theorem of
their own.

## Plan

In this order, the most important behaviour first:

1. done - `ReminderStage`, `Delivery`, `ReminderPromise` and their theorems;
   `RunLifecycle`.
2. done - `AccessModel` with the gates, `Grants`, and their theorems.
3. done - `Sessions` with invitation and reset links, `SignIn`, and their theorems; left:
   the active tenant of a session.
4. done - `Settings`, `GraphClient`, `MCRequests` and their theorems.
5. The refresh that outlives a revocation, and the reset that is interrupted before its
   `revoke_all`, as violation runs of their own.
6. `TenantContext`: nested contexts, and which tenant a transaction runs under.
7. Proofs: every invariant and action property that a passing run checks has its theorem;
   left: who is in line again after a disturbance, once every team has been synced.

## Not modelled

- Rendering, trimming and checking of uploaded images, connectivity tests, read-only
  endpoints, rate limits, cryptography (masking and encryption of secrets among it), the
  middleware and the web client: no state that other parts depend on.
- The value ranges of single settings, and which permissions and fields Graph's pages
  carry: data that no property tells apart.
- The OIDC exchange with Entra: its outcome, an SSO login, is an action of `Grants` and of
  `Sessions`; state and nonce live in one signed cookie and nowhere else.
- The cache of profile photos (a photo that is missing is remembered for a week) and the
  alert mail after a run: best effort, read by nothing else.
- Cron arithmetic and APScheduler's own threads belong to a library; of the scheduler,
  the job that is planned (`Settings`) and the lock its runs take (`RunLifecycle`) are
  modelled.
- Row-level security itself is PostgreSQL's; which tenant a transaction runs under when
  contexts are nested is planned (6).
