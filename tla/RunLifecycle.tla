----------------------------- MODULE RunLifecycle -----------------------------
(***************************************************************************)
(* The life of a run: who may start one, how the scheduler fans it out     *)
(* over the tenants, what execute_run does to one tenant and what becomes  *)
(* of its database row.                                                    *)
(*                                                                         *)
(* The cron job and manual triggers queue for one asyncio.Lock.  Its       *)
(* holder runs its tenants one after the other; an exception of one tenant *)
(* is counted and the next tenant follows.  execute_run commits a row      *)
(* "running" first and its outcome last; in between every step has its own *)
(* exception handler, but all steps share one database transaction.  A     *)
(* statement that fails aborts that transaction: nobody rolls it back, so  *)
(* every later statement fails too, the final commit included.             *)
(*                                                                         *)
(* Whom the loop mails and what the history records is Delivery's subject; *)
(* here a user only has an outcome.                                        *)
(***************************************************************************)
EXTENDS ReminderStage, Sequences

CONSTANTS
  Tenant,         \* customers
  Account,        \* directory accounts
  Cron,           \* the scheduled job
  Manual,         \* operators who trigger runs
  UserRetention,  \* privacy.user_retention_days, 0 keeps accounts
  AuditRetention, \* whether audit.retention_days is set
  NotifyCap,      \* schedule.max_notify_count
  Reconfigurable, \* tenants whose Graph configuration operators may remove
  Moving,         \* bound: accounts that leave the directory and come back
  Switchable,     \* bound: tenants that operators switch off and on
  MaxRows,        \* bound: runs per tenant
  MaxFaults       \* bound: crashes and failed statements

Caller == Manual \union {Cron}

ASSUME CallerAssumption == Cron \notin Manual
ASSUME RunAssumption ==
  /\ UserRetention \in Nat /\ AuditRetention \in BOOLEAN /\ NotifyCap \in Nat
  /\ Reconfigurable \subseteq Tenant /\ Switchable \subseteq Tenant
  /\ IsFiniteSet(Account) /\ Moving \subseteq Account
  /\ MaxRows \in Nat /\ MaxFaults \in Nat

VARIABLES
  up,         \* the process runs
  line,       \* asyncio.Lock: the first holds it, the others wait in order
  todo,       \* what the holder still has to run
  tried,      \* history: the tenants the holder has attempted
  returned,   \* the holder got a Run back from at least one tenant
  exec,       \* execute_run, or None
  rows,       \* run: the rows of each tenant
  active,     \* tenant.is_active
  configured, \* is_graph_configured
  directory,  \* Entra: the accounts of each tenant
  age,        \* entra_user: days since last_synced_at, None when there is no row
  logged,     \* accounts that notification_log refers to
  trail,      \* audit_log: expired entries left, purges made, purges recorded
  faults

outside == <<active, configured, directory>>
vars == <<up, line, todo, tried, returned, exec, rows, outside, age, logged, trail, faults>>

MaxAge == UserRetention + 1

Init ==
  /\ up = TRUE
  /\ line = <<>>
  /\ todo = {} /\ tried = {} /\ returned = FALSE
  /\ exec = None
  /\ rows = [t \in Tenant |-> <<>>]
  /\ active \in {Tenant \ off : off \in SUBSET Switchable}
  /\ configured = Tenant
  /\ directory = [t \in Tenant |-> Account]
  /\ age = [t \in Tenant |-> [a \in Account |-> None]]
  /\ logged = [t \in Tenant |-> {}]
  /\ trail = [t \in Tenant |-> [expired |-> FALSE, purges |-> 0, recorded |-> 0]]
  /\ faults = 0

-----------------------------------------------------------------------------
(* The world. *)

(* Days pass, counted up to the retention; a run takes less than one.      *)
Day ==
  /\ exec = None
  /\ age' = [t \in Tenant |-> [a \in Account |->
       IF age[t][a] = None \/ age[t][a] = MaxAge THEN age[t][a] ELSE age[t][a] + 1]]
  /\ trail' = [t \in Tenant |-> [trail[t] EXCEPT !.expired = AuditRetention]]
  /\ UNCHANGED <<up, line, todo, tried, returned, exec, rows, outside, logged, faults>>

Leave(t, a) ==
  /\ directory' = [directory EXCEPT ![t] = IF a \in @ THEN @ \ {a} ELSE @ \union {a}]
  /\ UNCHANGED <<up, line, todo, tried, returned, exec, rows, active, configured, age,
                 logged, trail, faults>>

Reconfigure(t) ==
  /\ configured' = IF t \in configured THEN configured \ {t} ELSE configured \union {t}
  /\ UNCHANGED <<up, line, todo, tried, returned, exec, rows, active, directory, age,
                 logged, trail, faults>>

Activate(t) ==
  /\ active' = IF t \in active THEN active \ {t} ELSE active \union {t}
  /\ UNCHANGED <<up, line, todo, tried, returned, exec, rows, configured, directory, age,
                 logged, trail, faults>>
-----------------------------------------------------------------------------
(* The scheduler. *)

InLine(c) == \E i \in 1..Len(line) : line[i] = c

(* The cron job fires (at most one instance at a time) or an operator      *)
(* triggers a run: it queues for the lock.                                 *)
Enqueue(c) ==
  /\ up /\ ~InLine(c)
  /\ \A t \in Tenant : Len(rows[t]) + Len(line) < MaxRows
  /\ line' = Append(line, c)
  /\ UNCHANGED <<up, todo, tried, returned, exec, rows, outside, age, logged, trail, faults>>

Holds(c) == up /\ line # <<>> /\ Head(line) = c /\ exec = None /\ todo = {} /\ tried = {}

(* The holder picks its tenants: all that are active now, or the single    *)
(* one an operator was authorised for when the request came in.  With none *)
(* it gives the lock back at once.                                         *)
Acquire(c, ids) ==
  /\ Holds(c)
  /\ \/ ids = active
     \/ c \in Manual /\ \E t \in Tenant : ids = {t}
  /\ IF ids = {} THEN line' = Tail(line) ELSE UNCHANGED line
  /\ todo' = ids
  /\ UNCHANGED <<up, tried, returned, exec, rows, outside, age, logged, trail, faults>>

(* The query for the active tenants fails: so does the job, lock returned. *)
AcquireFails(c) ==
  /\ Holds(c) /\ faults < MaxFaults
  /\ line' = Tail(line)
  /\ faults' = faults + 1
  /\ UNCHANGED <<up, todo, tried, returned, exec, rows, outside, age, logged, trail>>

(* Mutant: an exception of one tenant ends the fan-out. *)
TenantFailsMutAbort(t) ==
  todo' = {} /\ tried' = tried \union {t} /\ UNCHANGED returned

(* An exception out of execute_run: counted, and on to the next tenant.    *)
TenantFails(t) ==
  todo' = todo \ {t} /\ tried' = tried \union {t} /\ UNCHANGED returned

TenantReturns(t) ==
  todo' = todo \ {t} /\ tried' = tried \union {t} /\ returned' = TRUE

(* Mutant: the lock is only given back when a run was returned. *)
ReleaseMutKeep == returned /\ line' = Tail(line)

Release == line' = Tail(line)

(* The last tenant is done: the lock goes to the next in line, whether a   *)
(* run is returned or "all tenants failed" is raised.                      *)
FinishFanout ==
  /\ up /\ exec = None /\ todo = {} /\ tried # {}
  /\ Release
  /\ tried' = {} /\ returned' = FALSE
  /\ UNCHANGED <<up, todo, exec, rows, outside, age, logged, trail, faults>>
-----------------------------------------------------------------------------
(* execute_run.  exec.aborted: a statement failed in the open transaction. *)
(* exec.pending: the audit purge and its entry, not committed yet.         *)

Unfinished == [status |-> "running", checked |-> 0, sent |-> 0, failed |-> 0, skipped |-> 0]

(* The row is committed as "running", or creating it raises. *)
Create(t, dry) ==
  /\ up /\ exec = None /\ t \in todo
  /\ rows' = [rows EXCEPT ![t] = Append(@, Unfinished)]
  /\ exec' = [tenant |-> t, step |-> "sync", dry |-> dry, status |-> "success",
              aborted |-> FALSE, blocked |-> FALSE, pending |-> {}, present |-> {},
              left |-> {}, checked |-> 0, sent |-> 0, failed |-> 0, skipped |-> 0]
  /\ UNCHANGED <<up, line, todo, tried, returned, outside, age, logged, trail, faults>>

CreateFails(t) ==
  /\ up /\ exec = None /\ t \in todo
  /\ faults < MaxFaults
  /\ TenantFails(t)
  /\ faults' = faults + 1
  /\ UNCHANGED <<up, line, exec, rows, outside, age, logged, trail>>

At(step) == up /\ exec # None /\ exec.step = step

(* A commit of the run's session makes a pending purge and its entry real. *)
Commit ==
  trail' = [trail EXCEPT ![exec.tenant] =
    [expired  |-> @.expired /\ "purge" \notin exec.pending,
     purges   |-> @.purges   + (IF "purge" \in exec.pending THEN 1 ELSE 0),
     recorded |-> @.recorded + (IF "entry" \in exec.pending THEN 1 ELSE 0)]]

(* What the sync reached is fresh again.  Without a Graph configuration it *)
(* is skipped and counts as a success; after an exception the status is    *)
(* "partial" - a failed statement also aborts the transaction.             *)
Sync(reached, outcome) ==
  /\ At("sync")
  /\ reached \subseteq directory[exec.tenant]
  /\ outcome = "skipped" <=> exec.tenant \notin configured
  /\ outcome = "skipped" => reached = {}
  /\ outcome = "done" => reached = directory[exec.tenant]
  /\ outcome = "dberror" => faults < MaxFaults
  /\ faults' = IF outcome = "dberror" THEN faults + 1 ELSE faults
  /\ age' = [age EXCEPT ![exec.tenant] =
       [a \in Account |-> IF a \in reached THEN 0 ELSE @[a]]]
  /\ exec' = [exec EXCEPT !.step = "sso", !.present = directory[exec.tenant],
       !.status  = IF outcome \in {"failed", "dberror"} THEN "partial" ELSE @,
       !.aborted = outcome = "dberror"]
  /\ UNCHANGED <<up, line, todo, tried, returned, rows, outside, logged, trail>>

(* The reconciliation of SSO accounts has a session of its own.  When it   *)
(* blocks a removal or protects the last admin the run is "partial"; its   *)
(* exceptions do not count.                                                *)
SsoSync(protected) ==
  /\ At("sso")
  /\ exec' = [exec EXCEPT !.step = "audit", !.status = IF protected THEN "partial" ELSE @]
  /\ UNCHANGED <<up, line, todo, tried, returned, rows, outside, age, logged, trail, faults>>

(* Mutant: the entry about a purge is not written. *)
PurgedMutSilent == {"purge"}

Purged == {"purge", "entry"}

(* Expired audit entries are deleted together with an entry that says so.  *)
(* Neither is committed here, and an exception is swallowed.               *)
AuditPurge ==
  /\ At("audit")
  /\ exec' = [exec EXCEPT !.step = "accounts",
       !.pending = IF trail[exec.tenant].expired /\ ~exec.aborted THEN Purged ELSE {}]
  /\ UNCHANGED <<up, line, todo, tried, returned, rows, outside, age, logged, trail, faults>>

Mirrored(t) == {a \in Account : age[t][a] # None}
Stale(t)    == {a \in Mirrored(t) : age[t][a] > UserRetention}

(* Mutant: account retention does not ask how the sync went. *)
MayPurgeAccountsMutAlways ==
  /\ UserRetention > 0 /\ ~exec.aborted /\ Stale(exec.tenant) # {}
  /\ ~PurgeBlocked(Cardinality(Stale(exec.tenant)), Cardinality(Mirrored(exec.tenant)))

MayPurgeAccounts ==
  /\ UserRetention > 0 /\ exec.status = "success" /\ ~exec.aborted
  /\ Stale(exec.tenant) # {}
  /\ ~PurgeBlocked(Cardinality(Stale(exec.tenant)), Cardinality(Mirrored(exec.tenant)))

(* Departed accounts are deleted and committed.  The history refers to     *)
(* accounts and the foreign key does not cascade: when one of them has a   *)
(* row there, the statement fails, the exception is swallowed together     *)
(* with the rest of the retention step, and the transaction is aborted.    *)
PurgeAccounts ==
  /\ At("accounts")
  /\ LET t    == exec.tenant
         gone == Stale(t)
     IN  \/ /\ ~MayPurgeAccounts
            /\ exec' = [exec EXCEPT !.step = "history"]
            /\ UNCHANGED <<age, trail>>
         \/ /\ MayPurgeAccounts /\ gone \intersect logged[t] # {}
            /\ exec' = [exec EXCEPT !.step = "select", !.aborted = TRUE]
            /\ UNCHANGED <<age, trail>>
         \/ /\ MayPurgeAccounts /\ gone \intersect logged[t] = {}
            /\ age' = [age EXCEPT ![t] = [a \in Account |-> IF a \in gone THEN None ELSE @[a]]]
            /\ Commit
            /\ exec' = [exec EXCEPT !.step = "history", !.pending = {}]
  /\ UNCHANGED <<up, line, todo, tried, returned, rows, outside, logged, faults>>

(* The history is trimmed, and committed when there was something to trim. *)
TrimHistory(old) ==
  /\ At("history")
  /\ old \subseteq logged[exec.tenant]
  /\ exec.aborted => old = {}
  /\ logged' = [logged EXCEPT ![exec.tenant] = @ \ old]
  /\ IF old = {} THEN UNCHANGED trail ELSE Commit
  /\ exec' = [exec EXCEPT !.step = "select", !.pending = IF old = {} THEN @ ELSE {}]
  /\ UNCHANGED <<up, line, todo, tried, returned, rows, outside, age, faults>>

(* The candidates and the brake.  An aborted transaction, or a mail        *)
(* configuration that does not build, ends the run as "error".             *)
Select(candidates, due, broken) ==
  /\ At("select")
  /\ candidates \subseteq Mirrored(exec.tenant) /\ due \subseteq candidates
  /\ LET blocked == /\ ~exec.dry
                    /\ MassSendBlocked(Cardinality(due), Cardinality(candidates),
                                       <<0, 1>>, NotifyCap)
     IN  exec' = IF exec.aborted \/ broken
                 THEN [exec EXCEPT !.step = "final", !.status = "error"]
                 ELSE [exec EXCEPT !.step = "loop", !.checked = Cardinality(candidates),
                         !.blocked = blocked,
                         !.left    = IF blocked THEN {} ELSE candidates,
                         !.status  = IF blocked THEN "partial" ELSE @]
  /\ UNCHANGED <<up, line, todo, tried, returned, rows, outside, age, logged, trail, faults>>

(* One user.  Skipped users may not touch the database; a recorded attempt *)
(* commits; an exception of one user is counted and the loop goes on.      *)
Notify(u, outcome) ==
  /\ At("loop") /\ u \in exec.left
  /\ outcome \in {"sent", "unsent"} => ~exec.aborted
  /\ outcome = "unsent" => ~exec.dry
  /\ outcome = "dberror" => ~exec.aborted /\ faults < MaxFaults
  /\ LET recorded == outcome \in {"sent", "unsent"} /\ ~exec.dry
     IN  /\ exec' = [exec EXCEPT !.left = @ \ {u},
               !.sent    = @ + (IF outcome = "sent" THEN 1 ELSE 0),
               !.failed  = @ + (IF outcome \in {"unsent", "raised", "dberror"} THEN 1 ELSE 0),
               !.skipped = @ + (IF outcome = "skipped" THEN 1 ELSE 0),
               !.aborted = @ \/ outcome = "dberror",
               !.pending = IF recorded THEN {} ELSE @]
         /\ IF recorded
            THEN Commit /\ logged' = [logged EXCEPT ![exec.tenant] = @ \union {u}]
            ELSE UNCHANGED <<trail, logged>>
  /\ faults' = IF outcome = "dberror" THEN faults + 1 ELSE faults
  /\ UNCHANGED <<up, line, todo, tried, returned, rows, outside, age>>

LoopEnd ==
  /\ At("loop") /\ exec.left = {}
  /\ exec' = [exec EXCEPT !.step = "final"]
  /\ UNCHANGED <<up, line, todo, tried, returned, rows, outside, age, logged, trail, faults>>

(* Mutant: failed users leave the status as it is. *)
FinalStatusMutSuccess == exec.status

FinalStatus ==
  IF exec.failed > 0 /\ exec.status = "success" THEN "partial" ELSE exec.status

(* The outcome is committed and the run returned to the scheduler...       *)
Finish ==
  /\ At("final") /\ ~exec.aborted
  /\ LET t == exec.tenant
     IN  /\ rows' = [rows EXCEPT ![t][Len(rows[t])] =
              [status |-> FinalStatus, checked |-> exec.checked, sent |-> exec.sent,
               failed |-> exec.failed, skipped |-> exec.skipped]]
         /\ TenantReturns(t)
  /\ Commit
  /\ exec' = None
  /\ UNCHANGED <<up, line, outside, age, logged, faults>>

(* ...unless the transaction is aborted or this commit fails: then the     *)
(* exception leaves execute_run and the row stays "running".               *)
FinishFails ==
  /\ At("final")
  /\ \/ exec.aborted /\ UNCHANGED faults
     \/ ~exec.aborted /\ faults < MaxFaults /\ faults' = faults + 1
  /\ TenantFails(exec.tenant)
  /\ exec' = None
  /\ UNCHANGED <<up, line, rows, outside, age, logged, trail>>
-----------------------------------------------------------------------------
(* The process. *)

Crash ==
  /\ up /\ faults < MaxFaults
  /\ up' = FALSE
  /\ line' = <<>> /\ todo' = {} /\ tried' = {} /\ returned' = FALSE /\ exec' = None
  /\ faults' = faults + 1
  /\ UNCHANGED <<rows, outside, age, logged, trail>>

(* Mutant: a status the rows do not have. *)
MarkStaleMutFailed ==
  rows' = [t \in Tenant |-> [i \in DOMAIN rows[t] |->
    IF rows[t][i].status = "running"
    THEN [rows[t][i] EXCEPT !.status = "failed"] ELSE rows[t][i]]]

(* Mutant: only the latest row of a tenant is looked at. *)
MarkStaleMutLatest ==
  rows' = [t \in Tenant |-> [i \in DOMAIN rows[t] |->
    IF rows[t][i].status = "running" /\ i = Len(rows[t])
    THEN [rows[t][i] EXCEPT !.status = "error"] ELSE rows[t][i]]]

(* mark_stale_as_error, before the scheduler starts. *)
MarkStale ==
  rows' = [t \in Tenant |-> [i \in DOMAIN rows[t] |->
    IF rows[t][i].status = "running"
    THEN [rows[t][i] EXCEPT !.status = "error"] ELSE rows[t][i]]]

Restart ==
  /\ ~up
  /\ up' = TRUE
  /\ MarkStale
  /\ UNCHANGED <<line, todo, tried, returned, exec, outside, age, logged, trail, faults>>
-----------------------------------------------------------------------------
Outcomes == {"sent", "unsent", "skipped", "raised", "dberror"}

AnySync == \E reached \in SUBSET Account, o \in {"done", "skipped", "failed", "dberror"} :
             Sync(reached, o)
AnySelect == \E candidates \in SUBSET Account, due \in SUBSET Account, broken \in BOOLEAN :
               Select(candidates, due, broken)
AnyNotify == \E u \in Account, o \in Outcomes : Notify(u, o)

Next ==
  \/ Day
  \/ \E t \in Tenant, a \in Moving : Leave(t, a)
  \/ \E t \in Reconfigurable : Reconfigure(t)
  \/ \E t \in Switchable : Activate(t)
  \/ \E c \in Caller : Enqueue(c)
  \/ \E c \in Caller, ids \in SUBSET Tenant : Acquire(c, ids)
  \/ \E c \in Caller : AcquireFails(c)
  \/ \E t \in Tenant, dry \in BOOLEAN : Create(t, dry)
  \/ \E t \in Tenant : CreateFails(t)
  \/ AnySync
  \/ \E protected \in BOOLEAN : SsoSync(protected)
  \/ AuditPurge
  \/ PurgeAccounts
  \/ \E old \in SUBSET Account : TrimHistory(old)
  \/ AnySelect
  \/ AnyNotify
  \/ LoopEnd
  \/ Finish
  \/ FinishFails
  \/ FinishFanout
  \/ Crash
  \/ Restart

Spec == Init /\ [][Next]_vars

(* Every step of the program that can be taken is taken in the end; nobody *)
(* has to trigger a run and nothing has to fail.                           *)
Fairness ==
  /\ WF_vars(\E c \in Caller, ids \in SUBSET Tenant : Acquire(c, ids))
  /\ WF_vars(\E t \in Tenant, dry \in BOOLEAN : Create(t, dry))
  /\ WF_vars(AnySync)
  /\ WF_vars(\E protected \in BOOLEAN : SsoSync(protected))
  /\ WF_vars(AuditPurge)
  /\ WF_vars(PurgeAccounts)
  /\ WF_vars(\E old \in SUBSET Account : TrimHistory(old))
  /\ WF_vars(AnySelect)
  /\ WF_vars(AnyNotify)
  /\ WF_vars(LoopEnd)
  /\ WF_vars(Finish \/ FinishFails)
  /\ WF_vars(FinishFanout)
  /\ WF_vars(Restart)

LiveSpec == Spec /\ Fairness

-----------------------------------------------------------------------------
Execution ==
  [tenant : Tenant, dry : BOOLEAN,
   step : {"sync", "sso", "audit", "accounts", "history", "select", "loop", "final"},
   status : {"success", "partial", "error"}, aborted : BOOLEAN, blocked : BOOLEAN,
   pending : SUBSET {"purge", "entry"}, present : SUBSET Account, left : SUBSET Account,
   checked : Nat, sent : Nat, failed : Nat, skipped : Nat]

Status == {"running", "success", "partial", "error"}

Row == [status : Status, checked : Nat, sent : Nat, failed : Nat, skipped : Nat]

TypeOK ==
  /\ up \in BOOLEAN
  /\ line \in Seq(Caller)
  /\ todo \subseteq Tenant /\ tried \subseteq Tenant /\ returned \in BOOLEAN
  /\ exec \in Execution \union {None}
  /\ rows \in [Tenant -> Seq(Row)]
  /\ active \subseteq Tenant /\ configured \subseteq Tenant
  /\ directory \in [Tenant -> SUBSET Account]
  /\ age \in [Tenant -> [Account -> (0..MaxAge) \union {None}]]
  /\ logged \in [Tenant -> SUBSET Account]
  /\ trail \in [Tenant -> [expired : BOOLEAN, purges : Nat, recorded : Nat]]
  /\ faults \in 0..MaxFaults

(* What the operator reads of a run is the truth: a "success" means that   *)
(* every checked user was mailed or had no mail due, and a run that ended  *)
(* otherwise still accounts for all its users or for none (it was blocked  *)
(* or never got to them).                                                  *)
RowsAddUp ==
  \A t \in Tenant : \A i \in DOMAIN rows[t] :
    LET row   == rows[t][i]
        total == row.sent + row.failed + row.skipped
    IN  /\ row.status = "success" => row.failed = 0
        /\ total = row.checked \/ total = 0

(* Audit history is never deleted silently: in every committed state there *)
(* is one AUDIT_PURGED entry per purge, wherever the run was cut off       *)
(* between deleting, recording and the commit that happens to come next.   *)
PurgesAreRecorded == \A t \in Tenant : trail[t].purges = trail[t].recorded

(* Outcomes are final, and every run gets one: a row changes only while it  *)
(* says "running", and a restart settles all the rows that crashes and      *)
(* aborted runs left open, of every tenant, however many there are.         *)
RestartSettlesRuns ==
  [][\A t \in Tenant : \A i \in DOMAIN rows[t] :
       /\ rows[t][i].status # "running" => rows'[t][i] = rows[t][i]
       /\ ~up /\ up' => rows'[t][i].status # "running"]_vars

(* Account retention never deletes somebody who is in the directory: an    *)
(* outage that lets every account age does not cost one of them            *)
(* (retention.py, runner._apply_privacy_retention).                        *)
PurgeSparesPresent ==
  [][\A t \in Tenant, a \in Account :
       age[t][a] # None /\ age'[t][a] = None => a \notin exec.present]_vars

(* Nothing inside a run can keep it from ending with an outcome (the       *)
(* runner's "errors ... must never abort the run"): while the process is   *)
(* up, a row "running" belongs to the run in progress.                     *)
RunningMeansLive ==
  up => \A t \in Tenant : \A i \in DOMAIN rows[t] :
    rows[t][i].status = "running" => exec # None /\ exec.tenant = t /\ i = Len(rows[t])

(* A broken tenant costs the others nothing: every tenant a fan-out picked *)
(* is attempted, whatever happened to those before it.                     *)
PickedIsServed == \A t \in Tenant : t \in todo ~> t \in tried \/ ~up

(* The lock is always passed on: whoever queues for a run gets its turn    *)
(* and an answer, or the process stops.                                    *)
LockIsPassedOn == \A c \in Caller : InLine(c) ~> ~InLine(c)
=============================================================================
