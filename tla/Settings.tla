------------------------------- MODULE Settings -------------------------------
(***************************************************************************)
(* The settings of each tenant and what has to be kept in step with them:  *)
(* the rule on smtp_tls, the uploaded logo in its directory, the           *)
(* cron job in the scheduler's memory and the audit entry of each change;  *)
(* and how the first account comes into being, by the setup wizard or from *)
(* the environment at boot.                                                *)
(*                                                                         *)
(* A request is a worker with sessions of its own that goes through a      *)
(* course of steps: a step ends at an await after which others may have    *)
(* written.  Up to its commit a step leaves nothing that others could see. *)
(* A request may die between two steps, and so may the process: what was   *)
(* committed, the files and the scheduler's job stay in the one case, the  *)
(* rows and the files in the other.  A step that is at the files may break *)
(* off inside: they are no part of any transaction.                        *)
(***************************************************************************)
EXTENDS Integers, Sequences, FiniteSets

CONSTANTS
  Tenants,
  Default,      \* the provider's tenant, whose schedule drives the one job
  None,
  Workers,      \* requests under way at the same time
  Good,         \* crontabs that CronTrigger.from_crontab takes
  Bad,          \* and such that it does not
  Kept,         \* the crontab that holds when nothing was ever set
  Types,        \* file types of a logo
  Along,        \* bound: what smtp_tls may be changed to together with the host
  Env,          \* what the environment may say: an administrator, a crontab
  MaxRequests,  \* bound: requests ever made
  MaxFaults     \* bound: requests that die, crashes of the server

Crons == Good \union Bad
Hosts == {"internal", "external"}
\* "starttls" stands for "ssl", too.  smtp_tls has no validator: "other" is any value but
\* the three there are names for, and it is sent in the clear as "none" is.
Ciphers == {"starttls", "none", "other"}

\* An internal host is one that the operator has allowed.  No host counts as one:
\* nothing is sent.
Values == [host : Hosts, tls : Ciphers, cron : Crons, logo : Types \union {None}]

\* "reset" stands for add_exclusion and delete_exclusion, too, "mode" for mail_test: what
\* they write is nobody else's, and they differ in when they commit it.
Ops == {"put", "upload", "clear", "reset", "mode", "setup"}
Aspects == {"mail", "logo", "cron"} \X Tenants

VARIABLES
  cfg,      \* setting: the rows of each tenant over the defaults
  seeded,   \* some row exists
  files,    \* the types of the logo files in each tenant's directory
  plan,     \* the crontab of the scheduler's job, None without one
  up,       \* the server has started
  people,   \* app_user: how many of each role
  lock,     \* who holds the advisory lock of the setup
  job,      \* what each worker is at, or None
  budget,    \* what the bounds count
  silent,   \* history: operations that ended with a change and no entry for it
  odd       \* history: aspects that were disturbed and not put right since

vars == <<cfg, seeded, files, plan, up, people, lock, job, budget, silent, odd>>

Steps == {"check", "save", "record", "commit", "read", "plan", "file", "lock", "create"}
\* The bodies of a PUT; other requests have none.
Bodies ==
  [host : Hosts] \union [tls : Ciphers] \union [host : Hosts, tls : Along]
    \union [cron : Crons] \union [logo : {None}]
NoBody == <<>>
Jobs ==
  [op : Ops, tenant : Tenants,
   vals : Bodies \union {NoBody},
   logo : Types \union {None},      \* what was uploaded
   left : Seq(Steps),
   saved : BOOLEAN,                 \* the change is committed,
   entry : {"none", "staged", "kept"},      \* and so is its entry
   read : Crons \union {None},      \* the default tenant's schedule, as read
   alone : SUBSET Aspects]          \* what nobody else has changed meanwhile

SettingsAssumption ==
  /\ Default \in Tenants /\ Kept \in Good /\ Good \intersect Bad = {}
  /\ None \notin Crons \union Types \union Workers \union Jobs
  /\ Along \subseteq Ciphers
  /\ Env \subseteq [admin : BOOLEAN, cron : Crons]
  /\ MaxRequests \in Nat /\ MaxFaults \in Nat

TypeOK ==
  /\ cfg \in [Tenants -> Values]
  /\ seeded \in BOOLEAN /\ up \in BOOLEAN
  /\ files \in [Tenants -> SUBSET Types]
  /\ plan \in Crons \union {None}
  /\ people \in [{"superadmin", "admin"} -> Nat]
  /\ lock \in Workers \union {None}
  /\ job \in [Workers -> Jobs \union {None}]
  /\ budget \in [requests : 0..MaxRequests, faults : 0..MaxFaults]
  /\ silent \subseteq Ops
  /\ odd \subseteq Aspects

-----------------------------------------------------------------------------
(* What the requests do, step by step                                      *)

Mail(vals) == DOMAIN vals \intersect {"host", "tls"} # {}
Schedule(vals) == "cron" \in DOMAIN vals
Branding(vals) == "logo" \in DOMAIN vals

(* Mutant: the entry comes after the commit that was to take it along. *)
RecordThenSaveMutSwapped == <<"save", "record">>
\* template_reset, add_exclusion and delete_exclusion: one commit for both
RecordThenSave == <<"record", "save">>

\* update, upload_logo, delete_logo, update_instance, mail_test and create_admin
\* commit the change first and the entry in a second commit.
Course(op, vals) ==
  CASE op = "put" ->
         (IF Mail(vals) THEN <<"check">> ELSE <<>>) \o <<"save", "record", "commit">>
           \o (IF Schedule(vals) THEN <<"read", "plan">> ELSE <<>>)
    [] op \in {"upload", "clear"} -> <<"file", "save", "record", "commit">>
    [] op = "reset" -> RecordThenSave
    [] op = "mode" -> <<"save", "record", "commit">>
    [] op = "setup" -> <<"lock", "create", "record", "commit">>

If(condition, aspect) == IF condition THEN {aspect} ELSE {}

\* Every reschedule reads the default tenant's schedule, whoever asked for it.
Touched(op, t, vals) ==
  If(op = "put" /\ Mail(vals), <<"mail", t>>) \union
  If(op = "put" /\ Schedule(vals), <<"cron", Default>>) \union
  If(op \in {"upload", "clear"} \/ (op = "put" /\ Branding(vals)), <<"logo", t>>)

Busy == {w \in Workers : job[w] # None}
At(w, step) == up /\ job[w] # None /\ Head(job[w].left) = step
Count == people["superadmin"] + people["admin"]

\* The setup is open to everybody until there is an account; the rest needs one.  What
\* concerns no aspect is the same in every tenant.
Begin(w, op, t, vals, logo) ==
  LET mine == Touched(op, t, vals)
      clash == mine \intersect UNION {Touched(job[v].op, job[v].tenant, job[v].vals) : v \in Busy}
  IN
  /\ op = "setup" \/ Count > 0
  /\ op \notin {"put", "upload", "clear"} => t = Default
  /\ job' = [v \in Workers |->
       IF v = w THEN [op |-> op, tenant |-> t, vals |-> vals, logo |-> logo,
                      left |-> Course(op, vals), saved |-> FALSE, entry |-> "none",
                      read |-> None, alone |-> mine \ clash]
       ELSE IF v \in Busy THEN [job[v] EXCEPT !.alone = @ \ mine] ELSE None]
  /\ odd' = odd \union clash
  /\ budget' = [budget EXCEPT !.requests = @ + 1]
  /\ UNCHANGED <<cfg, seeded, files, plan, up, people, lock, silent>>

Free(w) == IF lock = w THEN None ELSE lock

\* The request ends as j, for whatever reason.
Ends(w, j) ==
  /\ job' = [job EXCEPT ![w] = None]
  /\ lock' = Free(w)
  /\ silent' = IF j.saved /\ j.entry # "kept" THEN silent \union {j.op} ELSE silent

\* The step is done: j goes on with the next one.
Goes(w, j) ==
  LET k == [j EXCEPT !.left = Tail(@)] IN
  IF k.left = <<>> THEN Ends(w, k)
  ELSE job' = [job EXCEPT ![w] = k] /\ UNCHANGED <<lock, silent>>

\* A commit takes along the entry that was staged.
Committed(j) == [j EXCEPT !.entry = IF @ = "staged" THEN "kept" ELSE @]

-----------------------------------------------------------------------------
(* set_many                                                                *)

\* The batch over what is persisted.
Merge(row, vals) ==
  [k \in DOMAIN row |-> IF k \in DOMAIN vals THEN vals[k] ELSE row[k]]

(* Mutant: only what the batch holds is looked at. *)
AllowedMutBatch(row, vals) ==
  "tls" \in DOMAIN vals /\ vals.tls = "none" => "host" \notin DOMAIN vals \/ vals.host # "external"
\* check_smtp_tls_allowed, on the values that will hold; whatever is not "none" passes.
Allowed(row, vals) ==
  LET new == Merge(row, vals) IN new.tls = "none" => new.host # "external"

Refused(w) == Ends(w, job[w]) /\ UNCHANGED odd

Check(w) ==
  LET j == job[w] IN
  /\ At(w, "check")
  /\ IF Allowed(cfg[j.tenant], j.vals) THEN Goes(w, j) /\ UNCHANGED odd
                                                  ELSE Refused(w)
  /\ UNCHANGED <<cfg, seeded, files, plan, up, people, budget>>

Saved(j) ==
  CASE j.op = "put" -> [cfg EXCEPT ![j.tenant] = Merge(@, j.vals)]
    [] j.op \in {"upload", "clear"} -> [cfg EXCEPT ![j.tenant].logo = j.logo]
    [] OTHER -> cfg

\* branding_path lets a PUT empty the name, or name anything in the directory, without
\* a look at what is there.  Emptying stands for both.
ByHand(j) == If(j.op = "put" /\ Branding(j.vals), <<"logo", j.tenant>>)

\* The rows of this request and their commit; the seed has left some before.
Save(w) ==
  LET j == job[w] IN
  /\ At(w, "save")
  /\ cfg' = Saved(j)
  /\ Goes(w, Committed([j EXCEPT !.saved = TRUE]))
  /\ odd' = (odd \ (j.alone \intersect ({"mail", "logo"} \X Tenants))) \union ByHand(j)
  /\ UNCHANGED <<seeded, files, plan, up, people, budget>>

Record(w) ==
  /\ At(w, "record")
  /\ Goes(w, [job[w] EXCEPT !.entry = "staged"])
  /\ UNCHANGED <<cfg, seeded, files, plan, up, people, budget, odd>>

Commit(w) ==
  /\ At(w, "commit")
  /\ Goes(w, Committed(job[w]))
  /\ UNCHANGED <<cfg, seeded, files, plan, up, people, budget, odd>>

-----------------------------------------------------------------------------
(* reschedule                                                              *)

(* Mutant: the schedule of the tenant the request is about. *)
DrivenByMutActive(j) == j.tenant
\* _read_default_schedule
DrivenBy(j) == Default

Read(w) ==
  /\ At(w, "read")
  /\ Goes(w, [job[w] EXCEPT !.read = cfg[DrivenBy(job[w])].cron])
  /\ UNCHANGED <<cfg, seeded, files, plan, up, people, budget, odd>>

\* _add_job, or its trigger raises: the old job stays and the request ends in an error.
Plan(w) ==
  LET j == job[w] IN
  /\ At(w, "plan")
  /\ plan' = IF j.read \in Good THEN j.read ELSE plan
  /\ Goes(w, j)
  /\ odd' = odd \ (j.alone \intersect {<<"cron", Default>>})
  /\ UNCHANGED <<cfg, seeded, files, up, people, budget>>

-----------------------------------------------------------------------------
(* _save_upload and _clear_upload: no await in between                     *)

(* Mutant: one directory for everybody. *)
DirectoryMutShared(t) == Tenants
\* _tenant_branding_dir
Directory(t) == {t}

File(w) ==
  LET j == job[w] IN
  /\ At(w, "file")
  /\ files' = [t \in Tenants |->
       IF t = j.tenant THEN {j.logo} \ {None}
       ELSE IF t \in Directory(j.tenant) THEN {} ELSE files[t]]
  /\ Goes(w, j)
  /\ UNCHANGED <<cfg, seeded, plan, up, people, budget, odd>>

-----------------------------------------------------------------------------
(* create_admin                                                            *)

(* Mutant: nobody waits for the lock. *)
TakesMutAny(w) == UNCHANGED lock
Takes(w) == lock = None /\ lock' = w

\* pg_advisory_xact_lock, then the count; a request that is too late is refused and
\* its transaction gives the lock back.
Lock(w) ==
  /\ At(w, "lock")
  /\ \/ /\ Count = 0 /\ Takes(w)
        /\ job' = [job EXCEPT ![w].left = Tail(@)] /\ UNCHANGED silent
     \/ Count > 0 /\ lock = None /\ Ends(w, job[w])
  /\ UNCHANGED <<cfg, seeded, files, plan, up, people, budget, odd>>

\* The commit of user_repo.create ends the transaction and with it the lock.
Create(w) ==
  /\ At(w, "create")
  /\ people' = [people EXCEPT !["superadmin"] = @ + 1]
  /\ job' = [job EXCEPT ![w].left = Tail(@), ![w].saved = TRUE]
  /\ lock' = Free(w)
  /\ UNCHANGED <<cfg, seeded, files, plan, up, budget, silent, odd>>

-----------------------------------------------------------------------------
(* Requests that die, the crash and the boot                               *)

\* What a request leaves half done between two steps: the file is there and the row is
\* not, or the schedule is saved and the job is the old one.
HalfDone(j) ==
  {a \in Touched(j.op, j.tenant, j.vals) :
     \/ a[1] = "logo" /\ ~j.saved /\ j.op # "put" /\ Head(j.left) # "file"
     \/ a[1] = "cron" /\ j.saved}

\* What requests S leave of the files and in disorder.  One that is at its file may have
\* failed before it changed anything, or with the old file gone and the new one not there,
\* or there in part.
BrokenOff(S) ==
  \/ UNCHANGED files /\ odd' = odd \union UNION {HalfDone(job[v]) : v \in S}
  \/ \E w \in S :
       /\ At(w, "file")
       /\ \E rest \in {{}, {job[w].logo} \ {None}} :
            files' = [files EXCEPT ![job[w].tenant] = rest]
       /\ odd' = (odd \union UNION {HalfDone(job[v]) : v \in S})
                   \union {<<"logo", job[w].tenant>>}

Fault == up /\ budget.faults < MaxFaults /\ budget' = [budget EXCEPT !.faults = @ + 1]

\* A statement fails, the connection is lost, or the disk is full.
Dies(w) ==
  /\ Fault /\ job[w] # None
  /\ Ends(w, job[w])
  /\ BrokenOff({w})
  /\ UNCHANGED <<cfg, seeded, plan, up, people>>

\* The steps at the files have no await inside: one request at the most is in the middle
\* of its own.
Crash ==
  /\ Fault
  /\ up' = FALSE /\ plan' = None /\ lock' = None
  /\ job' = [w \in Workers |-> None]
  /\ silent' = silent \union
       {job[w].op : w \in {v \in Busy : job[v].saved /\ job[v].entry # "kept"}}
  /\ BrokenOff(Busy)
  /\ UNCHANGED <<cfg, seeded, people>>

\* lifespan: run_seed, then the scheduler starts with the default tenant's schedule, or
\* raises and takes the server down with it.  The environment seeds settings when there
\* is no row at all and an account, with the role create has by default, when there is
\* none.  Values of the environment that set_many refuses keep the server down before
\* anything is written: no step.
Boot(env) ==
  LET seed == IF seeded THEN cfg ELSE [cfg EXCEPT ![Default].cron = env.cron] IN
  /\ ~up
  /\ cfg' = seed /\ seeded' = TRUE
  /\ people' = IF env.admin /\ Count = 0 THEN [people EXCEPT !["admin"] = 1] ELSE people
  /\ IF seed[Default].cron \in Good
     THEN up' = TRUE /\ plan' = seed[Default].cron /\ odd' = odd \ {<<"cron", Default>>}
     ELSE UNCHANGED <<up, plan, odd>>
  /\ UNCHANGED <<files, lock, job, budget, silent>>

-----------------------------------------------------------------------------
Init ==
  /\ cfg = [t \in Tenants |-> [host |-> "internal", tls |-> "starttls", cron |-> Kept, logo |-> None]]
  /\ seeded = FALSE
  /\ files = [t \in Tenants |-> {}]
  /\ plan = None /\ up = FALSE
  /\ people = [r \in {"superadmin", "admin"} |-> 0]
  /\ lock = None
  /\ job = [w \in Workers |-> None]
  /\ budget = [requests |-> 0, faults |-> 0]
  /\ silent = {} /\ odd = {}

Request(w) ==
  /\ up /\ job[w] = None /\ budget.requests < MaxRequests
  /\ \E t \in Tenants :
       \/ \E vals \in Bodies : Begin(w, "put", t, vals, None)
       \/ \E x \in Types : Begin(w, "upload", t, NoBody, x)
       \/ \E op \in Ops \ {"put", "upload"} : Begin(w, op, t, NoBody, None)

Step(w) ==
  \/ Check(w) \/ Save(w) \/ Record(w) \/ Commit(w) \/ Read(w) \/ Plan(w) \/ File(w)
  \/ Lock(w) \/ Create(w) \/ Dies(w)

Next ==
  \/ \E w \in Workers : Request(w) \/ Step(w)
  \/ Crash
  \/ \E env \in Env : Boot(env)

Spec == Init /\ [][Next]_vars

-----------------------------------------------------------------------------
(* Properties                                                              *)

UnderWay(aspect) == \E w \in Busy : aspect \in Touched(job[w].op, job[w].tenant, job[w].vals)
InOrder(aspect) == aspect \notin odd /\ ~UnderWay(aspect)

(* smtp_tls = "none" goes with an internal host only                       *)
(* (settings_validators.check_smtp_tls_allowed), although each key can be  *)
(* changed without the other and the check and the write are two           *)
(* statements.  Two changes of one tenant that overlap may get past it;    *)
(* the next one that is made alone puts it right or is refused.  This is   *)
(* the rule the code has, not the purpose it is there for: any value but   *)
(* "none" passes it, and "other" is sent in the clear to whatever host.    *)
TlsRuleHolds == \A t \in Tenants : <<"mail", t>> \notin odd =>
    (cfg[t].tls = "none" => cfg[t].host # "external")

(* What the settings name is on the disk and nothing else is: no tenant's  *)
(* upload touches another's file (branding._tenant_branding_dir), and what *)
(* failed or died between the unlink, the write and the row, two requests  *)
(* that overlapped, or a name put in by hand, is made good by the next     *)
(* upload or removal.  Whatever fails or overlaps, a tenant has one file   *)
(* ("so only one file remains", branding.py:280).                          *)
LogoIsThere ==
  \A t \in Tenants :
    /\ InOrder(<<"logo", t>>) => files[t] = {cfg[t].logo} \ {None}
    /\ \A x, y \in files[t] : x = y

(* The one job runs at the default tenant's time, whichever tenant has     *)
(* changed a schedule last (scheduler._read_default_schedule), as far as   *)
(* that time is one at all and no two reschedules overlapped or broke off. *)
JobFollowsSchedule ==
  up /\ InOrder(<<"cron", Default>>) /\ cfg[Default].cron \in Good => plan = cfg[Default].cron

(* A change without an audit entry is one whose request died between its   *)
(* two commits (settings.py:121-148); where both go into one commit        *)
(* (settings.py:229-238, 263-271) not even a crash separates them.         *)
AuditedOrDied ==
  /\ silent # {} => budget.faults > 0
  /\ "reset" \notin silent

(* However many call the open setup at once, and whatever dies on the way, *)
(* it makes one superadmin at the most (setup.py:82-86).                   *)
OneFounder == Count <= 1

(* "A single invalid value aborts the whole batch" (SettingsService        *)
(* .set_many): what set_many has let in, the next start can live with.     *)
Restartable == ~up => cfg[Default].cron \in Good
=============================================================================
