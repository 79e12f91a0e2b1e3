------------------------------- MODULE Delivery -------------------------------
(***************************************************************************)
(* How a reminder reaches a user, and how PwNotify remembers that it did.  *)
(*                                                                         *)
(* One tenant.  The scheduled or triggered run (runner.execute_run, one at *)
(* a time behind the scheduler's lock) mirrors the Entra directory, trims  *)
(* the send history, selects the candidates and then mails them one after  *)
(* the other.  Operators send at the same time, outside that lock: "notify *)
(* now" and the bulk action force a send, and "retry" repeats a row of the *)
(* history.  All of them are coroutines of one process that suspend at     *)
(* every send, so the model has one step per send and one for the row that *)
(* is written once the last address has been tried.                        *)
(*                                                                         *)
(* The mail transport may refuse a mail, may deliver it and still raise    *)
(* (the answer is lost), and may deliver it several times (the Graph       *)
(* client repeats a POST whose answer is lost).  The process may crash     *)
(* between a send and the commit of its row.                               *)
(*                                                                         *)
(* Not here: disabled accounts and shared mailboxes (every User is one the *)
(* candidate query returns once it has an expiry date), templates, and the *)
(* run's own database row, which RunLifecycle models.                      *)
(***************************************************************************)
EXTENDS ReminderStage

CONSTANTS
  User,         \* rows of entra_user
  Addr,         \* mail addresses
  Request,      \* operator requests that send mail, each used once
  Recipients,   \* [User -> SUBSET Addr]: what resolve_recipients returns
  Validity,     \* days a password is valid
  NeverExpires, \* users whose policy holds DisablePasswordExpiration
  UserRules,    \* users excluded by a rule of kind "user"
  GroupRules,   \* users excluded through a group, which Graph must resolve
  ReminderDays, \* schedule.reminder_days
  LogRetention, \* privacy.log_retention_days, 0 keeps the history
  NotifyCap,    \* schedule.max_notify_count
  NotifyRatio,  \* schedule.max_notify_ratio as <<numerator, denominator>>
  Attempts,     \* tries of one POST in GraphClient._request
  FirstChange,  \* days (or None) on which a password was last changed at first
  DryRun,       \* the values of the run's dry_run that occur
  Toggled,      \* bound: users whose exclusion flag operators flip
  ChangeDays,   \* bound: the days on which users change their password
  MaxDay,       \* bound: the last day of the model
  MaxFaults     \* bound: crashes, database errors, lost and repeated mails

Runner == "run"
Sender == Request \union {Runner}

ChangeDay == (FirstChange \ {None}) \union ChangeDays
Cycle     == {c + Validity : c \in ChangeDay}
Key       == User \X Cycle \X ReminderDays     \* uq_notif_dedup

(* One sender at one user: the addresses still to try, those that got a    *)
(* mail, and whether the transport accepted any (notify_user's any_ok).    *)
Attempting == [key : Key, left : SUBSET Addr, out : SUBSET Addr, ok : BOOLEAN]

ASSUME UserAssumption ==
  /\ Runner \notin Request /\ IsFiniteSet(User)
  /\ Recipients \in [User -> SUBSET Addr]
  /\ NeverExpires \subseteq User /\ UserRules \subseteq User /\ GroupRules \subseteq User
ASSUME AttemptAssumption == None \notin Attempting
ASSUME SettingsAssumption ==
  /\ Validity \in Nat \ {0}
  /\ ReminderDays \subseteq Int
  /\ \E last \in ReminderDays : \A d \in ReminderDays : d <= last  \* a list, not empty
  /\ LogRetention \in Nat /\ NotifyCap \in Nat
  /\ NotifyRatio \in Nat \X (Nat \ {0})
  /\ Attempts \in Nat \ {0}
ASSUME BoundAssumption ==
  /\ FirstChange \subseteq Int \union {None}
  /\ MaxDay \in Nat /\ ChangeDays \subseteq 0..MaxDay
  /\ MaxFaults \in Nat
  /\ DryRun \subseteq BOOLEAN /\ Toggled \subseteq User

VARIABLES
  today,      \* the calendar day
  directory,  \* Entra: the day of each user's last password change
  mirror,     \* entra_user: expiry_date and days_left as of the last sync
  optedOut,   \* entra_user.excluded
  log,        \* notification_log: one row per user, cycle and stage
  run,        \* the run in progress
  used,       \* requests that have been made
  queue,      \* the users a request still has to serve
  att,        \* what each sender is sending right now
  mailed,     \* history: mails of runs, per key and address
  handed,     \* history: keys for which any sender put out a mail
  waived,     \* history: the events that allow a key to be mailed once more
  faults

vars == <<today, directory, mirror, optedOut, log, run, used, queue, att,
          mailed, handed, waived, faults>>
world == <<today, directory, optedOut>>

NoRow  == [status |-> "none", day |-> 0]
NoRun  == [pc |-> "idle", dry |-> FALSE, excluded |-> {}, left |-> {},
           chosen |-> {}, told |-> {}]
NotSynced == [never |-> FALSE, expiry |-> None, daysLeft |-> None]

(* Mutant: every row counts as sent, a failed one too. *)
SentStagesMutAny(u, c) == {s \in ReminderDays : log[<<u, c, s>>].status # "none"}

SentStages(u, c) == {s \in ReminderDays : log[<<u, c, s>>].status = "sent"}

Init ==
  /\ today = 0
  /\ directory \in [User -> FirstChange]
  /\ mirror = [u \in User |-> NotSynced]
  /\ optedOut = {}
  /\ log = [k \in Key |-> NoRow]
  /\ run = NoRun
  /\ used = {}
  /\ queue = [r \in Request |-> {}]
  /\ att = [p \in Sender |-> None]
  /\ mailed = [k \in Key |-> [a \in Addr |-> 0]]
  /\ handed = {}
  /\ waived = [k \in Key |-> 0]
  /\ faults = 0

-----------------------------------------------------------------------------
(* The world around the program. *)

Tick ==
  /\ today < MaxDay
  /\ today' = today + 1
  /\ UNCHANGED <<directory, mirror, optedOut, log, run, used, queue, att,
                 mailed, handed, waived, faults>>

ChangePassword(u) ==
  /\ today \in ChangeDays
  /\ directory[u] # today
  /\ directory' = [directory EXCEPT ![u] = today]
  /\ UNCHANGED <<today, mirror, optedOut, log, run, used, queue, att,
                 mailed, handed, waived, faults>>

(* An operator flips the exclusion flag; it commits at once. *)
SetExcluded(u) ==
  /\ optedOut' = IF u \in optedOut THEN optedOut \ {u} ELSE optedOut \union {u}
  /\ UNCHANGED <<today, directory, mirror, log, run, used, queue, att,
                 mailed, handed, waived, faults>>
-----------------------------------------------------------------------------
(* The run. *)

(* The sync of the users it reached before it ended: all of them, or fewer *)
(* when Graph failed half way or is not configured.                        *)
RunStart(dry, reached) ==
  /\ run.pc = "idle"
  /\ mirror' = [u \in User |->
       IF u \in reached
       THEN ComputeExpiry(directory[u], Validity, u \in NeverExpires, today)
       ELSE mirror[u]]
  /\ run' = [NoRun EXCEPT !.pc = "synced", !.dry = dry]
  /\ UNCHANGED <<world, log, used, queue, att, mailed, handed, waived, faults>>

Expired(k) ==
  LogRetention > 0 /\ log[k].status # "none" /\ log[k].day < today - LogRetention

(* Log retention, whatever became of the sync.  Rows whose status is "sent" *)
(* are also what the dedup reads: removing one waives it.                   *)
RunTrim ==
  /\ run.pc = "synced"
  /\ log' = [k \in Key |-> IF Expired(k) THEN NoRow ELSE log[k]]
  /\ waived' = [k \in Key |->
       IF Expired(k) /\ log[k].status = "sent" THEN waived[k] + 1 ELSE waived[k]]
  /\ run' = [run EXCEPT !.pc = "trimmed"]
  /\ UNCHANGED <<world, mirror, used, queue, att, mailed, handed, faults>>

(* The candidates, the rules as far as they could be resolved, and the     *)
(* brake: it counts every due candidate, whatever was sent before.         *)
Candidates == {u \in User : u \notin optedOut /\ mirror[u].expiry # None}

DueEstimate ==
  Cardinality({u \in Candidates : DueStage(mirror[u].daysLeft, ReminderDays, {}) # None})

RunSelect(resolved) ==
  /\ run.pc = "trimmed"
  /\ LET blocked == MassSendBlocked(DueEstimate, Cardinality(Candidates),
                                    NotifyRatio, NotifyCap)
         users   == IF blocked /\ ~run.dry THEN {} ELSE Candidates
     IN  run' = [run EXCEPT !.pc = "loop", !.left = users, !.chosen = users,
                            !.excluded = UserRules \union resolved]
  /\ UNCHANGED <<world, mirror, log, used, queue, att, mailed, handed, waived, faults>>

(* The stage a run would send to u: none when it is excluded, not due, has *)
(* had this stage in this cycle, or has no address.                        *)
StageFor(u) ==
  IF u \in run.excluded \/ Recipients[u] = {} THEN None
  ELSE DueStage(mirror[u].daysLeft, ReminderDays, SentStages(u, mirror[u].expiry))

Attempt(u, c, s) ==
  [key |-> <<u, c, s>>, left |-> Recipients[u], out |-> {}, ok |-> FALSE]

RunSkip(u) ==
  /\ run.pc = "loop" /\ att[Runner] = None /\ u \in run.left
  /\ StageFor(u) = None \/ run.dry
  /\ run' = [run EXCEPT !.left = @ \ {u}]
  /\ UNCHANGED <<world, mirror, log, used, queue, att, mailed, handed, waived, faults>>

RunTake(u) ==
  /\ run.pc = "loop" /\ att[Runner] = None /\ u \in run.left
  /\ StageFor(u) # None /\ ~run.dry
  /\ run' = [run EXCEPT !.left = @ \ {u}]
  /\ att' = [att EXCEPT ![Runner] = Attempt(u, mirror[u].expiry, StageFor(u))]
  /\ UNCHANGED <<world, mirror, log, used, queue, mailed, handed, waived, faults>>

RunEnd ==
  /\ run.pc = "loop" /\ att[Runner] = None /\ run.left = {}
  /\ run' = NoRun
  /\ UNCHANGED <<world, mirror, log, used, queue, att, mailed, handed, waived, faults>>
-----------------------------------------------------------------------------
(* Operators. *)

(* "Notify now" for one user and the bulk action for several, which only   *)
(* the absolute cap can refuse.                                            *)
RequestForce(r, users) ==
  /\ r \notin used
  /\ ~MassSendBlocked(Cardinality(users), Cardinality(users), <<0, 1>>, NotifyCap)
  /\ used' = used \union {r}
  /\ queue' = [queue EXCEPT ![r] = users]
  /\ UNCHANGED <<world, mirror, log, run, att, mailed, handed, waived, faults>>

ForceSkip(r, u) ==
  /\ att[r] = None /\ u \in queue[r]
  /\ mirror[u].expiry = None \/ Recipients[u] = {}
  /\ queue' = [queue EXCEPT ![r] = @ \ {u}]
  /\ UNCHANGED <<world, mirror, log, run, used, att, mailed, handed, waived, faults>>

(* Neither the history, nor the rules, nor the exclusion flag is asked. *)
ForceTake(r, u) ==
  /\ att[r] = None /\ u \in queue[r]
  /\ mirror[u].expiry # None /\ Recipients[u] # {}
  /\ queue' = [queue EXCEPT ![r] = @ \ {u}]
  /\ att' = [att EXCEPT ![r] =
       Attempt(u, mirror[u].expiry, ForcedStage(mirror[u].daysLeft, ReminderDays))]
  /\ UNCHANGED <<world, mirror, log, run, used, mailed, handed, waived, faults>>

(* "Retry" repeats the row it is given, whatever its status. *)
RequestRetry(r, k) ==
  /\ r \notin used
  /\ log[k].status # "none"
  /\ used' = used \union {r}
  /\ att' = [att EXCEPT ![r] = Attempt(k[1], k[2], k[3])]
  /\ UNCHANGED <<world, mirror, log, run, queue, mailed, handed, waived, faults>>
-----------------------------------------------------------------------------
(* One address of an attempt.  The call delivers n mails and returns or    *)
(* raises.  Refused and delivered once are the usual outcomes; a lost      *)
(* answer and a repeated POST count against the bound on faults.           *)
Ordinary(n, returned) == n = IF returned THEN 1 ELSE 0

Send(p, a, n, returned) ==
  /\ att[p] # None
  /\ a \in att[p].left
  /\ returned => n > 0
  /\ Ordinary(n, returned) \/ faults < MaxFaults
  /\ faults' = IF Ordinary(n, returned) THEN faults ELSE faults + 1
  /\ att' = [att EXCEPT ![p] =
       [key  |-> @.key,
        left |-> @.left \ {a},
        out  |-> IF n > 0 THEN @.out \union {a} ELSE @.out,
        ok   |-> @.ok \/ returned]]
  /\ handed' = IF n > 0 THEN handed \union {att[p].key} ELSE handed
  /\ IF p = Runner /\ n > 0
     THEN /\ mailed' = [mailed EXCEPT ![att[p].key][a] = @ + n]
          /\ waived' = [waived EXCEPT ![att[p].key] = @ + (n - 1)]
          /\ run' = [run EXCEPT !.told = @ \union {att[p].key[1]}]
     ELSE UNCHANGED <<mailed, waived, run>>
  /\ UNCHANGED <<world, mirror, log, used, queue>>

(* Mutant: every attempt that was tried to the end is recorded as sent. *)
RowMutAlwaysSent(p) == [status |-> "sent", day |-> today]

(* The row of an attempt: "sent" as soon as one address was accepted. *)
Row(p) == [status |-> IF att[p].ok THEN "sent" ELSE "failed", day |-> today]

(* Mutant: ON CONFLICT DO NOTHING, so a success never replaces a failure. *)
UpsertMutKeepFirst(p) ==
  log' = [log EXCEPT ![att[p].key] = IF @.status = "none" THEN Row(p) ELSE @]

(* Mutant: a failed attempt is not recorded. *)
UpsertMutOnlySent(p) ==
  log' = IF att[p].ok THEN [log EXCEPT ![att[p].key] = Row(p)] ELSE log

(* The upsert on the dedup constraint replaces the row of its key. *)
Upsert(p) == log' = [log EXCEPT ![att[p].key] = Row(p)]

(* Written and committed after the last address.  A mail that went out     *)
(* under a row "failed" may go out again, and so may one whose "sent" an   *)
(* operator's failed attempt overwrites.                                   *)
Record(p) ==
  /\ att[p] # None
  /\ att[p].left = {}
  /\ Upsert(p)
  /\ LET k == att[p].key
     IN  waived' = [waived EXCEPT ![k] =
           IF /\ ~att[p].ok
              /\ IF p = Runner THEN att[p].out # {} ELSE log[k].status = "sent"
           THEN @ + 1 ELSE @]
  /\ att' = [att EXCEPT ![p] = None]
  /\ UNCHANGED <<world, mirror, run, used, queue, mailed, handed, faults>>
-----------------------------------------------------------------------------
(* Faults. *)

(* The mail is out and its row will never be written. *)
Forget(p) ==
  waived' = IF p = Runner /\ att[p] # None /\ att[p].out # {}
            THEN [waived EXCEPT ![att[p].key] = @ + 1]
            ELSE waived

(* A statement fails.  A request answers with an error.  The run's         *)
(* transaction is aborted and never rolled back, so every later user of    *)
(* this run fails before a mail is sent: the run is over.                  *)
DbError(p) ==
  /\ faults < MaxFaults
  /\ IF p = Runner THEN run.pc # "idle" ELSE att[p] # None \/ queue[p] # {}
  /\ att[p] # None => att[p].left = {}
  /\ Forget(p)
  /\ att' = [att EXCEPT ![p] = None]
  /\ run' = IF p = Runner THEN NoRun ELSE run
  /\ queue' = [r \in Request |-> IF r = p THEN {} ELSE queue[r]]
  /\ faults' = faults + 1
  /\ UNCHANGED <<world, mirror, log, used, mailed, handed>>

(* The process dies, and starts again with nothing in progress. *)
Crash ==
  /\ faults < MaxFaults
  /\ run.pc # "idle" \/ \E p \in Sender : att[p] # None
  /\ Forget(Runner)
  /\ att' = [p \in Sender |-> None]
  /\ run' = NoRun
  /\ queue' = [r \in Request |-> {}]
  /\ faults' = faults + 1
  /\ UNCHANGED <<world, mirror, log, used, mailed, handed>>
-----------------------------------------------------------------------------
Next ==
  \/ Tick
  \/ \E u \in User : ChangePassword(u)
  \/ \E u \in Toggled : SetExcluded(u)
  \/ \E dry \in DryRun, reached \in SUBSET User : RunStart(dry, reached)
  \/ RunTrim
  \/ \E resolved \in SUBSET GroupRules : RunSelect(resolved)
  \/ \E u \in User : RunSkip(u) \/ RunTake(u)
  \/ RunEnd
  \/ \E r \in Request, users \in SUBSET User : RequestForce(r, users)
  \/ \E r \in Request, u \in User : ForceSkip(r, u) \/ ForceTake(r, u)
  \/ \E r \in Request, k \in Key : RequestRetry(r, k)
  \/ \E p \in Sender, a \in Addr, n \in 0..Attempts, ok \in BOOLEAN : Send(p, a, n, ok)
  \/ \E p \in Sender : Record(p) \/ DbError(p)
  \/ Crash

Spec == Init /\ [][Next]_vars

(* The scheduler keeps starting real runs and each runs to its end unless   *)
(* it is cut off; Graph is reachable and the transport accepts a mail again *)
(* and again, though not always.  Nothing is assumed of operators.          *)
Fairness ==
  /\ SF_vars(RunStart(FALSE, User))
  /\ WF_vars(RunTrim)
  /\ WF_vars(\E resolved \in SUBSET GroupRules : RunSelect(resolved))
  /\ WF_vars(\E u \in User : RunSkip(u) \/ RunTake(u))
  /\ WF_vars(\E a \in Addr, n \in 0..Attempts, ok \in BOOLEAN : Send(Runner, a, n, ok))
  /\ SF_vars(\E a \in Addr : Send(Runner, a, 1, TRUE))
  /\ WF_vars(Record(Runner))
  /\ WF_vars(RunEnd)

LiveSpec == Spec /\ Fairness

-----------------------------------------------------------------------------
TypeOK ==
  /\ today \in 0..MaxDay
  /\ directory \in [User -> ChangeDay \union {None}]
  /\ mirror \in [User -> [never : BOOLEAN, expiry : Cycle \union {None},
                         daysLeft : Int \union {None}]]
  /\ \A u \in User : mirror[u].expiry = None <=> mirror[u].daysLeft = None
  /\ optedOut \subseteq User
  /\ log \in [Key -> [status : {"none", "sent", "failed"}, day : 0..MaxDay]]
  /\ run \in [pc : {"idle", "synced", "trimmed", "loop"}, dry : BOOLEAN,
              excluded : SUBSET User, left : SUBSET User,
              chosen : SUBSET User, told : SUBSET User]
  /\ used \subseteq Request
  /\ queue \in [Request -> SUBSET User]
  /\ att \in [Sender -> Attempting \union {None}]
  /\ mailed \in [Key -> [Addr -> Nat]]
  /\ handed \subseteq Key
  /\ waived \in [Key -> Nat]
  /\ faults \in 0..MaxFaults

(* The README promises one reminder per user, stage and expiry cycle.  What *)
(* the code keeps of it: runs never put more than one mail per address out  *)
(* for a key, except for the events counted in waived - a mail whose row    *)
(* was lost in a crash or a failed statement, a delivered mail recorded as  *)
(* failed, a repeated POST, a trimmed history, and a "sent" that an         *)
(* operator's failed resend overwrote - each of which costs one more.       *)
RunMailsBounded ==
  \A k \in Key, a \in Addr : mailed[k][a] <= 1 + waived[k]

(* The history never claims a mail nobody received: a row "sent" means some *)
(* sender handed a mail for this very user, cycle and stage to the          *)
(* transport, whoever wrote the row last.                                   *)
SentMeansHandedOver ==
  \A k \in Key : log[k].status = "sent" => k \in handed

(* Why both hold: what an address may still get.  While a run is sending,   *)
(* its own mail is paid for by the attempt; before and after, by the row    *)
(* "sent" that keeps the next run away.                                     *)
Credit(k, a) ==
  IF att[Runner] # None /\ att[Runner].key = k
  THEN IF a \in att[Runner].out THEN 1 ELSE 0
  ELSE IF log[k].status = "sent" THEN 1 ELSE 0

(* The inductive strengthening of the two invariants above: the books are   *)
(* balanced by Credit, only a run in its loop sends as the runner, no       *)
(* attempt tries an address twice, and one that succeeded delivered.        *)
Balanced ==
  /\ \A k \in Key, a \in Addr : mailed[k][a] <= waived[k] + Credit(k, a)
  /\ att[Runner] # None => run.pc = "loop"
  /\ \A p \in Sender : att[p] # None =>
       /\ att[p].left \intersect att[p].out = {}
       /\ att[p].ok => att[p].out # {}
       /\ att[p].out # {} => att[p].key \in handed
  /\ SentMeansHandedOver

(* The brake is decided once, on an estimate, before the first mail; the    *)
(* loop then decides user by user.  Still no run mails more users than      *)
(* max_notify_count, and a dry run mails nobody.                            *)
RunWithinBrake ==
  /\ NotifyCap > 0 => Cardinality(run.told) <= NotifyCap
  /\ run.dry => run.told = {}

(* Within one expiry cycle the runs only become more urgent: catching up    *)
(* after missed or failed runs never sends a stage once a more urgent one   *)
(* went out (due_reminder_stage).                                           *)
NeverLessUrgent ==
  [][\A u \in User, c \in Cycle, s \in ReminderDays, a \in Addr :
       mailed'[<<u, c, s>>][a] > mailed[<<u, c, s>>][a]
         => \A t \in ReminderDays, b \in Addr :
              t < s => mailed[<<u, c, t>>][b] = 0]_vars

(* A run that reaches its end has dealt with every user it selected: who    *)
(* was due, not excluded and reachable has a row for that stage, whatever   *)
(* operators did to the history meanwhile.                                  *)
FinishedRunLeavesTrace ==
  [][run.pc = "loop" /\ run'.pc = "idle" /\ faults' = faults /\ ~run.dry
       => \A u \in run.chosen \ run.excluded :
            LET s == DueStage(mirror[u].daysLeft, ReminderDays, {})
            IN  s # None /\ Recipients[u] # {}
                  => log[<<u, mirror[u].expiry, s>>].status # "none"]_vars

(* The runs keep the abstract promise, step by step: every mail of a run is *)
(* the first for its reminder and address or is paid for with a waiver, and *)
(* waivers are issued one at a time.                                        *)
Promise == INSTANCE ReminderPromise WITH copies <- mailed, waivers <- waived

KeepsPromise == Promise!Spec

(* By Entra's own data u is due a stage that the history does not hold as   *)
(* sent, and nothing keeps the runs from sending it.                        *)
Owed(u) ==
  LET now   == ComputeExpiry(directory[u], Validity, u \in NeverExpires, today)
      stage == DueStage(now.daysLeft, ReminderDays, {})
  IN  /\ u \notin optedOut \union UserRules \union GroupRules
      /\ Recipients[u] # {}
      /\ stage # None
      /\ log[<<u, now.expiry, stage>>].status # "sent"

(* Catch-up: a reminder that is owed does not stay owed, whatever syncs and *)
(* sends failed, whatever was cut off by a crash and whatever operators     *)
(* wrote into the history - as long as the brake does not stop the runs.    *)
OwedIsPaid == \A u \in User : Owed(u) ~> ~Owed(u)
=============================================================================
