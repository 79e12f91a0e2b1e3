-------------------------- MODULE RunLifecycleProofs --------------------------
(***************************************************************************)
(* Proofs about RunLifecycle, for every set of tenants and operators, every *)
(* finite directory and every bound.                                       *)
(***************************************************************************)
EXTENDS RunLifecycle, FiniteSetTheorems, SequenceTheorems, TLAPS

-----------------------------------------------------------------------------
(* Types                                                                   *)

(* Whoever runs tenants holds the lock, and the run in progress belongs to *)
(* a tenant that its holder has not finished and whose last row is open.   *)
Ordered ==
  /\ todo \union tried # {} => line # <<>>
  /\ exec # None =>
       /\ up /\ exec.tenant \in todo
       /\ rows[exec.tenant] # <<>>
       /\ rows[exec.tenant][Len(rows[exec.tenant])].status = "running"

(* The steps of execute_run between the first commit and the last. *)
Working ==
  \/ AnySync
  \/ \E protected \in BOOLEAN : SsoSync(protected)
  \/ AuditPurge
  \/ PurgeAccounts
  \/ \E old \in SUBSET Account : TrimHistory(old)
  \/ AnySelect
  \/ AnyNotify
  \/ LoopEnd

LEMMA WorkingKeeps ==
  ASSUME TypeOK, Working
  PROVE  /\ up /\ exec # None /\ exec \in Execution /\ exec'.tenant = exec.tenant
         /\ UNCHANGED <<up, line, todo, tried, returned, rows>>
<1>1. exec \in Execution /\ up
  BY DEF Working, AnySync, Sync, SsoSync, AuditPurge, PurgeAccounts, TrimHistory, AnySelect,
         Select, AnyNotify, Notify, LoopEnd, At, TypeOK
<1>2. CASE AnySync
  BY <1>1, <1>2 DEF AnySync, Sync, At, Execution
<1>3. CASE \E protected \in BOOLEAN : SsoSync(protected)
  BY <1>1, <1>3 DEF SsoSync, At, Execution
<1>4. CASE AuditPurge
  BY <1>1, <1>4 DEF AuditPurge, At, Execution
<1>5. CASE PurgeAccounts
  BY <1>1, <1>5 DEF PurgeAccounts, At, Execution
<1>6. CASE \E old \in SUBSET Account : TrimHistory(old)
  BY <1>1, <1>6 DEF TrimHistory, At, Execution
<1>7. CASE AnySelect
  BY <1>1, <1>7 DEF AnySelect, Select, At, Execution
<1>8. CASE AnyNotify
  BY <1>1, <1>8 DEF AnyNotify, Notify, At, Execution
<1>9. CASE LoopEnd
  BY <1>1, <1>9 DEF LoopEnd, At, Execution
<1> QED BY <1>2, <1>3, <1>4, <1>5, <1>6, <1>7, <1>8, <1>9 DEF Working

LEMMA InitTyped == Init => TypeOK
<1> SUFFICES ASSUME Init PROVE TypeOK
  OBVIOUS
<1>1. line \in Seq(Caller) /\ rows \in [Tenant -> Seq(Row)]
  BY DEF Init
<1>2. /\ directory \in [Tenant -> SUBSET Account]
      /\ age \in [Tenant -> [Account -> (0..MaxAge) \union {None}]]
      /\ logged \in [Tenant -> SUBSET Account]
      /\ trail \in [Tenant -> [expired : BOOLEAN, purges : Nat, recorded : Nat]]
  BY DEF Init
<1>3. faults \in 0..MaxFaults
  BY RunAssumption DEF Init
<1> QED BY <1>1, <1>2, <1>3 DEF Init, TypeOK

LEMMA WorldTyped ==
  ASSUME TypeOK,
         \/ Day
         \/ \E t \in Tenant, a \in Moving : Leave(t, a)
         \/ \E t \in Reconfigurable : Reconfigure(t)
         \/ \E t \in Switchable : Activate(t)
  PROVE  TypeOK'
<1>1. CASE Day
  <2>1. age' \in [Tenant -> [Account -> (0..MaxAge) \union {None}]]
    <3>1. ASSUME NEW t \in Tenant, NEW a \in Account
          PROVE  (IF age[t][a] = None \/ age[t][a] = MaxAge THEN age[t][a]
                  ELSE age[t][a] + 1) \in (0..MaxAge) \union {None}
      <4>1. age[t][a] \in (0..MaxAge) \union {None}
        BY DEF TypeOK
      <4> QED BY <4>1, RunAssumption DEF MaxAge
    <3> QED BY <1>1, <3>1 DEF Day
  <2>2. trail' \in [Tenant -> [expired : BOOLEAN, purges : Nat, recorded : Nat]]
    BY <1>1, RunAssumption DEF Day, TypeOK
  <2> QED BY <1>1, <2>1, <2>2 DEF Day, TypeOK, outside
<1>2. ASSUME NEW t \in Tenant, NEW a \in Moving, Leave(t, a) PROVE TypeOK'
  BY <1>2, RunAssumption DEF Leave, TypeOK
<1>3. ASSUME NEW t \in Reconfigurable, Reconfigure(t) PROVE TypeOK'
  BY <1>3, RunAssumption DEF Reconfigure, TypeOK
<1>4. ASSUME NEW t \in Switchable, Activate(t) PROVE TypeOK'
  BY <1>4, RunAssumption DEF Activate, TypeOK
<1> QED BY <1>1, <1>2, <1>3, <1>4

LEMMA SchedulerTyped ==
  ASSUME TypeOK, Ordered,
         \/ \E c \in Caller : Enqueue(c)
         \/ \E c \in Caller, ids \in SUBSET Tenant : Acquire(c, ids)
         \/ \E c \in Caller : AcquireFails(c)
         \/ FinishFanout
  PROVE  TypeOK'
<1>0. line # <<>> => Tail(line) \in Seq(Caller)
  BY DEF TypeOK
<1>1. ASSUME NEW c \in Caller, Enqueue(c) PROVE TypeOK'
  <2>1. line' \in Seq(Caller)
    <3>1. line \in Seq(Caller) /\ line' = Append(line, c)
      BY <1>1 DEF Enqueue, TypeOK
    <3> QED BY <3>1, AppendProperties
  <2> QED BY <1>1, <2>1 DEF Enqueue, TypeOK, outside
<1>2. ASSUME NEW c \in Caller, NEW ids \in SUBSET Tenant, Acquire(c, ids) PROVE TypeOK'
  BY <1>0, <1>2 DEF Acquire, Holds, TypeOK, outside
<1>3. ASSUME NEW c \in Caller, AcquireFails(c) PROVE TypeOK'
  BY <1>0, <1>3, RunAssumption DEF AcquireFails, Holds, TypeOK, outside
<1>4. CASE FinishFanout
  <2>1. line' \in Seq(Caller)
    BY <1>0, <1>4 DEF FinishFanout, Release, Ordered
  <2> QED BY <1>4, <2>1 DEF FinishFanout, TypeOK, outside
<1> QED BY <1>1, <1>2, <1>3, <1>4

Trails == [Tenant -> [expired : BOOLEAN, purges : Nat, recorded : Nat]]

LEMMA CommitTyped ==
  ASSUME trail \in Trails, exec.tenant \in Tenant, Commit
  PROVE  trail' \in Trails
BY DEF Trails, Commit

LEMMA ExecutionTyped ==
  ASSUME TypeOK, Ordered,
         \/ \E t \in Tenant, dry \in BOOLEAN : Create(t, dry)
         \/ \E t \in Tenant : CreateFails(t)
         \/ Working
         \/ Finish
         \/ FinishFails
  PROVE  TypeOK'
<1>1. ASSUME NEW t \in Tenant, NEW dry \in BOOLEAN, Create(t, dry) PROVE TypeOK'
  <2>1. Unfinished \in Row
    BY DEF Unfinished, Row, Status
  <2>2. rows' \in [Tenant -> Seq(Row)]
    BY <1>1, <2>1 DEF Create, TypeOK
  <2>3. exec' \in Execution
    BY <1>1 DEF Create, Execution
  <2> QED BY <1>1, <2>2, <2>3 DEF Create, TypeOK, outside
<1>2. ASSUME NEW t \in Tenant, CreateFails(t) PROVE TypeOK'
  BY <1>2, RunAssumption DEF CreateFails, TenantFails, TypeOK, outside
<1>3. ASSUME NEW reached \in SUBSET Account,
             NEW o \in {"done", "skipped", "failed", "dberror"}, Sync(reached, o)
      PROVE  TypeOK'
  <2>1. exec \in Execution
    BY <1>3 DEF Sync, At, TypeOK
  <2>2. exec' \in Execution
    BY <1>3, <2>1 DEF Sync, TypeOK, Execution
  <2>3. age' \in [Tenant -> [Account -> (0..MaxAge) \union {None}]]
    BY <1>3, <2>1, RunAssumption DEF Sync, TypeOK, Execution, MaxAge
  <2>4. faults' \in 0..MaxFaults
    BY <1>3, RunAssumption DEF Sync, TypeOK
  <2> QED BY <1>3, <2>2, <2>3, <2>4 DEF Sync, TypeOK, outside
<1>4. ASSUME NEW protected \in BOOLEAN, SsoSync(protected) PROVE TypeOK'
  <2>1. exec \in Execution
    BY <1>4 DEF SsoSync, At, TypeOK
  <2>2. exec' \in Execution
    BY <1>4, <2>1 DEF SsoSync, Execution
  <2> QED BY <1>4, <2>2 DEF SsoSync, TypeOK, outside
<1>5. CASE AuditPurge
  <2>1. exec \in Execution
    BY <1>5 DEF AuditPurge, At, TypeOK
  <2>2. exec' \in Execution
    BY <1>5, <2>1 DEF AuditPurge, Purged, Execution
  <2> QED BY <1>5, <2>2 DEF AuditPurge, TypeOK, outside
<1>6. CASE PurgeAccounts
  <2>1. exec \in Execution
    BY <1>6 DEF PurgeAccounts, At, TypeOK
  <2>2. exec.tenant \in Tenant
    BY <2>1 DEF Execution
  <2>3. exec' \in Execution
    <3>1. \/ exec' = [exec EXCEPT !.step = "history"]
          \/ exec' = [exec EXCEPT !.step = "select", !.aborted = TRUE]
          \/ exec' = [exec EXCEPT !.step = "history", !.pending = {}]
      BY <1>6 DEF PurgeAccounts
    <3>2. [exec EXCEPT !.step = "history"] \in Execution
      BY <2>1 DEF Execution
    <3>3. [exec EXCEPT !.step = "select", !.aborted = TRUE] \in Execution
      BY <2>1 DEF Execution
    <3>4. [exec EXCEPT !.step = "history", !.pending = {}] \in Execution
      BY <2>1 DEF Execution
    <3> QED BY <3>1, <3>2, <3>3, <3>4
  <2>4. trail' \in Trails
    BY <1>6, <2>2, CommitTyped DEF PurgeAccounts, TypeOK, Trails
  <2>5. age' \in [Tenant -> [Account -> (0..MaxAge) \union {None}]]
    BY <1>6, <2>2 DEF PurgeAccounts, TypeOK
  <2> QED BY <1>6, <2>3, <2>4, <2>5 DEF PurgeAccounts, TypeOK, Trails, outside
<1>7. ASSUME NEW old \in SUBSET Account, TrimHistory(old) PROVE TypeOK'
  <2>1. exec \in Execution
    BY <1>7 DEF TrimHistory, At, TypeOK
  <2>2. exec.tenant \in Tenant
    BY <2>1 DEF Execution
  <2>3. exec' \in Execution
    BY <1>7, <2>1 DEF TrimHistory, Execution
  <2>4. trail' \in Trails
    BY <1>7, <2>2, CommitTyped DEF TrimHistory, TypeOK, Trails
  <2>5. logged' \in [Tenant -> SUBSET Account]
    BY <1>7, <2>2 DEF TrimHistory, TypeOK
  <2> QED BY <1>7, <2>3, <2>4, <2>5 DEF TrimHistory, TypeOK, Trails, outside
<1>8. ASSUME NEW candidates \in SUBSET Account, NEW due \in SUBSET Account,
             NEW broken \in BOOLEAN, Select(candidates, due, broken)
      PROVE  TypeOK'
  <2>1. exec \in Execution
    BY <1>8 DEF Select, At, TypeOK
  <2>2. Cardinality(candidates) \in Nat
    BY RunAssumption, FS_Subset, FS_CardinalityType
  <2>3. exec' \in Execution
    BY <1>8, <2>1, <2>2 DEF Select, Execution
  <2> QED BY <1>8, <2>3 DEF Select, TypeOK, outside
<1>9. ASSUME NEW u \in Account, NEW o \in Outcomes, Notify(u, o) PROVE TypeOK'
  <2>1. exec \in Execution
    BY <1>9 DEF Notify, At, TypeOK
  <2>2. exec.tenant \in Tenant
    BY <2>1 DEF Execution
  <2>3. exec' \in Execution
    <3>1. /\ exec.sent + (IF o = "sent" THEN 1 ELSE 0) \in Nat
          /\ exec.failed + (IF o \in {"unsent", "raised", "dberror"} THEN 1 ELSE 0) \in Nat
          /\ exec.skipped + (IF o = "skipped" THEN 1 ELSE 0) \in Nat
          /\ exec.aborted \in BOOLEAN /\ exec.left \ {u} \in SUBSET Account
          /\ exec.pending \in SUBSET {"purge", "entry"}
      BY <2>1 DEF Execution
    <3> DEFINE e1 == [exec EXCEPT !.left = @ \ {u}]
               e2 == [e1 EXCEPT !.sent = @ + (IF o = "sent" THEN 1 ELSE 0)]
               e3 == [e2 EXCEPT !.failed =
                        @ + (IF o \in {"unsent", "raised", "dberror"} THEN 1 ELSE 0)]
               e4 == [e3 EXCEPT !.skipped = @ + (IF o = "skipped" THEN 1 ELSE 0)]
    <3>2. e1 \in Execution /\ e2 \in Execution /\ e3 \in Execution /\ e4 \in Execution
      BY <2>1, <3>1 DEF Execution
    <3> QED BY <1>9, <2>1, <3>1 DEF Notify, Execution
  <2>4. trail' \in Trails
    BY <1>9, <2>2, CommitTyped DEF Notify, TypeOK, Trails
  <2>5. logged' \in [Tenant -> SUBSET Account]
    <3>1. \/ logged' = logged
          \/ logged' = [logged EXCEPT ![exec.tenant] = @ \union {u}]
      BY <1>9 DEF Notify
    <3>2. logged \in [Tenant -> SUBSET Account] /\ logged[exec.tenant] \union {u} \in SUBSET Account
      BY <2>2 DEF TypeOK
    <3> QED BY <2>2, <3>1, <3>2
  <2>6. faults' \in 0..MaxFaults
    BY <1>9, RunAssumption DEF Notify, TypeOK
  <2> QED BY <1>9, <2>3, <2>4, <2>5, <2>6 DEF Notify, TypeOK, Trails, outside
<1>10. CASE LoopEnd
  <2>1. exec \in Execution
    BY <1>10 DEF LoopEnd, At, TypeOK
  <2>2. exec' \in Execution
    BY <1>10, <2>1 DEF LoopEnd, Execution
  <2> QED BY <1>10, <2>2 DEF LoopEnd, TypeOK, outside
<1>11. CASE Finish
  <2>1. exec \in Execution
    BY <1>11 DEF Finish, At, TypeOK
  <2>2. exec.tenant \in Tenant
    BY <2>1 DEF Execution
  <2>3. trail' \in Trails
    BY <1>11, <2>2, CommitTyped DEF Finish, TypeOK, Trails
  <2>4. [status |-> FinalStatus, checked |-> exec.checked, sent |-> exec.sent,
         failed |-> exec.failed, skipped |-> exec.skipped] \in Row
    BY <2>1 DEF FinalStatus, Execution, Row, Status
  <2>5. rows' \in [Tenant -> Seq(Row)]
    <3>1. rows[exec.tenant] \in Seq(Row)
      BY <2>2 DEF TypeOK
    <3> DEFINE r == [status |-> FinalStatus, checked |-> exec.checked, sent |-> exec.sent,
                     failed |-> exec.failed, skipped |-> exec.skipped]
               n == Len(rows[exec.tenant])
    <3>4. rows[exec.tenant] # <<>>
      BY <1>11 DEF Finish, At, Ordered
    <3>5. n \in 1..Len(rows[exec.tenant])
      BY <3>1, <3>4
    <3>2. [rows[exec.tenant] EXCEPT ![n] = r] \in Seq(Row)
      BY <2>4, <3>1, <3>5, ExceptSeq
    <3>3. rows' = [rows EXCEPT ![exec.tenant] = [rows[exec.tenant] EXCEPT ![n] = r]]
      BY <1>11 DEF Finish
    <3> HIDE DEF r, n
    <3> QED BY <2>2, <3>2, <3>3 DEF TypeOK
  <2> QED BY <1>11, <2>2, <2>3, <2>5 DEF Finish, TenantReturns, TypeOK, Trails, outside
<1>12. CASE FinishFails
  <2>1. exec \in Execution
    BY <1>12 DEF FinishFails, At, TypeOK
  <2>2. exec.tenant \in Tenant
    BY <2>1 DEF Execution
  <2> QED BY <1>12, <2>2, RunAssumption DEF FinishFails, TenantFails, TypeOK, outside
<1> QED
  BY <1>1, <1>2, <1>3, <1>4, <1>5, <1>6, <1>7, <1>8, <1>9, <1>10, <1>11, <1>12
  DEF Working, AnySync, AnySelect, AnyNotify

LEMMA ProcessTyped ==
  ASSUME TypeOK, Crash \/ Restart
  PROVE  TypeOK'
<1>1. CASE Crash
  <2>1. line' \in Seq(Caller)
    BY <1>1 DEF Crash
  <2>2. faults' \in 0..MaxFaults
    BY <1>1, RunAssumption DEF Crash, TypeOK
  <2> QED BY <1>1, <2>1, <2>2 DEF Crash, TypeOK, outside
<1>2. CASE Restart
  <2>1. ASSUME NEW t \in Tenant PROVE rows'[t] \in Seq(Row) /\ Len(rows'[t]) = Len(rows[t])
    <3>1. rows[t] \in Seq(Row)
      BY DEF TypeOK
    <3>2. rows'[t] = [i \in 1..Len(rows[t]) |-> IF rows[t][i].status = "running"
                        THEN [rows[t][i] EXCEPT !.status = "error"] ELSE rows[t][i]]
      BY <1>2, <3>1 DEF Restart, MarkStale
    <3>3. \A i \in 1..Len(rows[t]) : rows[t][i] \in Row
      BY <3>1
    <3>4. \A i \in 1..Len(rows[t]) : [rows[t][i] EXCEPT !.status = "error"] \in Row
      BY <3>3 DEF Row, Status
    <3>5. Len(rows[t]) \in Nat
      BY <3>1
    <3> QED BY <3>2, <3>3, <3>4, <3>5
  <2>2. rows' \in [Tenant -> Seq(Row)]
    BY <1>2, <2>1 DEF Restart, MarkStale
  <2> QED BY <1>2, <2>2 DEF Restart, TypeOK, outside
<1> QED BY <1>1, <1>2

LEMMA StepTyped == TypeOK /\ Ordered /\ [Next]_vars => TypeOK'
<1> SUFFICES ASSUME TypeOK, Ordered, [Next]_vars PROVE TypeOK'
  OBVIOUS
<1>1. CASE UNCHANGED vars
  BY <1>1 DEF vars, outside, TypeOK
<1> QED BY <1>1, WorldTyped, SchedulerTyped, ExecutionTyped, ProcessTyped DEF Next, Working

LEMMA StepOrdered == TypeOK /\ Ordered /\ [Next]_vars => Ordered'
<1> SUFFICES ASSUME TypeOK, Ordered, [Next]_vars PROVE Ordered'
  OBVIOUS
<1>1. CASE UNCHANGED <<up, line, todo, tried, exec, rows>>
  BY <1>1 DEF Ordered
<1>2. ASSUME NEW c \in Caller, Enqueue(c) PROVE Ordered'
  <2>1. line' # <<>>
    <3>1. line \in Seq(Caller) /\ line' = Append(line, c)
      BY <1>2 DEF Enqueue, TypeOK
    <3> QED BY <3>1, AppendProperties
  <2> QED BY <1>2, <2>1 DEF Enqueue, Ordered, outside
<1>3. ASSUME NEW c \in Caller, NEW ids \in SUBSET Tenant, Acquire(c, ids) PROVE Ordered'
  BY <1>3 DEF Acquire, Holds, Ordered
<1>4. ASSUME NEW c \in Caller, AcquireFails(c) PROVE Ordered'
  BY <1>4 DEF AcquireFails, Holds, Ordered
<1>5. ASSUME NEW t \in Tenant, NEW dry \in BOOLEAN, Create(t, dry) PROVE Ordered'
  <2>1. rows[t] \in Seq(Row)
    BY DEF TypeOK
  <2>2. rows'[t] = Append(rows[t], Unfinished)
    BY <1>5 DEF Create, TypeOK
  <2>3. Unfinished \in Row /\ Unfinished.status = "running"
    BY DEF Unfinished, Row, Status
  <2>4. rows'[t] # <<>> /\ rows'[t][Len(rows'[t])] = Unfinished
    BY <2>1, <2>2, <2>3, AppendProperties
  <2>5. exec'.tenant = t
    BY <1>5 DEF Create
  <2> QED BY <1>5, <2>3, <2>4, <2>5 DEF Create, Ordered, outside
<1>6. ASSUME NEW t \in Tenant, CreateFails(t) PROVE Ordered'
  BY <1>6 DEF CreateFails, TenantFails, Ordered
<1>7. CASE Working
  BY <1>7, WorkingKeeps DEF Ordered
<1>8. CASE Finish
  BY <1>8 DEF Finish, At, TenantReturns, Ordered
<1>9. CASE FinishFails
  BY <1>9 DEF FinishFails, At, TenantFails, Ordered
<1>10. CASE FinishFanout
  BY <1>10 DEF FinishFanout, Ordered
<1>11. CASE Crash
  BY <1>11 DEF Crash, Ordered
<1>12. CASE Restart
  BY <1>12 DEF Restart, Ordered
<1>13. CASE Day
  BY <1>1, <1>13 DEF Day
<1>14. ASSUME NEW t \in Tenant, NEW a \in Moving, Leave(t, a) PROVE Ordered'
  BY <1>1, <1>14 DEF Leave
<1>15. ASSUME NEW t \in Tenant, Reconfigure(t) \/ Activate(t) PROVE Ordered'
  BY <1>1, <1>15 DEF Reconfigure, Activate
<1>16. CASE UNCHANGED vars
  BY <1>1, <1>16 DEF vars
<1> QED
  BY <1>2, <1>3, <1>4, <1>5, <1>6, <1>7, <1>8, <1>9, <1>10, <1>11, <1>12, <1>13, <1>14, <1>15,
     <1>16, RunAssumption
  DEF Next, Working

LEMMA OrderedAlways == Spec => [](TypeOK /\ Ordered)
<1>1. Init => Ordered
  BY DEF Init, Ordered
<1> QED BY <1>1, InitTyped, StepTyped, StepOrdered, PTL DEF Spec

(* The rows, the directory mirror and the run in progress keep their shape, *)
(* and the lock is only given back by somebody who holds it                 *)
(* (jobs/runner.py, scheduler.py).                                          *)
THEOREM RunLifecycleTyped == Spec => []TypeOK
BY OrderedAlways, PTL
-----------------------------------------------------------------------------
(* What a row adds up to                                                   *)

(* Every candidate of the run in progress is counted once or still waits   *)
(* for its turn; a run that was blocked or never came to its users counts  *)
(* none of them.                                                           *)
Done == exec.sent + exec.failed + exec.skipped

Counted ==
  exec # None =>
    /\ exec.step \notin {"loop", "final"} => exec.left = {} /\ Done = 0
    /\ exec.step = "final" => exec.left = {}
    /\ Done + Cardinality(exec.left) = exec.checked \/ (exec.left = {} /\ Done = 0)

LEMMA OneLess ==
  ASSUME NEW S \in SUBSET Account, NEW u \in S
  PROVE  Cardinality(S) \in Nat /\ Cardinality(S \ {u}) = Cardinality(S) - 1
BY RunAssumption, FS_Subset, FS_CardinalityType, FS_RemoveElement

LEMMA WorkingCounted ==
  ASSUME TypeOK, Counted, Working
  PROVE  Counted'
<1>1. exec # None /\ exec \in Execution
  BY WorkingKeeps
<1>2. /\ exec.sent \in Nat /\ exec.failed \in Nat /\ exec.skipped \in Nat
      /\ exec.left \in SUBSET Account /\ exec.checked \in Nat
  BY <1>1 DEF Execution
<1>3. CASE UNCHANGED <<Done, exec.left, exec.checked>> /\ exec'.step \notin {"loop", "final"}
           /\ exec.step \notin {"loop", "final"}
  BY <1>1, <1>3 DEF Counted
<1>4. CASE AnySync
  BY <1>1, <1>3, <1>4 DEF AnySync, Sync, At, Execution, Done
<1>5. CASE \E protected \in BOOLEAN : SsoSync(protected)
  BY <1>1, <1>3, <1>5 DEF SsoSync, At, Execution, Done
<1>6. CASE AuditPurge
  BY <1>1, <1>3, <1>6 DEF AuditPurge, At, Execution, Done
<1>7. CASE PurgeAccounts
  BY <1>1, <1>3, <1>7 DEF PurgeAccounts, At, Execution, Done
<1>8. CASE \E old \in SUBSET Account : TrimHistory(old)
  BY <1>1, <1>3, <1>8 DEF TrimHistory, At, Execution, Done
<1>9. ASSUME NEW candidates \in SUBSET Account, NEW due \in SUBSET Account,
             NEW broken \in BOOLEAN, Select(candidates, due, broken)
      PROVE  Counted'
  <2>1. exec.left = {} /\ Done = 0
    BY <1>1, <1>9 DEF Select, At, Counted
  <2>2. Cardinality(candidates) \in Nat
    BY RunAssumption, FS_Subset, FS_CardinalityType
  <2>3. /\ Done' = 0
        /\ \/ exec'.step = "final" /\ exec'.left = {}
           \/ exec'.step = "loop" /\ exec'.left = {}
           \/ /\ exec'.step = "loop" /\ exec'.left = candidates
              /\ exec'.checked = Cardinality(candidates)
    BY <1>1, <1>9, <2>1 DEF Select, Execution, Done
  <2> QED BY <2>2, <2>3 DEF Counted
<1>10. ASSUME NEW u \in Account, NEW o \in Outcomes, Notify(u, o) PROVE Counted'
  <2>1. u \in exec.left /\ exec.step = "loop"
    BY <1>10 DEF Notify, At
  <2>2. Done + Cardinality(exec.left) = exec.checked
    BY <1>1, <2>1 DEF Counted
  <2>3. /\ exec'.left = exec.left \ {u} /\ exec'.checked = exec.checked
        /\ exec'.step = "loop"
        /\ exec'.sent    = exec.sent + (IF o = "sent" THEN 1 ELSE 0)
        /\ exec'.failed  = exec.failed
                             + (IF o \in {"unsent", "raised", "dberror"} THEN 1 ELSE 0)
        /\ exec'.skipped = exec.skipped + (IF o = "skipped" THEN 1 ELSE 0)
    BY <1>1, <1>10, <2>1 DEF Notify, Execution
  <2>4. Done' = Done + 1
    BY <1>2, <2>3 DEF Done, Outcomes
  <2>5. Cardinality(exec.left \ {u}) = Cardinality(exec.left) - 1 /\ Cardinality(exec.left) \in Nat
    BY <1>2, <2>1, OneLess
  <2>6. Done \in Nat
    BY <1>2 DEF Done
  <2> QED BY <2>2, <2>3, <2>4, <2>5, <2>6 DEF Counted
<1>11. CASE LoopEnd
  <2>1. exec.left = {} /\ exec.step = "loop"
    BY <1>11 DEF LoopEnd, At
  <2>2. /\ exec'.left = {} /\ exec'.step = "final" /\ exec'.checked = exec.checked
        /\ Done' = Done
    BY <1>1, <1>11, <2>1 DEF LoopEnd, Execution, Done
  <2> QED BY <1>1, <2>1, <2>2 DEF Counted
<1> QED
  BY <1>4, <1>5, <1>6, <1>7, <1>8, <1>9, <1>10, <1>11
  DEF Working, AnySelect, AnyNotify

AddsUp(row) ==
  /\ row.status = "success" => row.failed = 0
  /\ row.sent + row.failed + row.skipped \in {0, row.checked}

LEMMA RowsOneByOne ==
  ASSUME TypeOK
  PROVE  RowsAddUp <=> \A t \in Tenant : \A i \in 1..Len(rows[t]) : AddsUp(rows[t][i])
<1>1. \A t \in Tenant : DOMAIN rows[t] = 1..Len(rows[t])
  BY DEF TypeOK
<1> QED BY <1>1 DEF RowsAddUp, AddsUp

(* What the final commit writes adds up. *)
LEMMA OutcomeAddsUp ==
  ASSUME TypeOK, Counted, At("final")
  PROVE  AddsUp([status |-> FinalStatus, checked |-> exec.checked, sent |-> exec.sent,
                 failed |-> exec.failed, skipped |-> exec.skipped])
<1>1. exec # None /\ exec \in Execution /\ exec.step = "final"
  BY DEF At, TypeOK
<1>2. exec.left = {} /\ (Done + Cardinality({}) = exec.checked \/ Done = 0)
  BY <1>1 DEF Counted
<1>3. Done \in {0, exec.checked}
  BY <1>1, <1>2, FS_EmptySet DEF Done, Execution
<1>4. FinalStatus = "success" => exec.failed = 0
  BY <1>1 DEF FinalStatus, Execution
<1> QED BY <1>3, <1>4 DEF AddsUp, Done

LEMMA StepRows ==
  ASSUME TypeOK, TypeOK', Ordered, Counted, RowsAddUp, [Next]_vars
  PROVE  RowsAddUp'
<1>0. ASSUME NEW t \in Tenant PROVE rows[t] \in Seq(Row)
  BY DEF TypeOK
<1>1. CASE UNCHANGED rows
  BY <1>1 DEF RowsAddUp
<1>2. ASSUME NEW t \in Tenant, NEW dry \in BOOLEAN, Create(t, dry) PROVE RowsAddUp'
  <2>1. Unfinished \in Row /\ AddsUp(Unfinished)
    BY DEF Unfinished, AddsUp, Row, Status
  <2>2. ASSUME NEW s \in Tenant, NEW i \in 1..Len(rows'[s]) PROVE AddsUp(rows'[s][i])
    <3>1. CASE s = t
      <4>1. rows'[t] = Append(rows[t], Unfinished)
        BY <1>2 DEF Create, TypeOK
      <4>2. rows'[t][i] = Unfinished \/ (i \in 1..Len(rows[t]) /\ rows'[t][i] = rows[t][i])
        BY <1>0, <2>1, <3>1, <4>1, AppendProperties
      <4> QED BY <2>1, <3>1, <4>2, RowsOneByOne
    <3>2. CASE s # t
      <4>1. rows'[s] = rows[s]
        BY <1>2, <3>2 DEF Create, TypeOK
      <4> QED BY <4>1, RowsOneByOne
    <3> QED BY <3>1, <3>2
  <2>3. \A s \in Tenant : DOMAIN rows'[s] = 1..Len(rows'[s])
    BY DEF TypeOK
  <2> QED BY <2>2, <2>3 DEF RowsAddUp, AddsUp
<1>3. CASE Finish
  <2> DEFINE t == exec.tenant
             r == [status |-> FinalStatus, checked |-> exec.checked, sent |-> exec.sent,
                   failed |-> exec.failed, skipped |-> exec.skipped]
  <2>1. exec \in Execution /\ t \in Tenant /\ AddsUp(r)
    BY <1>3, OutcomeAddsUp DEF Finish, At, TypeOK, Execution
  <2>2. rows' = [rows EXCEPT ![t] = [rows[t] EXCEPT ![Len(rows[t])] = r]]
    BY <1>3 DEF Finish
  <2> HIDE DEF t, r
  <2>3. ASSUME NEW s \in Tenant, NEW i \in 1..Len(rows'[s]) PROVE AddsUp(rows'[s][i])
    <3>1. CASE s = t
      <4>1. rows'[s] = [rows[s] EXCEPT ![Len(rows[s])] = r]
        BY <2>2, <3>1 DEF TypeOK
      <4>2. Len(rows'[s]) = Len(rows[s]) /\ (rows'[s][i] = r \/ rows'[s][i] = rows[s][i])
        BY <1>0, <4>1
      <4> QED BY <2>1, <4>2, RowsOneByOne
    <3>2. CASE s # t
      <4>1. rows'[s] = rows[s]
        BY <2>2, <3>2 DEF TypeOK
      <4> QED BY <4>1, RowsOneByOne
    <3> QED BY <3>1, <3>2
  <2>4. \A s \in Tenant : DOMAIN rows'[s] = 1..Len(rows'[s])
    BY DEF TypeOK
  <2> QED BY <2>3, <2>4 DEF RowsAddUp, AddsUp
<1>4. CASE Restart
  <2>1. ASSUME NEW s \in Tenant, NEW i \in 1..Len(rows'[s]) PROVE AddsUp(rows'[s][i])
    <3>1. rows'[s] = [j \in DOMAIN rows[s] |-> IF rows[s][j].status = "running"
                        THEN [rows[s][j] EXCEPT !.status = "error"] ELSE rows[s][j]]
      BY <1>4 DEF Restart, MarkStale
    <3>2. i \in 1..Len(rows[s]) /\ rows[s][i] \in Row
      BY <1>0, <3>1
    <3>3. AddsUp(rows[s][i])
      BY <3>2, RowsOneByOne
    <3>4. rows'[s][i] = rows[s][i] \/ rows'[s][i] = [rows[s][i] EXCEPT !.status = "error"]
      BY <1>0, <3>1, <3>2
    <3> QED BY <3>2, <3>3, <3>4 DEF AddsUp, Row
  <2>2. \A s \in Tenant : DOMAIN rows'[s] = 1..Len(rows'[s])
    BY DEF TypeOK
  <2> QED BY <2>1, <2>2 DEF RowsAddUp, AddsUp
<1>5. CASE Working
  BY <1>1, <1>5, WorkingKeeps
<1> QED
  BY <1>1, <1>2, <1>3, <1>4, <1>5
  DEF Next, Working, Day, Leave, Reconfigure, Activate, Enqueue, Acquire, AcquireFails,
      CreateFails, FinishFails, FinishFanout, Crash, vars

LEMMA StepCounted ==
  ASSUME TypeOK, Ordered, Counted, [Next]_vars
  PROVE  Counted'
<1>1. CASE UNCHANGED exec \/ exec' = None
  BY <1>1 DEF Counted, Done
<1>2. ASSUME NEW t \in Tenant, NEW dry \in BOOLEAN, Create(t, dry) PROVE Counted'
  BY <1>2 DEF Create, Counted, Done
<1>3. CASE Working
  BY <1>3, WorkingCounted
<1> QED
  BY <1>1, <1>2, <1>3
  DEF Next, Working, Day, Leave, Reconfigure, Activate, Enqueue, Acquire, AcquireFails,
      CreateFails, Finish, FinishFails, FinishFanout, Crash, Restart, vars

LEMMA CountedAlways == Spec => [](TypeOK /\ Ordered /\ Counted /\ RowsAddUp)
<1> DEFINE IInv == TypeOK /\ Ordered /\ Counted /\ RowsAddUp
<1>1. Init => IInv
  <2> SUFFICES ASSUME Init PROVE IInv
    OBVIOUS
  <2>1. \A t \in Tenant : DOMAIN rows[t] = {}
    BY DEF Init
  <2>2. RowsAddUp
    BY <2>1 DEF RowsAddUp
  <2>3. Ordered /\ Counted
    BY DEF Init, Ordered, Counted
  <2> QED BY <2>2, <2>3, InitTyped
<1>2. IInv /\ [Next]_vars => IInv'
  BY StepTyped, StepOrdered, StepCounted, StepRows
<1> QED BY <1>1, <1>2, PTL DEF Spec

(* What the operator reads of a run is the truth: a "success" had no failed *)
(* user, and every run accounts for all its users or for none, wherever it  *)
(* was cut off (runner.execute_run, run.mark_stale_as_error).               *)
THEOREM RowsAlwaysAddUp == Spec => []RowsAddUp
BY CountedAlways, PTL

-----------------------------------------------------------------------------
(* The audit trail                                                         *)

(* What is pending is a purge with its entry, or nothing. *)
Paired == exec # None => exec.pending \in {{}, {"purge", "entry"}}

LEMMA CommitsInPairs ==
  ASSUME TypeOK, exec \in Execution, exec.pending \in {{}, {"purge", "entry"}},
         PurgesAreRecorded, Commit
  PROVE  PurgesAreRecorded'
<1>1. trail \in Trails /\ exec.tenant \in Tenant
  BY DEF TypeOK, Trails, Execution
<1>2. ("purge" \in exec.pending) <=> ("entry" \in exec.pending)
  OBVIOUS
<1>3. ASSUME NEW t \in Tenant PROVE trail'[t].purges = trail'[t].recorded
  <2>1. trail[t].purges = trail[t].recorded
    BY DEF PurgesAreRecorded
  <2>2. CASE t = exec.tenant
    BY <1>1, <1>2, <2>1, <2>2 DEF Commit, Trails
  <2>3. CASE t # exec.tenant
    BY <1>1, <2>1, <2>3 DEF Commit, Trails
  <2> QED BY <2>2, <2>3
<1> QED BY <1>3 DEF PurgesAreRecorded

LEMMA StepPaired ==
  ASSUME TypeOK, Paired, PurgesAreRecorded, [Next]_vars
  PROVE  Paired' /\ PurgesAreRecorded'
<1>0. exec # None => exec \in Execution /\ exec.pending \in {{}, {"purge", "entry"}}
  BY DEF TypeOK, Paired
<1>1. CASE UNCHANGED <<exec, trail>> \/ (exec' = None /\ UNCHANGED trail)
  BY <1>1 DEF Paired, PurgesAreRecorded
<1>2. CASE Day
  <2>1. \A t \in Tenant : /\ trail'[t].purges = trail[t].purges
                          /\ trail'[t].recorded = trail[t].recorded
    BY <1>2 DEF Day, TypeOK
  <2> QED BY <1>2, <2>1 DEF Day, Paired, PurgesAreRecorded
<1>3. ASSUME NEW t \in Tenant, NEW dry \in BOOLEAN, Create(t, dry)
      PROVE  Paired' /\ PurgesAreRecorded'
  BY <1>3 DEF Create, Paired, PurgesAreRecorded
<1>4. CASE AnySync
  BY <1>0, <1>4 DEF AnySync, Sync, At, Paired, PurgesAreRecorded, Execution
<1>5. CASE \E protected \in BOOLEAN : SsoSync(protected)
  BY <1>0, <1>5 DEF SsoSync, At, Paired, PurgesAreRecorded, Execution
<1>6. CASE AuditPurge
  BY <1>0, <1>6 DEF AuditPurge, Purged, At, Paired, PurgesAreRecorded, Execution
<1>7. CASE PurgeAccounts
  <2>1. exec # None
    BY <1>7 DEF PurgeAccounts, At
  <2>2. /\ exec'.pending \in {{}, exec.pending}
        /\ Commit \/ UNCHANGED trail
    BY <1>0, <1>7, <2>1 DEF PurgeAccounts, Execution
  <2> QED BY <1>0, <2>1, <2>2, CommitsInPairs DEF Paired, PurgesAreRecorded
<1>8. ASSUME NEW old \in SUBSET Account, TrimHistory(old)
      PROVE  Paired' /\ PurgesAreRecorded'
  <2>1. exec # None
    BY <1>8 DEF TrimHistory, At
  <2>2. /\ exec'.pending \in {{}, exec.pending}
        /\ Commit \/ UNCHANGED trail
    BY <1>0, <1>8, <2>1 DEF TrimHistory, Execution
  <2> QED BY <1>0, <2>1, <2>2, CommitsInPairs DEF Paired, PurgesAreRecorded
<1>9. CASE AnySelect
  BY <1>0, <1>9 DEF AnySelect, Select, At, Paired, PurgesAreRecorded, Execution
<1>10. ASSUME NEW u \in Account, NEW o \in Outcomes, Notify(u, o)
       PROVE  Paired' /\ PurgesAreRecorded'
  <2>1. exec # None
    BY <1>10 DEF Notify, At
  <2>2. /\ exec'.pending \in {{}, exec.pending}
        /\ Commit \/ UNCHANGED trail
    BY <1>0, <1>10, <2>1 DEF Notify, Execution
  <2> QED BY <1>0, <2>1, <2>2, CommitsInPairs DEF Paired, PurgesAreRecorded
<1>11. CASE LoopEnd
  BY <1>0, <1>11 DEF LoopEnd, At, Paired, PurgesAreRecorded, Execution
<1>12. CASE Finish
  BY <1>0, <1>12, CommitsInPairs DEF Finish, At, Paired
<1> QED
  BY <1>1, <1>2, <1>3, <1>4, <1>5, <1>6, <1>7, <1>8, <1>9, <1>10, <1>11, <1>12
  DEF Next, AnyNotify, Leave, Reconfigure, Activate, Enqueue, Acquire, AcquireFails, outside,
      CreateFails, FinishFails, FinishFanout, Crash, Restart, vars

(* Audit history is never deleted silently, wherever the run was cut off    *)
(* between deleting, recording and the commit that comes next, whichever    *)
(* step makes it (runner._apply_privacy_retention, execute_run).            *)
THEOREM PurgesAlwaysRecorded == Spec => []PurgesAreRecorded
<1> DEFINE IInv == TypeOK /\ Ordered /\ Paired /\ PurgesAreRecorded
<1>1. Init => IInv
  <2> SUFFICES ASSUME Init PROVE IInv
    OBVIOUS
  <2>1. PurgesAreRecorded
    BY DEF Init, PurgesAreRecorded
  <2>2. Ordered /\ Paired
    BY DEF Init, Ordered, Paired
  <2> QED BY <2>1, <2>2, InitTyped
<1>2. IInv /\ [Next]_vars => IInv'
  BY StepTyped, StepOrdered, StepPaired
<1> QED BY <1>1, <1>2, PTL DEF Spec

-----------------------------------------------------------------------------
(* What a step may do to a row                                             *)

Settles ==
  \A t \in Tenant : \A i \in DOMAIN rows[t] :
    /\ rows[t][i].status # "running" => rows'[t][i] = rows[t][i]
    /\ ~up /\ up' => rows'[t][i].status # "running"

LEMMA StepSettles == TypeOK /\ Ordered /\ [Next]_vars => Settles
<1> SUFFICES ASSUME TypeOK, Ordered, [Next]_vars,
                    NEW t \in Tenant, NEW i \in DOMAIN rows[t]
             PROVE  /\ rows[t][i].status # "running" => rows'[t][i] = rows[t][i]
                    /\ ~up /\ up' => rows'[t][i].status # "running"
  BY DEF Settles
<1> DEFINE Goal == /\ rows[t][i].status # "running" => rows'[t][i] = rows[t][i]
                   /\ ~up /\ up' => rows'[t][i].status # "running"
<1>0. rows[t] \in Seq(Row) /\ i \in 1..Len(rows[t]) /\ rows[t][i] \in Row
  BY DEF TypeOK
<1>1. CASE UNCHANGED rows /\ (up \/ ~up')
  BY <1>1
<1>2. ASSUME NEW s \in Tenant, NEW dry \in BOOLEAN, Create(s, dry) PROVE Goal
  <2>1. Unfinished \in Row
    BY DEF Unfinished, Row, Status
  <2>2. rows'[t] = rows[t] \/ rows'[t] = Append(rows[t], Unfinished)
    BY <1>2 DEF Create, TypeOK
  <2>3. rows'[t][i] = rows[t][i]
    BY <1>0, <2>1, <2>2, AppendProperties
  <2> QED BY <1>2, <2>3 DEF Create
<1>3. CASE Finish
  <2> DEFINE r == [status |-> FinalStatus, checked |-> exec.checked, sent |-> exec.sent,
                   failed |-> exec.failed, skipped |-> exec.skipped]
             s == exec.tenant
  <2>1. /\ rows' = [rows EXCEPT ![s] = [rows[s] EXCEPT ![Len(rows[s])] = r]]
        /\ up
    BY <1>3 DEF Finish, At
  <2>2. rows[s][Len(rows[s])].status = "running"
    BY <1>3 DEF Finish, At, Ordered
  <2> HIDE DEF r, s
  <2>3. CASE t = s
    <3>1. rows'[t] = [rows[t] EXCEPT ![Len(rows[t])] = r]
      BY <2>1, <2>3 DEF TypeOK
    <3>2. i # Len(rows[t]) => rows'[t][i] = rows[t][i]
      BY <1>0, <3>1
    <3> QED BY <2>1, <2>2, <2>3, <3>2
  <2>4. CASE t # s
    BY <2>1, <2>4 DEF TypeOK
  <2> QED BY <2>3, <2>4
<1>4. CASE Restart
  <2>1. rows'[t] = [j \in DOMAIN rows[t] |-> IF rows[t][j].status = "running"
                      THEN [rows[t][j] EXCEPT !.status = "error"] ELSE rows[t][j]]
    BY <1>4 DEF Restart, MarkStale
  <2>2. [rows[t][i] EXCEPT !.status = "error"].status = "error"
    BY <1>0 DEF Row
  <2> QED BY <2>1, <2>2
<1>5. CASE Working
  BY <1>1, <1>5, WorkingKeeps
<1> QED
  BY <1>1, <1>2, <1>3, <1>4, <1>5
  DEF Next, Working, Day, Leave, Reconfigure, Activate, Enqueue, Acquire, AcquireFails,
      CreateFails, FinishFails, FinishFanout, Crash, vars

(* An outcome is final, and a restart leaves no row open, whichever tenant *)
(* it belongs to and however many runs were cut off (run.mark_stale_as_error). *)
THEOREM RestartAlwaysSettles == Spec => RestartSettlesRuns
<1>1. TypeOK /\ Ordered /\ [Next]_vars => [Settles]_vars
  BY StepSettles
<1> QED BY <1>1, OrderedAlways, PTL DEF Spec, RestartSettlesRuns, Settles

-----------------------------------------------------------------------------
(* Retention                                                               *)

(* A run whose sync was a success has just seen everybody who is there. *)
Seen ==
  exec # None /\ exec.step # "sync" /\ exec.status = "success" =>
    \A a \in exec.present : age[exec.tenant][a] = 0

Spares ==
  \A t \in Tenant, a \in Account :
    age[t][a] # None /\ age'[t][a] = None => a \notin exec.present

LEMMA StepSeen ==
  ASSUME TypeOK, Ordered, Seen, configured = Tenant, [Next]_vars
  PROVE  Seen'
<1>0. exec # None => exec \in Execution
  BY DEF TypeOK
<1>1. CASE UNCHANGED <<exec, age>> \/ exec' = None
  BY <1>1 DEF Seen
<1>2. CASE Day
  BY <1>2 DEF Day, Seen
<1>3. ASSUME NEW t \in Tenant, NEW dry \in BOOLEAN, Create(t, dry) PROVE Seen'
  BY <1>3 DEF Create, Seen
<1>4. ASSUME NEW reached \in SUBSET Account,
             NEW o \in {"done", "skipped", "failed", "dberror"}, Sync(reached, o)
      PROVE  Seen'
  <2>1. exec \in Execution /\ exec.tenant \in Tenant
    BY <1>0, <1>4 DEF Sync, At, Execution
  <2>2. o # "skipped"
    BY <1>4, <2>1 DEF Sync
  <2>3. exec'.status = "success" => o = "done"
    BY <1>4, <2>1, <2>2 DEF Sync, Execution
  <2>4. exec'.present = directory[exec.tenant] /\ exec'.tenant = exec.tenant
    BY <1>4, <2>1 DEF Sync, Execution
  <2>5. directory[exec.tenant] \in SUBSET Account
    BY <2>1 DEF TypeOK
  <2>6. ASSUME o = "done" PROVE \A a \in exec'.present : age'[exec.tenant][a] = 0
    <3>1. reached = directory[exec.tenant]
      BY <1>4, <2>6 DEF Sync
    <3>2. age'[exec.tenant]
            = [a \in Account |-> IF a \in reached THEN 0 ELSE age[exec.tenant][a]]
      BY <1>4, <2>1 DEF Sync, TypeOK
    <3> QED BY <2>4, <2>5, <3>1, <3>2
  <2> QED BY <2>3, <2>4, <2>6 DEF Seen
<1>5. ASSUME NEW protected \in BOOLEAN, SsoSync(protected) PROVE Seen'
  BY <1>0, <1>5 DEF SsoSync, At, Execution, Seen
<1>6. CASE AuditPurge
  BY <1>0, <1>6 DEF AuditPurge, At, Execution, Seen
<1>7. CASE PurgeAccounts
  <2>1. exec \in Execution /\ exec.tenant \in Tenant /\ exec.step = "accounts"
    BY <1>0, <1>7 DEF PurgeAccounts, At, Execution
  <2>2. /\ exec'.tenant = exec.tenant /\ exec'.status = exec.status
        /\ exec'.present = exec.present
    BY <1>7, <2>1 DEF PurgeAccounts, Execution
  <2>3. CASE UNCHANGED age
    BY <2>1, <2>2, <2>3, <1>0, <1>7 DEF Seen, PurgeAccounts, At
  <2>4. CASE age' = [age EXCEPT ![exec.tenant] =
                [a \in Account |-> IF a \in Stale(exec.tenant) THEN None ELSE @[a]]]
    <3>1. ASSUME NEW a \in exec.present, exec.status = "success"
          PROVE  age'[exec.tenant][a] = 0
      <4>1. age[exec.tenant][a] = 0 /\ a \in Account
        BY <1>7, <2>1, <3>1 DEF Seen, PurgeAccounts, At, Execution
      <4>2. a \notin Stale(exec.tenant)
        BY <4>1, RunAssumption DEF Stale
      <4> QED BY <2>1, <2>4, <4>1, <4>2 DEF TypeOK
    <3> QED BY <2>2, <3>1 DEF Seen
  <2> QED BY <1>7, <2>3, <2>4 DEF PurgeAccounts
<1>8. ASSUME NEW old \in SUBSET Account, TrimHistory(old) PROVE Seen'
  BY <1>0, <1>8 DEF TrimHistory, At, Execution, Seen
<1>9. ASSUME NEW candidates \in SUBSET Account, NEW due \in SUBSET Account,
             NEW broken \in BOOLEAN, Select(candidates, due, broken)
      PROVE  Seen'
  BY <1>0, <1>9 DEF Select, At, Execution, Seen
<1>10. ASSUME NEW u \in Account, NEW o \in Outcomes, Notify(u, o) PROVE Seen'
  BY <1>0, <1>10 DEF Notify, At, Execution, Seen
<1>11. CASE LoopEnd
  BY <1>0, <1>11 DEF LoopEnd, At, Execution, Seen
<1> QED
  BY <1>1, <1>2, <1>3, <1>4, <1>5, <1>6, <1>7, <1>8, <1>9, <1>10, <1>11
  DEF Next, AnySync, AnySelect, AnyNotify, Leave, Reconfigure, Activate, Enqueue, Acquire,
      AcquireFails, CreateFails, Finish, FinishFails, FinishFanout, Crash, Restart, vars

LEMMA StepSpares ==
  ASSUME TypeOK, Seen, [Next]_vars
  PROVE  Spares
<1> SUFFICES ASSUME NEW t \in Tenant, NEW a \in Account,
                    age[t][a] # None, age'[t][a] = None
             PROVE  a \notin exec.present
  BY DEF Spares
<1>0. age[t][a] \in 0..MaxAge
  BY DEF TypeOK
<1>1. CASE Day
  <2>1. age'[t][a] \in {age[t][a], age[t][a] + 1}
    BY <1>1 DEF Day
  <2> QED BY <1>0, <2>1, NoneAssumption, RunAssumption DEF MaxAge
<1>2. CASE AnySync
  <2>1. age'[t][a] \in {0, age[t][a]}
    BY <1>2 DEF AnySync, Sync, TypeOK
  <2> QED BY <2>1, NoneAssumption
<1>3. CASE PurgeAccounts
  <2>1. /\ MayPurgeAccounts /\ exec.step = "accounts" /\ exec # None
        /\ age' = [age EXCEPT ![exec.tenant] =
                    [b \in Account |-> IF b \in Stale(exec.tenant) THEN None ELSE @[b]]]
    BY <1>3 DEF PurgeAccounts, At
  <2>2. t = exec.tenant /\ a \in Stale(exec.tenant)
    BY <2>1 DEF TypeOK
  <2>3. \A b \in exec.present : age[exec.tenant][b] = 0
    BY <2>1 DEF MayPurgeAccounts, Seen
  <2> QED BY <2>2, <2>3, RunAssumption DEF Stale
<1>4. CASE UNCHANGED age
  BY <1>4
<1> QED
  BY <1>1, <1>2, <1>3, <1>4
  DEF Next, AnySelect, AnyNotify, Leave, Reconfigure, Activate, Enqueue, Acquire, AcquireFails,
      Create, CreateFails, SsoSync, AuditPurge, TrimHistory, Select, Notify, LoopEnd, Finish,
      FinishFails, FinishFanout, Crash, Restart, vars

(* As long as no tenant loses its Graph configuration, account retention     *)
(* deletes nobody who was in the directory when the run looked, however old  *)
(* outages, crashes and pauses have made the rows (retention.py).            *)
THEOREM RetentionSparesPresent ==
  ASSUME Reconfigurable = {}
  PROVE  Spec => PurgeSparesPresent
<1> DEFINE IInv == TypeOK /\ Ordered /\ Seen /\ configured = Tenant
<1>1. Init => IInv
  BY InitTyped DEF Init, Ordered, Seen
<1>2. IInv /\ [Next]_vars => (configured = Tenant)'
  BY DEF Next, AnySync, AnySelect, AnyNotify, Day, Leave, Reconfigure, Activate, Enqueue, Acquire,
      AcquireFails, Create, CreateFails, Sync, SsoSync, AuditPurge, PurgeAccounts, TrimHistory,
      Select, Notify, LoopEnd, Finish, FinishFails, FinishFanout, Crash, Restart, outside, vars
<1>3. IInv /\ [Next]_vars => IInv'
  BY <1>2, StepTyped, StepOrdered, StepSeen
<1>4. IInv /\ [Next]_vars => [Spares]_vars
  BY StepSpares
<1> QED BY <1>1, <1>3, <1>4, PTL DEF Spec, PurgeSparesPresent, Spares
=============================================================================
