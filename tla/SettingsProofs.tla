---------------------------- MODULE SettingsProofs ----------------------------
(***************************************************************************)
(* Proofs about Settings, for every set of tenants, workers, crontabs and  *)
(* file types and every environment that meets SettingsAssumption, which   *)
(* each of them names.                                                     *)
(***************************************************************************)
EXTENDS Settings, SequenceTheorems, TLAPS

-----------------------------------------------------------------------------
(* Courses                                                                 *)

(* What everybody but the setup goes through.                              *)
Usual == Steps \ {"lock", "create"}
Founding ==
  {<<"lock", "create", "record", "commit">>, <<"create", "record", "commit">>,
   <<"record", "commit">>, <<"commit">>}

LEMMA CourseIsUsual ==
  ASSUME NEW op \in Ops \ {"setup"}, NEW vals
  PROVE  Course(op, vals) \in Seq(Usual) /\ Course(op, vals) # <<>>
<1> DEFINE a == IF Mail(vals) THEN <<"check">> ELSE <<>>
           b == <<"save", "record", "commit">>
           c == IF Schedule(vals) THEN <<"read", "plan">> ELSE <<>>
<1>0. {"check", "save", "record", "commit", "read", "plan", "file"} \subseteq Usual
  BY DEF Usual, Steps
<1>1. a \in Seq(Usual) /\ b \in Seq(Usual) /\ c \in Seq(Usual) /\ Len(b) = 3
  <2>1. /\ <<>> \in Seq(Usual) /\ <<"check">> \in Seq(Usual) /\ <<"read", "plan">> \in Seq(Usual)
        /\ <<"save", "record", "commit">> \in Seq(Usual)
    BY <1>0
  <2> QED BY <2>1
<1> HIDE DEF a, b, c
<1>2. CASE op = "put"
  <2>1. Course(op, vals) = a \o b \o c
    BY <1>2 DEF Course, a, b, c
  <2>2. a \o b \in Seq(Usual) /\ Len(a \o b) = Len(a) + Len(b)
    BY <1>1, ConcatProperties
  <2>3. (a \o b) \o c \in Seq(Usual) /\ Len((a \o b) \o c) = Len(a \o b) + Len(c)
    BY <1>1, <2>2, ConcatProperties
  <2>4. Len(a) \in Nat /\ Len(c) \in Nat
    BY <1>1
  <2>5. (a \o b) \o c # <<>>
    BY <1>1, <2>2, <2>3, <2>4
  <2> QED BY <2>1, <2>3, <2>5
<1>3. CASE op \in {"upload", "clear"}
  BY <1>0, <1>3 DEF Course
<1>4. CASE op = "reset"
  BY <1>0, <1>4 DEF Course, RecordThenSave
<1>5. CASE op = "mode"
  BY <1>0, <1>5 DEF Course
<1> QED BY <1>2, <1>3, <1>4, <1>5 DEF Ops

LEMMA UsualGoesOn ==
  ASSUME NEW s \in Seq(Usual), s # <<>>
  PROVE  Tail(s) \in Seq(Usual) /\ Head(s) \in Usual
BY HeadTailProperties

LEMMA FoundingGoesOn ==
  ASSUME NEW s \in Founding
  PROVE  /\ s \in Seq(Steps) /\ s # <<>> /\ Tail(s) \in Founding \union {<<>>}
         /\ Head(s) = "lock" => Tail(s) = <<"create", "record", "commit">>
         /\ Head(s) = "create" => Tail(s) # <<>>
         /\ Tail(s) # <<>> /\ Head(Tail(s)) = "create" => Head(s) = "lock"
<1>1. CASE s = <<"lock", "create", "record", "commit">>
  <2>1. Tail(s) = <<"create", "record", "commit">>
    BY <1>1
  <2> QED BY <1>1, <2>1 DEF Founding, Steps
<1>2. CASE s = <<"create", "record", "commit">>
  <2>1. Tail(s) = <<"record", "commit">>
    BY <1>2
  <2> QED BY <1>2, <2>1 DEF Founding, Steps
<1>3. CASE s = <<"record", "commit">>
  <2>1. Tail(s) = <<"commit">>
    BY <1>3
  <2> QED BY <1>3, <2>1 DEF Founding, Steps
<1>4. CASE s = <<"commit">>
  <2>1. Tail(s) = <<>>
    BY <1>4
  <2> QED BY <1>4, <2>1 DEF Founding, Steps
<1> QED BY <1>1, <1>2, <1>3, <1>4 DEF Founding

-----------------------------------------------------------------------------
(* The invariant                                                           *)

(* A request runs in a server that is up, and only a setup ever creates.   *)
OnCourse ==
  \A w \in Busy :
    /\ up
    /\ job[w].op = "setup" => job[w].left \in Founding
    /\ job[w].op # "setup" => job[w].left \in Seq(Usual) /\ job[w].left # <<>>

(* Who is about to create has the lock, and has counted under it.          *)
Founded ==
  /\ \A w \in Busy : job[w].op = "setup" /\ Head(job[w].left) = "create" =>
                       lock = w /\ Count = 0
  /\ Count <= 1

Inv == TypeOK /\ OnCourse /\ Founded

LEMMA InvInit == ASSUME SettingsAssumption, Init PROVE Inv
<1>1. TypeOK
  <2>1. Default \in Tenants /\ Kept \in Crons /\ MaxRequests \in Nat /\ MaxFaults \in Nat
    BY DEF SettingsAssumption, Crons
  <2> DEFINE row == [host |-> "internal", tls |-> "starttls", cron |-> Kept, logo |-> None]
  <2>2. row \in Values
    BY <2>1 DEF Values, Hosts, Ciphers
  <2>3. cfg = [t \in Tenants |-> row]
    BY DEF Init
  <2> HIDE DEF row
  <2>4. cfg \in [Tenants -> Values]
    BY <2>2, <2>3
  <2>5. people \in [{"superadmin", "admin"} -> Nat] /\ files \in [Tenants -> SUBSET Types]
    BY DEF Init
  <2>6. budget \in [requests : 0..MaxRequests, faults : 0..MaxFaults]
    BY <2>1 DEF Init
  <2> QED BY <2>1, <2>4, <2>5, <2>6 DEF Init, TypeOK
<1>2. Busy = {} /\ people["superadmin"] = 0 /\ people["admin"] = 0
  BY DEF Init, Busy
<1> QED BY <1>1, <1>2 DEF Inv, OnCourse, Founded, Count

LEMMA JobType ==
  ASSUME SettingsAssumption, Inv, NEW w \in Workers, job[w] # None
  PROVE  /\ job[w] \in Jobs /\ w \in Busy /\ up
         /\ job[w].left \in Seq(Steps) /\ job[w].left # <<>>
         /\ Tail(job[w].left) \in Seq(Steps)
<1>1. job[w] \in Jobs /\ w \in Busy
  BY DEF Inv, TypeOK, Busy
<1>2. job[w].left \in Seq(Steps)
  BY <1>1 DEF Jobs
<1>3. up /\ job[w].left # <<>>
  BY <1>1, FoundingGoesOn DEF Inv, OnCourse
<1> QED BY <1>1, <1>2, <1>3, HeadTailProperties

(* What a request is at after a step of another, or of its own.            *)
Others(w) ==
  /\ \A v \in Workers \ {w} : job'[v] = job[v] /\ (lock = v => lock' = v)
  /\ \/ job'[w] = None
     \/ /\ job'[w].op = job[w].op /\ job'[w].left = Tail(job[w].left)
        /\ Tail(job[w].left) # <<>>

LEMMA EndsStep ==
  ASSUME SettingsAssumption, Inv, NEW w \in Workers, job[w] # None,
         NEW j \in Jobs, j.op = job[w].op, Ends(w, j)
  PROVE  /\ job' \in [Workers -> Jobs \union {None}]
         /\ lock' \in Workers \union {None} /\ silent' \subseteq Ops
         /\ Others(w)
<1>1. j.op \in Ops
  BY DEF Jobs
<1> QED BY <1>1 DEF Ends, Free, Others, Inv, TypeOK

LEMMA GoesStep ==
  ASSUME SettingsAssumption, Inv, NEW w \in Workers, job[w] # None,
         NEW j \in Jobs, j.op = job[w].op, j.left = job[w].left, Goes(w, j)
  PROVE  /\ job' \in [Workers -> Jobs \union {None}]
         /\ lock' \in Workers \union {None} /\ silent' \subseteq Ops
         /\ Others(w)
<1> DEFINE k == [j EXCEPT !.left = Tail(@)]
<1>1. k \in Jobs /\ k.op = j.op /\ k.left = Tail(job[w].left)
  BY JobType DEF Jobs
<1>2. CASE k.left = <<>>
  <2>1. Ends(w, k)
    BY <1>2 DEF Goes
  <2> QED BY <1>1, <2>1, EndsStep
<1>3. CASE k.left # <<>>
  <2>1. job' = [job EXCEPT ![w] = k] /\ UNCHANGED <<lock, silent>>
    BY <1>3 DEF Goes
  <2> HIDE DEF k
  <2> QED BY <1>1, <1>3, <2>1 DEF Others, Inv, TypeOK
<1> QED BY <1>2, <1>3

LEMMA CourseGoesOn ==
  ASSUME SettingsAssumption, Inv, NEW w \in Workers, job[w] # None, Others(w),
         job' \in [Workers -> Jobs \union {None}],
         UNCHANGED <<up, people>>,
         job'[w] = None \/ Head(job[w].left) # "lock"
  PROVE  OnCourse' /\ Founded'
<1>1. /\ OnCourse /\ Founded /\ w \in Busy /\ up /\ Count' = Count
  BY JobType DEF Inv, Count
<1>2. \A v \in Busy' \ {w} : v \in Busy /\ job'[v] = job[v] /\ (lock = v => lock' = v)
  BY DEF Busy, Others
<1>3. ASSUME w \in Busy'
      PROVE  /\ job'[w].op = job[w].op
             /\ job'[w].op = "setup" => job'[w].left \in Founding /\ Head(job'[w].left) # "create"
             /\ job'[w].op # "setup" => job'[w].left \in Seq(Usual) /\ job'[w].left # <<>>
  <2>1. /\ job'[w].op = job[w].op /\ job'[w].left = Tail(job[w].left)
        /\ Tail(job[w].left) # <<>> /\ Head(job[w].left) # "lock"
    BY <1>3 DEF Busy, Others
  <2>2. CASE job[w].op = "setup"
    <3>1. job[w].left \in Founding
      BY <1>1, <2>2 DEF OnCourse
    <3> QED BY <2>1, <2>2, <3>1, FoundingGoesOn
  <2>3. CASE job[w].op # "setup"
    <3>1. job[w].left \in Seq(Usual) /\ job[w].left # <<>>
      BY <1>1, <2>3 DEF OnCourse
    <3> QED BY <2>1, <2>3, <3>1, UsualGoesOn
  <2> QED BY <2>2, <2>3
<1>4. OnCourse'
  BY <1>1, <1>2, <1>3 DEF OnCourse
<1>5. Founded'
  BY <1>1, <1>2, <1>3 DEF Founded
<1> QED BY <1>4, <1>5

-----------------------------------------------------------------------------
(* The steps of a request                                                  *)

LEMMA MergeType ==
  ASSUME SettingsAssumption, NEW row \in Values, NEW vals \in Bodies \union {NoBody}
  PROVE  Merge(row, vals) \in Values
<1>1. CASE vals \in [host : Hosts]
  BY <1>1 DEF Merge, Values
<1>2. CASE vals \in [tls : Ciphers]
  BY <1>2 DEF Merge, Values
<1>3. CASE vals \in [host : Hosts, tls : Along]
  BY <1>3 DEF Merge, Values, SettingsAssumption
<1>4. CASE vals \in [cron : Crons]
  BY <1>4 DEF Merge, Values
<1>5. CASE vals \in [logo : {None}]
  BY <1>5 DEF Merge, Values
<1>6. CASE vals = NoBody
  BY <1>6 DEF Merge, Values, NoBody
<1> QED BY <1>1, <1>2, <1>3, <1>4, <1>5, <1>6 DEF Bodies

LEMMA SavedType ==
  ASSUME SettingsAssumption, TypeOK, NEW j \in Jobs
  PROVE  Saved(j) \in [Tenants -> Values]
<1>1. /\ cfg \in [Tenants -> Values] /\ j.tenant \in Tenants /\ cfg[j.tenant] \in Values
      /\ j.vals \in Bodies \union {NoBody} /\ j.logo \in Types \union {None}
  BY DEF TypeOK, Jobs
<1>2. Merge(cfg[j.tenant], j.vals) \in Values
  BY <1>1, MergeType
<1>3. [cfg[j.tenant] EXCEPT !.logo = j.logo] \in Values
  BY <1>1 DEF Values
<1>4. [cfg EXCEPT ![j.tenant] = Merge(@, j.vals)] \in [Tenants -> Values]
  BY <1>1, <1>2
<1>5. [cfg EXCEPT ![j.tenant].logo = j.logo] \in [Tenants -> Values]
  BY <1>1, <1>3
<1> QED BY <1>1, <1>4, <1>5 DEF Saved

LEMMA AspectTypes ==
  ASSUME SettingsAssumption, TypeOK, NEW op, NEW t \in Tenants, NEW vals
  PROVE  Touched(op, t, vals) \subseteq Aspects
BY DEF SettingsAssumption, Touched, If, Aspects

LEMMA CommittedJob ==
  ASSUME NEW j \in Jobs
  PROVE  Committed(j) \in Jobs /\ Committed(j).op = j.op /\ Committed(j).left = j.left
BY DEF Committed, Jobs

LEMMA StepInv ==
  ASSUME SettingsAssumption, Inv, NEW w \in Workers,
         Check(w) \/ Save(w) \/ Record(w) \/ Commit(w) \/ Read(w) \/ Plan(w) \/ File(w)
  PROVE  Inv'
<1> DEFINE j == job[w]
<1>0. /\ j # None /\ Head(j.left) # "lock" /\ UNCHANGED <<up, people, budget>>
  BY DEF Check, Save, Record, Commit, Read, Plan, File, At
<1>1. j \in Jobs /\ j.tenant \in Tenants /\ j.logo \in Types \union {None}
  BY <1>0, JobType DEF Jobs
<1>t. /\ cfg \in [Tenants -> Values] /\ seeded \in BOOLEAN /\ plan \in Crons \union {None}
      /\ files \in [Tenants -> SUBSET Types] /\ odd \subseteq Aspects
  BY DEF Inv, TypeOK
<1>g. ASSUME NEW k \in Jobs, k.op = j.op, k.left = j.left, Goes(w, k)
      PROVE  /\ job' \in [Workers -> Jobs \union {None}]
             /\ lock' \in Workers \union {None} /\ silent' \subseteq Ops
             /\ OnCourse' /\ Founded'
  <2>1. /\ job' \in [Workers -> Jobs \union {None}]
        /\ lock' \in Workers \union {None} /\ silent' \subseteq Ops
        /\ Others(w)
    BY <1>0, <1>g, GoesStep
  <2> QED BY <1>0, <2>1, CourseGoesOn
<1>e. ASSUME Ends(w, j)
      PROVE  /\ job' \in [Workers -> Jobs \union {None}]
             /\ lock' \in Workers \union {None} /\ silent' \subseteq Ops
             /\ OnCourse' /\ Founded'
  <2>1. /\ job' \in [Workers -> Jobs \union {None}]
        /\ lock' \in Workers \union {None} /\ silent' \subseteq Ops
        /\ Others(w)
    BY <1>0, <1>1, <1>e, EndsStep
  <2> QED BY <1>0, <2>1, CourseGoesOn
<1>q. ASSUME job' \in [Workers -> Jobs \union {None}],
             lock' \in Workers \union {None}, silent' \subseteq Ops,
             OnCourse', Founded',
             cfg' \in [Tenants -> Values], seeded' \in BOOLEAN, plan' \in Crons \union {None},
             files' \in [Tenants -> SUBSET Types], odd' \subseteq Aspects
      PROVE  Inv'
  BY <1>0, <1>q DEF Inv, TypeOK
<1>2. CASE Check(w)
  <2>1. Goes(w, j) \/ Ends(w, j)
    BY <1>2 DEF Check, Refused
  <2>2. UNCHANGED <<cfg, seeded, files, plan, odd>>
    BY <1>2 DEF Check, Refused
  <2> QED BY <1>1, <1>t, <1>g, <1>e, <1>q, <2>1, <2>2
<1>3. CASE Save(w)
  <2> DEFINE k == [j EXCEPT !.saved = TRUE]
  <2>1. k \in Jobs /\ k.op = j.op /\ k.left = j.left
    BY <1>1 DEF Jobs
  <2>2. Goes(w, Committed(k)) /\ cfg' = Saved(j) /\ UNCHANGED <<files, plan>>
    BY <1>3 DEF Save
  <2> HIDE DEF k
  <2>3. Committed(k) \in Jobs /\ Committed(k).op = j.op /\ Committed(k).left = j.left
    BY <2>1, CommittedJob
  <2>4. cfg' \in [Tenants -> Values]
    BY <1>1, <2>2, SavedType DEF Inv
  <2>5. seeded' \in BOOLEAN
    BY <1>3, <1>t DEF Save
  <2>6. odd' \subseteq Aspects
    BY <1>1, <1>3, <1>t DEF Save, ByHand, If, Aspects
  <2> QED BY <1>t, <1>g, <1>q, <2>2, <2>3, <2>4, <2>5, <2>6
<1>4. CASE Record(w)
  <2> DEFINE k == [j EXCEPT !.entry = "staged"]
  <2>1. k \in Jobs /\ k.op = j.op /\ k.left = j.left
    BY <1>1 DEF Jobs
  <2>2. Goes(w, k) /\ UNCHANGED <<cfg, seeded, files, plan, odd>>
    BY <1>4 DEF Record
  <2> HIDE DEF k
  <2> QED BY <1>t, <1>g, <1>q, <2>1, <2>2
<1>5. CASE Commit(w)
  <2>1. Goes(w, Committed(j)) /\ UNCHANGED <<cfg, seeded, files, plan, odd>>
    BY <1>5 DEF Commit
  <2>2. Committed(j) \in Jobs /\ Committed(j).op = j.op /\ Committed(j).left = j.left
    BY <1>1, CommittedJob
  <2> QED BY <1>t, <1>g, <1>q, <2>1, <2>2
<1>6. CASE Read(w)
  <2> DEFINE c == cfg[DrivenBy(j)].cron
             k == [j EXCEPT !.read = c]
  <2>1. c \in Crons
    BY <1>t DEF SettingsAssumption, DrivenBy, Values
  <2>2. k \in Jobs /\ k.op = j.op /\ k.left = j.left
    BY <1>1, <2>1 DEF Jobs
  <2>3. Goes(w, k) /\ UNCHANGED <<cfg, seeded, files, plan, odd>>
    BY <1>6 DEF Read
  <2> HIDE DEF k
  <2> QED BY <1>t, <1>g, <1>q, <2>2, <2>3
<1>7. CASE Plan(w)
  <2>1. Goes(w, j) /\ UNCHANGED <<cfg, seeded, files>> /\ odd' \subseteq odd
    BY <1>7 DEF Plan
  <2>2. plan' \in Crons \union {None}
    BY <1>7, <1>t DEF Plan, Crons
  <2> QED BY <1>1, <1>t, <1>g, <1>q, <2>1, <2>2
<1>8. CASE File(w)
  <2>1. Goes(w, j) /\ UNCHANGED <<cfg, seeded, plan, odd>>
    BY <1>8 DEF File
  <2>2. files' \in [Tenants -> SUBSET Types]
    BY <1>1, <1>8, <1>t DEF File
  <2> QED BY <1>1, <1>t, <1>g, <1>q, <2>1, <2>2
<1> QED BY <1>2, <1>3, <1>4, <1>5, <1>6, <1>7, <1>8

-----------------------------------------------------------------------------
(* A request begins, the setup creates, requests and the server die        *)

LEMMA RequestInv ==
  ASSUME SettingsAssumption, Inv, NEW w \in Workers, Request(w)
  PROVE  Inv'
<1>1. PICK op \in Ops, t \in Tenants, vals \in Bodies \union {NoBody}, logo \in Types \union {None} :
        Begin(w, op, t, vals, logo)
  BY DEF Request, Ops
<1> DEFINE mine == Touched(op, t, vals)
           clash == mine \intersect UNION {Touched(job[v].op, job[v].tenant, job[v].vals) : v \in Busy}
           new == [op |-> op, tenant |-> t, vals |-> vals, logo |-> logo,
                   left |-> Course(op, vals), saved |-> FALSE, entry |-> "none",
                   read |-> None, alone |-> mine \ clash]
           Passed(v) == [job[v] EXCEPT !.alone = @ \ mine]
<1>2. mine \subseteq Aspects /\ clash \subseteq mine
  BY AspectTypes DEF Inv
<1>3. /\ Course(op, vals) \in Seq(Steps)
      /\ op # "setup" => Course(op, vals) \in Seq(Usual) /\ Course(op, vals) # <<>>
      /\ op = "setup" => /\ Course(op, vals) \in Founding
                         /\ Head(Course(op, vals)) = "lock"
  <2>1. CASE op = "setup"
    <3>1. Course(op, vals) = <<"lock", "create", "record", "commit">>
      BY <2>1 DEF Course
    <3>2. Course(op, vals) \in Founding /\ Head(Course(op, vals)) = "lock"
      BY <3>1 DEF Founding
    <3> QED BY <2>1, <3>2, FoundingGoesOn
  <2>2. CASE op # "setup"
    <3>1. Course(op, vals) \in Seq(Usual) /\ Course(op, vals) # <<>>
      BY <2>2, CourseIsUsual
    <3>2. Usual \subseteq Steps
      BY DEF Usual
    <3> QED BY <2>2, <3>1, <3>2
  <2> QED BY <2>1, <2>2
<1>4. /\ up /\ job[w] = None /\ budget.requests < MaxRequests
      /\ job' = [v \in Workers |-> IF v = w THEN new ELSE IF v \in Busy THEN Passed(v) ELSE None]
      /\ odd' = odd \union clash
      /\ budget' = [budget EXCEPT !.requests = @ + 1]
      /\ UNCHANGED <<cfg, seeded, files, plan, up, people, lock, silent>>
  BY <1>1 DEF Begin, Request
<1>5. new \in Jobs /\ new.op = op /\ new.left = Course(op, vals)
  BY <1>2, <1>3 DEF Jobs
<1>6. ASSUME NEW v \in Busy
      PROVE  Passed(v) \in Jobs /\ Passed(v).op = job[v].op /\ Passed(v).left = job[v].left
  <2>1. job[v] \in Jobs
    BY JobType DEF Busy
  <2> QED BY <2>1 DEF Jobs
<1> HIDE DEF mine, clash, new, Passed
<1>7. /\ job' \in [Workers -> Jobs \union {None}] /\ job'[w] = new
      /\ \A v \in Busy' \ {w} : v \in Busy /\ job'[v] = Passed(v)
  <2>1. \A v \in Workers : job'[v] = IF v = w THEN new ELSE IF v \in Busy THEN Passed(v) ELSE None
    BY <1>4
  <2>2. job' \in [Workers -> Jobs \union {None}]
    BY <1>4, <1>5, <1>6
  <2> QED BY <2>1, <2>2 DEF Busy
<1>8. TypeOK'
  <2>1. odd' \subseteq Aspects
    BY <1>2, <1>4 DEF Inv, TypeOK
  <2>2. budget' \in [requests : 0..MaxRequests, faults : 0..MaxFaults]
    BY <1>4 DEF Inv, TypeOK, SettingsAssumption
  <2> QED BY <1>4, <1>7, <2>1, <2>2 DEF Inv, TypeOK
<1>9. OnCourse'
  BY <1>3, <1>4, <1>5, <1>6, <1>7 DEF Inv, OnCourse
<1>10. Founded'
  <2>1. Count' = Count
    BY <1>4 DEF Count
  <2> QED BY <1>3, <1>4, <1>5, <1>6, <1>7, <2>1 DEF Inv, Founded
<1> QED BY <1>8, <1>9, <1>10 DEF Inv

LEMMA FoundingInv ==
  ASSUME SettingsAssumption, Inv, NEW w \in Workers, Lock(w) \/ Create(w)
  PROVE  Inv'
<1> DEFINE j == job[w]
           k == [j EXCEPT !.left = Tail(@)]
<1>1. /\ j # None /\ w \in Busy /\ up /\ Head(j.left) \in {"lock", "create"}
      /\ UNCHANGED <<cfg, seeded, files, plan, up, budget, odd>>
  BY DEF Lock, Create, At, Busy
<1>2. /\ j \in Jobs /\ j.left # <<>> /\ Tail(j.left) \in Seq(Steps)
      /\ k \in Jobs /\ k.op = j.op /\ k.left = Tail(j.left)
  BY <1>1, JobType DEF Jobs
<1>3. j.op = "setup" /\ j.left \in Founding
  <2>1. ASSUME j.op # "setup" PROVE FALSE
    <3>1. j.left \in Seq(Usual) /\ j.left # <<>>
      BY <1>1, <2>1 DEF Inv, OnCourse
    <3>2. Head(j.left) \in Usual
      BY <3>1, UsualGoesOn
    <3> QED BY <1>1, <3>2 DEF Usual
  <2> QED BY <1>1, <2>1 DEF Inv, OnCourse
<1>p. people \in [{"superadmin", "admin"} -> Nat] /\ people["superadmin"] \in Nat /\ people["admin"] \in Nat
  BY DEF Inv, TypeOK
<1>4. CASE Lock(w)
  <2>1. CASE Ends(w, j) /\ UNCHANGED people
    <3>1. /\ job' \in [Workers -> Jobs \union {None}] /\ job'[w] = None
          /\ lock' \in Workers \union {None} /\ silent' \subseteq Ops
          /\ Others(w)
      BY <1>1, <1>2, <2>1, EndsStep DEF Ends, Inv, TypeOK
    <3>2. OnCourse' /\ Founded'
      BY <1>1, <2>1, <3>1, CourseGoesOn
    <3> QED BY <1>1, <2>1, <3>1, <3>2 DEF Inv, TypeOK
  <2>2. CASE /\ Count = 0 /\ Takes(w)
             /\ job' = [job EXCEPT ![w].left = Tail(@)] /\ UNCHANGED <<silent, people>>
    <3>1. lock = None /\ lock' = w /\ Count = 0 /\ Count' = 0
      BY <2>2 DEF Takes, Count
    <3>2. job' = [job EXCEPT ![w] = k]
      BY <2>2
    <3> HIDE DEF k
    <3>3. /\ job' \in [Workers -> Jobs \union {None}] /\ job'[w] = k
          /\ \A v \in Busy' \ {w} : v \in Busy /\ job'[v] = job[v]
      BY <1>2, <3>2 DEF Inv, TypeOK, Busy
    <3>4. k.left \in Founding
      <4>1. Head(j.left) = "lock"
        BY <1>4 DEF Lock, At
      <4> QED BY <1>2, <1>3, <4>1, FoundingGoesOn DEF Founding
    <3>5. TypeOK'
      BY <1>1, <2>2, <3>1, <3>3 DEF Inv, TypeOK
    <3>6. OnCourse'
      BY <1>1, <1>2, <1>3, <3>3, <3>4 DEF Inv, OnCourse
    <3>7. \A v \in Busy : ~(job[v].op = "setup" /\ Head(job[v].left) = "create")
      <4>1. \A v \in Busy : v # None
        BY DEF Busy, SettingsAssumption
      <4> QED BY <3>1, <4>1 DEF Inv, Founded
    <3>8. Founded'
      BY <3>1, <3>3, <3>7 DEF Founded
    <3> QED BY <3>5, <3>6, <3>8 DEF Inv
  <2> QED BY <1>4, <2>1, <2>2 DEF Lock
<1>5. CASE Create(w)
  <2> DEFINE c == [k EXCEPT !.saved = TRUE]
  <2>1. c \in Jobs /\ c.op = "setup" /\ c.left = Tail(j.left)
    BY <1>2, <1>3 DEF Jobs
  <2>2. Head(j.left) = "create" /\ lock = w /\ Count = 0
    <3>1. Head(j.left) = "create"
      BY <1>5 DEF Create, At
    <3> QED BY <1>1, <1>3, <3>1 DEF Inv, Founded
  <2>3. Tail(j.left) \in Founding /\ Head(Tail(j.left)) # "create"
    <3>1. Tail(j.left) # <<>>
      BY <1>3, <2>2, FoundingGoesOn
    <3> QED BY <1>3, <2>2, <3>1, FoundingGoesOn
  <2>4. job' = [job EXCEPT ![w] = c]
    BY <1>2, <1>5 DEF Create, Inv, TypeOK, Jobs
  <2>5. lock' = None /\ silent' = silent
    BY <1>5, <2>2 DEF Create, Free
  <2>6. /\ people' \in [{"superadmin", "admin"} -> Nat]
        /\ people'["superadmin"] = people["superadmin"] + 1 /\ people'["admin"] = people["admin"]
    BY <1>5, <1>p DEF Create
  <2>7. Count' = 1
    BY <1>p, <2>2, <2>6 DEF Count
  <2> HIDE DEF c, k
  <2>8. /\ job' \in [Workers -> Jobs \union {None}] /\ job'[w] = c
        /\ \A v \in Busy' \ {w} : v \in Busy /\ job'[v] = job[v]
    BY <2>1, <2>4 DEF Inv, TypeOK, Busy
  <2>9. TypeOK'
    BY <1>1, <2>5, <2>6, <2>8 DEF Inv, TypeOK
  <2>10. OnCourse'
    BY <1>1, <2>1, <2>3, <2>8 DEF Inv, OnCourse
  <2>11. \A v \in Busy \ {w} : ~(job[v].op = "setup" /\ Head(job[v].left) = "create")
    BY <2>2 DEF Inv, Founded
  <2>12. ASSUME NEW v \in Busy', job'[v].op = "setup", Head(job'[v].left) = "create" PROVE FALSE
    <3>1. CASE v = w
      BY <2>1, <2>3, <2>8, <2>12, <3>1
    <3>2. CASE v # w
      BY <2>8, <2>11, <2>12, <3>2
    <3> QED BY <3>1, <3>2
  <2>13. Founded'
    BY <2>7, <2>12 DEF Founded
  <2> QED BY <2>9, <2>10, <2>13 DEF Inv
<1> QED BY <1>4, <1>5

\* What is left of the files and in disorder has its types: whoever is at its file has a
\* tenant and a logo.
LEMMA BrokenOffTypes ==
  ASSUME SettingsAssumption, Inv, NEW S \in SUBSET Busy, BrokenOff(S)
  PROVE  /\ files' \in [Tenants -> SUBSET Types] /\ odd' \subseteq Aspects
         /\ odd \subseteq odd' /\ \A v \in S : HalfDone(job[v]) \subseteq odd'
<1>1. ASSUME NEW v \in S
      PROVE  /\ v \in Workers /\ job[v] # None /\ job[v] \in Jobs /\ job[v].tenant \in Tenants
             /\ job[v].logo \in Types \union {None} /\ HalfDone(job[v]) \subseteq Aspects
  <2>1. v \in Workers /\ job[v] # None
    BY DEF Busy
  <2>2. job[v] \in Jobs
    BY <2>1, JobType
  <2>3. job[v].tenant \in Tenants /\ job[v].logo \in Types \union {None}
    BY <2>2 DEF Jobs
  <2> QED BY <2>1, <2>2, <2>3, AspectTypes DEF HalfDone, Inv
<1>2. files \in [Tenants -> SUBSET Types] /\ odd \subseteq Aspects
  BY DEF Inv, TypeOK
<1>3. CASE UNCHANGED files /\ odd' = odd \union UNION {HalfDone(job[v]) : v \in S}
  BY <1>1, <1>2, <1>3
<1>4. ASSUME NEW w \in S, NEW rest \in {{}, {job[w].logo} \ {None}},
             files' = [files EXCEPT ![job[w].tenant] = rest],
             odd' = (odd \union UNION {HalfDone(job[v]) : v \in S})
                      \union {<<"logo", job[w].tenant>>}
      PROVE  /\ files' \in [Tenants -> SUBSET Types] /\ odd' \subseteq Aspects
             /\ odd \subseteq odd' /\ \A v \in S : HalfDone(job[v]) \subseteq odd'
  <2>1. rest \subseteq Types /\ job[w].tenant \in Tenants
    BY <1>1
  <2>2. files' \in [Tenants -> SUBSET Types]
    BY <1>2, <1>4, <2>1
  <2>3. <<"logo", job[w].tenant>> \in Aspects
    BY <2>1 DEF Aspects
  <2>4. odd' \subseteq Aspects
    BY <1>1, <1>2, <1>4, <2>3
  <2> QED BY <1>4, <2>2, <2>4
<1> QED BY <1>3, <1>4 DEF BrokenOff

\* Where files have changed, the logo is in disorder; one file is left at the most.
LEMMA BrokenOffFiles ==
  ASSUME SettingsAssumption, Inv, NEW S \in SUBSET Busy, BrokenOff(S), NEW t \in Tenants
  PROVE  \/ files'[t] = files[t]
         \/ /\ <<"logo", t>> \in odd' /\ \A x, y \in files'[t] : x = y
            /\ \E w \in S : At(w, "file") /\ t = job[w].tenant
<1>1. files \in [Tenants -> SUBSET Types]
  BY DEF Inv, TypeOK
<1> QED BY <1>1 DEF BrokenOff

LEMMA DiesInv ==
  ASSUME SettingsAssumption, Inv, NEW w \in Workers, Dies(w)
  PROVE  Inv'
<1>1. /\ job[w] # None /\ Ends(w, job[w]) /\ job[w] \in Jobs
      /\ budget.faults < MaxFaults /\ budget' = [budget EXCEPT !.faults = @ + 1]
      /\ w \in Busy /\ BrokenOff({w})
      /\ UNCHANGED <<cfg, seeded, plan, up, people>>
  BY JobType DEF Dies, Fault
<1>2. /\ job' \in [Workers -> Jobs \union {None}] /\ job'[w] = None
      /\ lock' \in Workers \union {None} /\ silent' \subseteq Ops
      /\ Others(w)
  BY <1>1, EndsStep DEF Ends, Inv, TypeOK
<1>3. files' \in [Tenants -> SUBSET Types] /\ odd' \subseteq Aspects
  BY <1>1, BrokenOffTypes
<1>4. TypeOK'
  <2>1. budget' \in [requests : 0..MaxRequests, faults : 0..MaxFaults]
    BY <1>1 DEF Inv, TypeOK, SettingsAssumption
  <2> QED BY <1>1, <1>2, <1>3, <2>1 DEF Inv, TypeOK
<1>5. OnCourse' /\ Founded'
  BY <1>1, <1>2, CourseGoesOn
<1> QED BY <1>4, <1>5 DEF Inv

LEMMA CrashInv == ASSUME SettingsAssumption, Inv, Crash PROVE Inv'
<1>1. /\ up' = FALSE /\ plan' = None /\ lock' = None /\ job' = [w \in Workers |-> None]
      /\ budget.faults < MaxFaults /\ budget' = [budget EXCEPT !.faults = @ + 1]
      /\ BrokenOff(Busy) /\ UNCHANGED <<cfg, seeded, people>>
  BY DEF Crash, Fault
<1>2. Busy' = {} /\ Count' = Count
  BY <1>1 DEF Busy, Count
<1>3. \A w \in Busy : job[w] \in Jobs
  BY JobType DEF Busy
<1>4. silent' \subseteq Ops
  BY <1>3 DEF Crash, Inv, TypeOK, Jobs
<1>5. files' \in [Tenants -> SUBSET Types] /\ odd' \subseteq Aspects
  BY <1>1, BrokenOffTypes
<1>6. TypeOK'
  <2>1. budget' \in [requests : 0..MaxRequests, faults : 0..MaxFaults]
    BY <1>1 DEF Inv, TypeOK, SettingsAssumption
  <2> QED BY <1>1, <1>4, <1>5, <2>1 DEF Inv, TypeOK
<1> QED BY <1>2, <1>6 DEF Inv, OnCourse, Founded

LEMMA BootInv ==
  ASSUME SettingsAssumption, Inv, NEW env \in Env, Boot(env)
  PROVE  Inv'
<1> DEFINE seed == IF seeded THEN cfg ELSE [cfg EXCEPT ![Default].cron = env.cron]
<1>1. /\ ~up /\ cfg' = seed /\ seeded' = TRUE
      /\ UNCHANGED <<files, lock, job, budget, silent>>
  BY DEF Boot
<1>2. env.cron \in Crons /\ Default \in Tenants
  BY DEF SettingsAssumption
<1>3. seed \in [Tenants -> Values]
  <2>1. cfg \in [Tenants -> Values] /\ cfg[Default] \in Values
    BY <1>2 DEF Inv, TypeOK
  <2>2. [cfg[Default] EXCEPT !.cron = env.cron] \in Values
    BY <1>2, <2>1 DEF Values
  <2> QED BY <2>1, <2>2
<1>4. /\ up' \in BOOLEAN /\ plan' \in Crons \union {None} /\ odd' \subseteq Aspects
  BY DEF Boot, Inv, TypeOK, Crons
<1>5. people' \in [{"superadmin", "admin"} -> Nat] /\ Count' <= 1
  <2>1. /\ people \in [{"superadmin", "admin"} -> Nat]
        /\ people["superadmin"] \in Nat /\ people["admin"] \in Nat
    BY DEF Inv, TypeOK
  <2>2. CASE people' = people
    BY <2>1, <2>2 DEF Inv, Founded, Count
  <2>3. CASE Count = 0 /\ people' = [people EXCEPT !["admin"] = 1]
    <3>1. /\ people' \in [{"superadmin", "admin"} -> Nat]
          /\ people'["superadmin"] = people["superadmin"] /\ people'["admin"] = 1
      BY <2>1, <2>3
    <3>2. people["superadmin"] = 0
      BY <2>1, <2>3 DEF Count
    <3> QED BY <3>1, <3>2 DEF Count
  <2> QED BY <2>2, <2>3 DEF Boot
<1>6. Busy = {} /\ Busy' = {}
  BY <1>1 DEF Inv, OnCourse, Busy
<1>7. TypeOK'
  <2> HIDE DEF seed
  <2> QED BY <1>1, <1>3, <1>4, <1>5 DEF Inv, TypeOK
<1> QED BY <1>5, <1>6, <1>7 DEF Inv, OnCourse, Founded

-----------------------------------------------------------------------------
(* Theorems                                                                *)

LEMMA InvNext == ASSUME SettingsAssumption, Inv, [Next]_vars PROVE Inv'
<1>1. CASE \E w \in Workers : Request(w)
  BY <1>1, RequestInv
<1>2. ASSUME NEW w \in Workers, Step(w) PROVE Inv'
  BY <1>2, StepInv, FoundingInv, DiesInv DEF Step
<1>3. CASE Crash
  BY <1>3, CrashInv
<1>4. CASE \E env \in Env : Boot(env)
  BY <1>4, BootInv
<1>5. CASE UNCHANGED vars
  BY <1>5 DEF vars, Inv, TypeOK, OnCourse, Founded, Busy, Count
<1> QED BY <1>1, <1>2, <1>3, <1>4, <1>5 DEF Next

(* Every row, file, job and request stays in its types, and each request   *)
(* on its course.                                                          *)
THEOREM SettingsTyped == ASSUME SettingsAssumption PROVE Spec => []TypeOK
<1>1. Inv => TypeOK
  BY DEF Inv
<1>2. Init => Inv
  BY InvInit
<1>3. Inv /\ [Next]_vars => Inv'
  BY InvNext
<1> QED BY <1>1, <1>2, <1>3, PTL DEF Spec

(* However many call the open setup at once, and whatever dies on the way, *)
(* it makes one account at the most, and so do the setup and the boot      *)
(* together (setup.py:82-86, seed.py:80).                                  *)
THEOREM OneFounderOnly == ASSUME SettingsAssumption PROVE Spec => []OneFounder
<1>1. Inv => OneFounder
  BY DEF Inv, Founded, OneFounder
<1>2. Init => Inv
  BY InvInit
<1>3. Inv /\ [Next]_vars => Inv'
  BY InvNext
<1> QED BY <1>1, <1>2, <1>3, PTL DEF Spec

-----------------------------------------------------------------------------
(* What is left of a course                                                *)

(* Every rest of every course.                                             *)
Ahead(op, vals) ==
  CASE op = "put" /\ Schedule(vals) ->
         {<<"check", "save", "record", "commit", "read", "plan">>,
          <<"save", "record", "commit", "read", "plan">>,
          <<"record", "commit", "read", "plan">>, <<"commit", "read", "plan">>,
          <<"read", "plan">>, <<"plan">>}
    [] op = "put" /\ ~Schedule(vals) ->
         {<<"check", "save", "record", "commit">>, <<"save", "record", "commit">>,
          <<"record", "commit">>, <<"commit">>}
    [] op \in {"upload", "clear"} ->
         {<<"file", "save", "record", "commit">>, <<"save", "record", "commit">>,
          <<"record", "commit">>, <<"commit">>}
    [] op = "mode" -> {<<"save", "record", "commit">>, <<"record", "commit">>, <<"commit">>}
    [] op = "reset" -> {<<"record", "save">>, <<"save">>}
    [] OTHER -> Founding

-----------------------------------------------------------------------------
(* The invariant of the four aspects                                       *)

Touches(w) == Touched(job[w].op, job[w].tenant, job[w].vals)
Alone(w) == job[w].alone

\* Nobody else is at an aspect that a request has for itself, and one that it shares is odd.
Sole(w) ==
  /\ Alone(w) \subseteq Touches(w)
  /\ Touches(w) \ Alone(w) \subseteq odd
  /\ \A v \in Busy \ {w} : Touches(v) \intersect Alone(w) = {}

\* A change is committed with its entry or before it, and the entry follows.
Entered(j) ==
  /\ Head(j.left) \in {"check", "save", "file", "lock", "create"} \/ j.op = "reset" => ~j.saved
  /\ Head(j.left) = "commit" \/ (j.op = "reset" /\ Head(j.left) = "save") => j.entry = "staged"
  /\ Head(j.left) \in {"read", "plan"} => j.entry = "kept"

\* What was checked, put on the disk or read still holds, as long as nobody else was at it.
Checked(w) ==
  job[w].op = "put" /\ Mail(job[w].vals) /\ Head(job[w].left) = "save"
    /\ <<"mail", job[w].tenant>> \in Alone(w) => Allowed(cfg[job[w].tenant], job[w].vals)
Filed(w) ==
  job[w].op \in {"upload", "clear"} /\ Head(job[w].left) = "save"
    /\ <<"logo", job[w].tenant>> \in Alone(w) => files[job[w].tenant] = {job[w].logo} \ {None}
AsRead(w) ==
  Head(job[w].left) = "plan" /\ <<"cron", Default>> \in Alone(w)
    => job[w].read = cfg[Default].cron

Prepared(w) ==
  /\ job[w].left \in Ahead(job[w].op, job[w].vals)
  /\ Entered(job[w]) /\ Sole(w) /\ Checked(w) /\ Filed(w) /\ AsRead(w)

\* What the settings say is so, or a request is on its way to make it so.
Stored ==
  \A t \in Tenants : <<"logo", t>> \notin odd =>
    \/ files[t] = {cfg[t].logo} \ {None}
    \/ \E w \in Busy : /\ job[w].op \in {"upload", "clear"} /\ job[w].tenant = t
                       /\ Head(job[w].left) = "save"
OneFile == \A t \in Tenants : \A x, y \in files[t] : x = y
Scheduled ==
  up /\ <<"cron", Default>> \notin odd /\ cfg[Default].cron \in Good =>
    \/ plan = cfg[Default].cron
    \/ \E w \in Busy : job[w].op = "put" /\ Schedule(job[w].vals) /\ job[w].saved

AspectsInv ==
  /\ \A w \in Busy : Prepared(w)
  /\ TlsRuleHolds /\ Stored /\ OneFile /\ Scheduled /\ AuditedOrDied

(* The three courses a PUT may be put together from.                       *)
LEMMA CheckedCourse ==
  <<"check">> \o <<"save", "record", "commit">> = <<"check", "save", "record", "commit">>
<1> DEFINE s == <<"check">>
           t == <<"save", "record", "commit">>
           u == s \o t
<1>1. s \in Seq(Steps) /\ t \in Seq(Steps) /\ Len(s) = 1 /\ Len(t) = 3
  BY DEF Steps
<1>2. u \in Seq(Steps) /\ Len(u) = 4
  BY <1>1, ConcatProperties
<1>3. \A i \in 1..4 : u[i] = IF i <= 1 THEN s[i] ELSE t[i - 1]
  BY <1>1, ConcatProperties
<1>4. u[1] = "check" /\ u[2] = "save" /\ u[3] = "record" /\ u[4] = "commit"
  BY <1>3
<1> HIDE DEF u
<1>5. u = <<"check", "save", "record", "commit">>
  BY <1>2, <1>4
<1> QED BY <1>5 DEF u

LEMMA PlanningCourse ==
  /\ <<"save", "record", "commit">> \o <<"read", "plan">>
       = <<"save", "record", "commit", "read", "plan">>
  /\ <<"check", "save", "record", "commit">> \o <<"read", "plan">>
       = <<"check", "save", "record", "commit", "read", "plan">>
<1> DEFINE s == <<"save", "record", "commit">>
           r == <<"check", "save", "record", "commit">>
           t == <<"read", "plan">>
           u == s \o t
           v == r \o t
<1>1. /\ s \in Seq(Steps) /\ r \in Seq(Steps) /\ t \in Seq(Steps)
      /\ Len(s) = 3 /\ Len(r) = 4 /\ Len(t) = 2
  BY DEF Steps
<1>2. u \in Seq(Steps) /\ Len(u) = 5 /\ v \in Seq(Steps) /\ Len(v) = 6
  BY <1>1, ConcatProperties
<1>3. \A i \in 1..5 : u[i] = IF i <= 3 THEN s[i] ELSE t[i - 3]
  BY <1>1, ConcatProperties
<1>4. \A i \in 1..6 : v[i] = IF i <= 4 THEN r[i] ELSE t[i - 4]
  BY <1>1, ConcatProperties
<1>5. u[1] = "save" /\ u[2] = "record" /\ u[3] = "commit" /\ u[4] = "read" /\ u[5] = "plan"
  BY <1>3
<1>6. /\ v[1] = "check" /\ v[2] = "save" /\ v[3] = "record" /\ v[4] = "commit"
      /\ v[5] = "read" /\ v[6] = "plan"
  BY <1>4
<1> HIDE DEF u, v
<1>7. u = <<"save", "record", "commit", "read", "plan">>
  BY <1>2, <1>5
<1>8. v = <<"check", "save", "record", "commit", "read", "plan">>
  BY <1>2, <1>6
<1> QED BY <1>7, <1>8 DEF u, v

LEMMA CourseAhead ==
  ASSUME NEW op \in Ops, NEW vals
  PROVE  /\ Course(op, vals) \in Ahead(op, vals)
         /\ Head(Course(op, vals)) \notin {"commit", "read", "plan"}
         /\ op = "put" /\ Mail(vals) => Head(Course(op, vals)) = "check"
         /\ op \in {"upload", "clear"} => Head(Course(op, vals)) = "file"
         /\ op = "reset" => Head(Course(op, vals)) = "record"
         /\ Head(Course(op, vals)) = "record" => op = "reset"
<1>1. CASE op = "put"
  <2> DEFINE a == IF Mail(vals) THEN <<"check">> ELSE <<>>
             c == IF Schedule(vals) THEN <<"read", "plan">> ELSE <<>>
  <2>1. Course(op, vals) = (a \o <<"save", "record", "commit">>) \o c
    BY <1>1 DEF Course
  <2> DEFINE u == <<"save", "record", "commit">>
             v == <<"check", "save", "record", "commit">>
  <2>n. <<>> \o u = u /\ u \o <<>> = u /\ v \o <<>> = v
    <3>1. u \in Seq(Steps) /\ v \in Seq(Steps)
      BY DEF Steps
    <3> QED BY <3>1, ConcatEmptySeq
  <2>2. CASE Mail(vals) /\ Schedule(vals)
    <3>1. a = <<"check">> /\ c = <<"read", "plan">>
      BY <2>2
    <3>2. Course(op, vals) = <<"check", "save", "record", "commit", "read", "plan">>
      BY <2>1, <3>1, CheckedCourse, PlanningCourse, <2>n
    <3> QED BY <1>1, <2>2, <3>2 DEF Ahead
  <2>3. CASE Mail(vals) /\ ~Schedule(vals)
    <3>1. a = <<"check">> /\ c = <<>>
      BY <2>3
    <3>2. Course(op, vals) = <<"check", "save", "record", "commit">>
      BY <2>1, <3>1, CheckedCourse, <2>n
    <3> QED BY <1>1, <2>3, <3>2 DEF Ahead
  <2>4. CASE ~Mail(vals) /\ Schedule(vals)
    <3>1. a = <<>> /\ c = <<"read", "plan">>
      BY <2>4
    <3>2. Course(op, vals) = <<"save", "record", "commit", "read", "plan">>
      BY <2>1, <3>1, CheckedCourse, PlanningCourse, <2>n
    <3> QED BY <1>1, <2>4, <3>2 DEF Ahead
  <2>5. CASE ~Mail(vals) /\ ~Schedule(vals)
    <3>1. a = <<>> /\ c = <<>>
      BY <2>5
    <3>2. Course(op, vals) = <<"save", "record", "commit">>
      BY <2>1, <3>1, CheckedCourse, <2>n
    <3> QED BY <1>1, <2>5, <3>2 DEF Ahead
  <2> QED BY <2>2, <2>3, <2>4, <2>5
<1>2. CASE op \in {"upload", "clear"}
  BY <1>2 DEF Course, Ahead
<1>3. CASE op = "mode"
  BY <1>3 DEF Course, Ahead
<1>4. CASE op = "reset"
  BY <1>4 DEF Course, Ahead, RecordThenSave
<1>5. CASE op = "setup"
  BY <1>5 DEF Course, Ahead, Founding
<1> QED BY <1>1, <1>2, <1>3, <1>4, <1>5 DEF Ops

(* What comes after each step.                                             *)
After(step, op, vals, rest) ==
  CASE step = "check" -> op = "put" /\ rest # <<>> /\ Head(rest) = "save"
    [] step = "save" -> /\ op # "setup"
                        /\ op = "reset" => rest = <<>>
                        /\ op # "reset" => rest # <<>> /\ Head(rest) = "record"
    [] step = "record" -> /\ rest # <<>>
                          /\ Head(rest) = IF op = "reset" THEN "save" ELSE "commit"
    [] step = "commit" -> /\ op # "reset"
                          /\ IF op = "put" /\ Schedule(vals)
                             THEN rest # <<>> /\ Head(rest) = "read" ELSE rest = <<>>
    [] step = "read" -> /\ op = "put" /\ Schedule(vals)
                        /\ rest # <<>> /\ Head(rest) = "plan"
    [] step = "plan" -> op = "put" /\ Schedule(vals) /\ rest = <<>>
    [] step = "file" -> op \in {"upload", "clear"} /\ rest # <<>> /\ Head(rest) = "save"
    [] step = "lock" -> op = "setup" /\ rest # <<>> /\ Head(rest) = "create"
    [] step = "create" -> op = "setup" /\ rest # <<>> /\ Head(rest) = "record"

LEMMA AheadGoesOn ==
  ASSUME NEW op \in Ops, NEW vals, NEW s \in Ahead(op, vals)
  PROVE  /\ s # <<>> /\ Head(s) \in Steps /\ Tail(s) \in Ahead(op, vals) \union {<<>>}
         /\ After(Head(s), op, vals, Tail(s))
<1> DEFINE Fine(seq) == /\ seq # <<>> /\ Head(seq) \in Steps
                        /\ Tail(seq) \in Ahead(op, vals) \union {<<>>}
                        /\ After(Head(seq), op, vals, Tail(seq))
<1>1. CASE op = "put" /\ Schedule(vals)
  <2>1. CASE s = <<"check", "save", "record", "commit", "read", "plan">>
    <3>1. Tail(s) = <<"save", "record", "commit", "read", "plan">>
      BY <2>1
    <3> QED BY <1>1, <2>1, <3>1 DEF Ahead, After, Steps
  <2>2. CASE s = <<"save", "record", "commit", "read", "plan">>
    <3>1. Tail(s) = <<"record", "commit", "read", "plan">>
      BY <2>2
    <3> QED BY <1>1, <2>2, <3>1 DEF Ahead, After, Steps
  <2>3. CASE s = <<"record", "commit", "read", "plan">>
    <3>1. Tail(s) = <<"commit", "read", "plan">>
      BY <2>3
    <3> QED BY <1>1, <2>3, <3>1 DEF Ahead, After, Steps
  <2>4. CASE s = <<"commit", "read", "plan">>
    <3>1. Tail(s) = <<"read", "plan">>
      BY <2>4
    <3> QED BY <1>1, <2>4, <3>1 DEF Ahead, After, Steps
  <2>5. CASE s = <<"read", "plan">>
    <3>1. Tail(s) = <<"plan">>
      BY <2>5
    <3> QED BY <1>1, <2>5, <3>1 DEF Ahead, After, Steps
  <2>6. CASE s = <<"plan">>
    <3>1. Tail(s) = <<>>
      BY <2>6
    <3> QED BY <1>1, <2>6, <3>1 DEF Ahead, After, Steps
  <2> QED BY <1>1, <2>1, <2>2, <2>3, <2>4, <2>5, <2>6 DEF Ahead
\* The last two steps of everybody else but the reset.
<1>2. ASSUME op # "reset", ~(op = "put" /\ Schedule(vals)), <<"commit">> \in Ahead(op, vals),
             s \in {<<"record", "commit">>, <<"commit">>}
      PROVE  Fine(s)
  <2>1. CASE s = <<"record", "commit">>
    <3>1. Tail(s) = <<"commit">>
      BY <2>1
    <3> QED BY <1>2, <2>1, <3>1 DEF After, Steps
  <2>2. CASE s = <<"commit">>
    <3>1. Tail(s) = <<>>
      BY <2>2
    <3> QED BY <1>2, <2>2, <3>1 DEF After, Steps
  <2> QED BY <1>2, <2>1, <2>2
<1>3. CASE (op = "put" /\ ~Schedule(vals)) \/ op \in {"upload", "clear", "mode"}
  <2>1. CASE s = <<"save", "record", "commit">>
    <3>1. Tail(s) = <<"record", "commit">>
      BY <2>1
    <3> QED BY <1>3, <2>1, <3>1 DEF Ahead, After, Steps
  <2>2. CASE s = <<"check", "save", "record", "commit">> /\ op = "put"
    <3>1. Tail(s) = <<"save", "record", "commit">>
      BY <2>2
    <3> QED BY <1>3, <2>2, <3>1 DEF Ahead, After, Steps
  <2>3. CASE s = <<"file", "save", "record", "commit">> /\ op \in {"upload", "clear"}
    <3>1. Tail(s) = <<"save", "record", "commit">>
      BY <2>3
    <3> QED BY <1>3, <2>3, <3>1 DEF Ahead, After, Steps
  <2>4. /\ <<"commit">> \in Ahead(op, vals)
        /\ \/ s \in {<<"record", "commit">>, <<"commit">>, <<"save", "record", "commit">>}
           \/ s = <<"check", "save", "record", "commit">> /\ op = "put"
           \/ s = <<"file", "save", "record", "commit">> /\ op \in {"upload", "clear"}
    BY <1>3 DEF Ahead
  <2> QED BY <1>2, <1>3, <2>1, <2>2, <2>3, <2>4
<1>4. CASE op = "reset"
  <2>1. CASE s = <<"record", "save">>
    <3>1. Tail(s) = <<"save">>
      BY <2>1
    <3> QED BY <1>4, <2>1, <3>1 DEF Ahead, After, Steps
  <2>2. CASE s = <<"save">>
    <3>1. Tail(s) = <<>>
      BY <2>2
    <3> QED BY <1>4, <2>2, <3>1 DEF After, Steps
  <2> QED BY <1>4, <2>1, <2>2 DEF Ahead
<1>5. CASE op = "setup"
  <2>1. CASE s = <<"lock", "create", "record", "commit">>
    <3>1. Tail(s) = <<"create", "record", "commit">>
      BY <2>1
    <3> QED BY <1>5, <2>1, <3>1 DEF Ahead, After, Steps, Founding
  <2>2. CASE s = <<"create", "record", "commit">>
    <3>1. Tail(s) = <<"record", "commit">>
      BY <2>2
    <3> QED BY <1>5, <2>2, <3>1 DEF Ahead, After, Steps, Founding
  <2>3. <<"commit">> \in Ahead(op, vals)
    BY <1>5 DEF Ahead, Founding
  <2> QED BY <1>2, <1>5, <2>1, <2>2, <2>3 DEF Ahead, Founding
<1> QED BY <1>1, <1>3, <1>4, <1>5 DEF Ops

-----------------------------------------------------------------------------
(* What a step does to its request                                         *)

\* It ends as it is.
Dropped(w) ==
  /\ job'[w] = None
  /\ silent' = IF job[w].saved /\ job[w].entry # "kept" THEN silent \union {job[w].op} ELSE silent

\* It goes on, or ends with its last step.
Moved(w, saved, entry, read) ==
  LET rest == Tail(job[w].left) IN
  \/ /\ rest = <<>> /\ job'[w] = None
     /\ silent' = IF saved /\ entry # "kept" THEN silent \union {job[w].op} ELSE silent
  \/ /\ rest # <<>> /\ job'[w] # None /\ silent' = silent
     /\ job'[w].op = job[w].op /\ job'[w].tenant = job[w].tenant /\ job'[w].vals = job[w].vals
     /\ job'[w].logo = job[w].logo /\ job'[w].alone = job[w].alone
     /\ job'[w].left = rest
     /\ job'[w].saved = saved /\ job'[w].entry = entry /\ job'[w].read = read

AsCommitted(entry) == IF entry = "staged" THEN "kept" ELSE entry
Unmoved(w) == Moved(w, job[w].saved, job[w].entry, job[w].read)

LEMMA GoesMoves ==
  ASSUME SettingsAssumption, Inv, NEW w \in Workers, job[w] # None,
         NEW k \in Jobs, k.op = job[w].op, k.tenant = job[w].tenant, k.vals = job[w].vals,
         k.logo = job[w].logo, k.alone = job[w].alone, k.left = job[w].left, Goes(w, k)
  PROVE  Moved(w, k.saved, k.entry, k.read) /\ \A v \in Workers \ {w} : job'[v] = job[v]
<1> DEFINE n == [k EXCEPT !.left = Tail(@)]
<1>1. /\ n \in Jobs /\ n.left = Tail(job[w].left)
      /\ n.op = k.op /\ n.tenant = k.tenant /\ n.vals = k.vals /\ n.logo = k.logo
      /\ n.alone = k.alone /\ n.saved = k.saved /\ n.entry = k.entry /\ n.read = k.read
  BY JobType DEF Jobs
<1>2. job \in [Workers -> Jobs \union {None}] /\ None \notin Jobs
  BY DEF Inv, TypeOK, SettingsAssumption
<1>3. CASE n.left = <<>>
  <2>1. Ends(w, n)
    BY <1>3 DEF Goes
  <2> HIDE DEF n
  <2> QED BY <1>1, <1>2, <1>3, <2>1 DEF Ends, Moved
<1>4. CASE n.left # <<>>
  <2>1. job' = [job EXCEPT ![w] = n] /\ silent' = silent
    BY <1>4 DEF Goes
  <2> HIDE DEF n
  <2> QED BY <1>1, <1>2, <1>4, <2>1 DEF Moved
<1> QED BY <1>3, <1>4

LEMMA StepShape ==
  ASSUME SettingsAssumption, Inv, NEW w \in Workers, Step(w),
         job[w].left \in Ahead(job[w].op, job[w].vals)
  PROVE  /\ job[w] \in Jobs /\ job[w] # None /\ w \in Busy /\ up /\ up' = up
         /\ \A v \in Workers \ {w} : job'[v] = job[v]
         /\ Dies(w) => Dropped(w)
         /\ Check(w) => Unmoved(w) \/ (Dropped(w) /\ odd' = odd)
         /\ Save(w) => Moved(w, TRUE, AsCommitted(job[w].entry), job[w].read)
         /\ Record(w) => Moved(w, job[w].saved, "staged", job[w].read)
         /\ Commit(w) => Moved(w, job[w].saved, AsCommitted(job[w].entry), job[w].read)
         /\ Read(w) => Moved(w, job[w].saved, job[w].entry, cfg[Default].cron)
         /\ Plan(w) \/ File(w) => Unmoved(w)
         /\ Lock(w) => Unmoved(w) \/ Dropped(w)
         /\ Create(w) => Moved(w, TRUE, job[w].entry, job[w].read)
<1> DEFINE j == job[w]
           Same == \A v \in Workers \ {w} : job'[v] = job[v]
<1>1. /\ j # None /\ up /\ up' = up
  BY DEF Step, Check, Save, Record, Commit, Read, Plan, File, Lock, Create, Dies, At, Fault
<1>2. /\ j \in Jobs /\ w \in Busy /\ job \in [Workers -> Jobs \union {None}] /\ None \notin Jobs
      /\ j.op \in Ops
  BY <1>1, JobType DEF Inv, TypeOK, SettingsAssumption, Jobs
<1>3. ASSUME Ends(w, j) PROVE Dropped(w) /\ Same
  BY <1>2, <1>3 DEF Ends, Dropped
<1>4. ASSUME Goes(w, j) PROVE Unmoved(w) /\ Same
  BY <1>1, <1>2, <1>4, GoesMoves DEF Unmoved
<1>5. Dies(w) => Dropped(w) /\ Same
  BY <1>3 DEF Dies
<1>6. Check(w) => (Unmoved(w) \/ (Dropped(w) /\ odd' = odd)) /\ Same
  BY <1>3, <1>4 DEF Check, Refused
<1>7. ASSUME NEW k \in Jobs, k.op = j.op, k.tenant = j.tenant, k.vals = j.vals,
             k.logo = j.logo, k.alone = j.alone, k.left = j.left, Goes(w, Committed(k))
      PROVE  Moved(w, k.saved, AsCommitted(k.entry), k.read) /\ Same
  <2> DEFINE c == Committed(k)
  <2>1. /\ c \in Jobs /\ c.op = j.op /\ c.tenant = j.tenant /\ c.vals = j.vals
        /\ c.logo = j.logo /\ c.alone = j.alone /\ c.left = j.left
        /\ c.saved = k.saved /\ c.entry = AsCommitted(k.entry) /\ c.read = k.read
    BY <1>7 DEF Committed, AsCommitted, Jobs
  <2> HIDE DEF c
  <2>2. Goes(w, c)
    BY <1>7 DEF c
  <2>3. Moved(w, c.saved, c.entry, c.read) /\ Same
    BY <1>1, <2>1, <2>2, GoesMoves
  <2> QED BY <2>1, <2>3
<1>8. Save(w) => Moved(w, TRUE, AsCommitted(j.entry), j.read) /\ Same
  <2> DEFINE k == [j EXCEPT !.saved = TRUE]
  <2>1. /\ k \in Jobs /\ k.op = j.op /\ k.tenant = j.tenant /\ k.vals = j.vals
        /\ k.logo = j.logo /\ k.alone = j.alone /\ k.left = j.left
        /\ k.saved = TRUE /\ k.entry = j.entry /\ k.read = j.read
    BY <1>2 DEF Jobs
  <2>2. Save(w) => Goes(w, Committed(k))
    BY DEF Save
  <2> HIDE DEF k
  <2>3. Save(w) => Moved(w, k.saved, AsCommitted(k.entry), k.read) /\ Same
    BY <1>7, <2>1, <2>2
  <2> QED BY <2>1, <2>3
<1>9. Record(w) => Moved(w, j.saved, "staged", j.read) /\ Same
  <2> DEFINE k == [j EXCEPT !.entry = "staged"]
  <2>1. /\ k \in Jobs /\ k.op = j.op /\ k.tenant = j.tenant /\ k.vals = j.vals
        /\ k.logo = j.logo /\ k.alone = j.alone /\ k.left = j.left
        /\ k.saved = j.saved /\ k.entry = "staged" /\ k.read = j.read
    BY <1>2 DEF Jobs
  <2>2. Record(w) => Goes(w, k)
    BY DEF Record
  <2> HIDE DEF k
  <2>3. Record(w) => Moved(w, k.saved, k.entry, k.read) /\ Same
    BY <1>1, <2>1, <2>2, GoesMoves
  <2> QED BY <2>1, <2>3
<1>10. Commit(w) => Moved(w, j.saved, AsCommitted(j.entry), j.read) /\ Same
  BY <1>2, <1>7 DEF Commit
<1>11. Read(w) => Moved(w, j.saved, j.entry, cfg[Default].cron) /\ Same
  <2> DEFINE c == cfg[Default].cron
             k == [j EXCEPT !.read = c]
  <2>1. c \in Crons
    BY DEF Inv, TypeOK, SettingsAssumption, Values
  <2>2. Read(w) => Goes(w, k)
    BY DEF Read, DrivenBy
  <2> HIDE DEF c
  <2>3. /\ k \in Jobs /\ k.op = j.op /\ k.tenant = j.tenant /\ k.vals = j.vals
        /\ k.logo = j.logo /\ k.alone = j.alone /\ k.left = j.left
        /\ k.saved = j.saved /\ k.entry = j.entry /\ k.read = c
    BY <1>2, <2>1 DEF Jobs
  <2> HIDE DEF k
  <2>4. Read(w) => Moved(w, k.saved, k.entry, k.read) /\ Same
    BY <1>1, <2>2, <2>3, GoesMoves
  <2> QED BY <2>3, <2>4 DEF c
<1>12. Plan(w) \/ File(w) => Unmoved(w) /\ Same
  BY <1>4 DEF Plan, File
<1>13. ASSUME Lock(w) \/ Create(w)
       PROVE  j.left # <<>> /\ Tail(j.left) # <<>>
  <2>1. Head(j.left) \in {"lock", "create"}
    BY <1>13 DEF Lock, Create, At
  <2> QED BY <1>2, <2>1, AheadGoesOn DEF After
<1> DEFINE k == [j EXCEPT !.left = Tail(@)]
<1>14. /\ k \in Jobs /\ k.op = j.op /\ k.tenant = j.tenant /\ k.vals = j.vals
       /\ k.logo = j.logo /\ k.alone = j.alone /\ k.left = Tail(j.left)
       /\ k.saved = j.saved /\ k.entry = j.entry /\ k.read = j.read
  BY <1>1, <1>2, JobType DEF Jobs
<1>15. Lock(w) => (Unmoved(w) \/ Dropped(w)) /\ Same
  <2>1. CASE job' = [job EXCEPT ![w].left = Tail(@)] /\ silent' = silent /\ Lock(w)
    <3>1. job' = [job EXCEPT ![w] = k]
      BY <2>1
    <3> HIDE DEF k
    <3> QED BY <1>2, <1>13, <1>14, <2>1, <3>1 DEF Unmoved, Moved
  <2> QED BY <1>3, <2>1 DEF Lock
<1>16. Create(w) => Moved(w, TRUE, j.entry, j.read) /\ Same
  <2> SUFFICES ASSUME Create(w) PROVE Moved(w, TRUE, j.entry, j.read) /\ Same
    OBVIOUS
  <2> DEFINE c == [k EXCEPT !.saved = TRUE]
  <2>1. job' = [job EXCEPT ![w] = c] /\ silent' = silent
    BY <1>2 DEF Create, Jobs
  <2> HIDE DEF k
  <2>2. /\ c \in Jobs /\ c.op = j.op /\ c.tenant = j.tenant /\ c.vals = j.vals
        /\ c.logo = j.logo /\ c.alone = j.alone /\ c.left = Tail(j.left)
        /\ c.saved = TRUE /\ c.entry = j.entry /\ c.read = j.read
    BY <1>14 DEF Jobs
  <2> HIDE DEF c
  <2> QED BY <1>2, <1>13, <2>1, <2>2 DEF Moved
<1> HIDE DEF Same
<1>17. Same
  BY <1>5, <1>6, <1>8, <1>9, <1>10, <1>11, <1>12, <1>15, <1>16 DEF Step
<1> QED BY <1>1, <1>2, <1>5, <1>6, <1>8, <1>9, <1>10, <1>11, <1>12, <1>15, <1>16, <1>17 DEF Same

-----------------------------------------------------------------------------
(* What a step does to the settings, the files, the job and the aspects    *)

LEMMA StepKeeps ==
  ASSUME SettingsAssumption, Inv, AspectsInv, NEW w \in Workers, Step(w), NEW v \in Busy'
  PROVE  /\ v \in Busy /\ Touches(v)' = Touches(v) /\ Alone(v)' = Alone(v)
         /\ job'[v].op = job[v].op /\ job'[v].tenant = job[v].tenant
         /\ job'[v].vals = job[v].vals /\ job'[v].logo = job[v].logo
         /\ v # w => job'[v] = job[v]
         /\ v = w => job'[v].left = Tail(job[v].left) /\ Tail(job[v].left) # <<>>
<1>1. w \in Busy /\ job[w].left \in Ahead(job[w].op, job[w].vals)
  <2>1. w \in Busy
    BY DEF Step, Check, Save, Record, Commit, Read, Plan, File, Lock, Create, Dies, At, Busy
  <2> QED BY <2>1 DEF AspectsInv, Prepared
<1>2. v \in Workers /\ job'[v] # None
  BY DEF Busy
<1>3. CASE v = w
  <2>1. \E saved, entry, read : Moved(w, saved, entry, read)
    BY <1>1, <1>2, <1>3, StepShape DEF Step, Dropped, Unmoved
  <2> QED BY <1>1, <1>2, <1>3, <2>1 DEF Moved, Touches, Alone
<1>4. CASE v # w
  <2>1. job'[v] = job[v]
    BY <1>1, <1>2, <1>4, StepShape
  <2> QED BY <1>2, <1>4, <2>1 DEF Busy, Touches, Alone
<1> QED BY <1>3, <1>4

\* The entry of a request that goes on, and of one that ends.
LEMMA EnteredStep ==
  ASSUME SettingsAssumption, Inv, AspectsInv, NEW w \in Workers, Step(w)
  PROVE  /\ w \in Busy' => /\ job'[w].left \in Ahead(job'[w].op, job'[w].vals)
                           /\ Entered(job'[w])
         /\ AuditedOrDied'
<1> DEFINE j == job[w]
           rest == Tail(j.left)
<1>1. w \in Busy /\ j.left \in Ahead(j.op, j.vals) /\ Entered(j)
  <2>1. w \in Busy
    BY DEF Step, Check, Save, Record, Commit, Read, Plan, File, Lock, Create, Dies, At, Busy
  <2> QED BY <2>1 DEF AspectsInv, Prepared
<1>2. j.op \in Ops /\ j \in Jobs /\ j.saved \in BOOLEAN
  BY <1>1, StepShape DEF Jobs
<1>3. /\ rest \in Ahead(j.op, j.vals) \union {<<>>}
      /\ After(Head(j.left), j.op, j.vals, rest)
      /\ rest # <<>> => Head(rest) \in Steps
  BY <1>1, <1>2, AheadGoesOn
<1>4. ASSUME NEW saved \in BOOLEAN, NEW entry, NEW read, Moved(w, saved, entry, read),
             rest = <<>> => ~saved \/ entry = "kept",
             rest # <<>> =>
               /\ Head(rest) \in {"check", "save", "file", "lock", "create"} \/ j.op = "reset"
                    => ~saved
               /\ Head(rest) = "commit" \/ (j.op = "reset" /\ Head(rest) = "save")
                    => entry = "staged"
               /\ Head(rest) \in {"read", "plan"} => entry = "kept"
      PROVE  /\ w \in Busy' => /\ job'[w].left \in Ahead(job'[w].op, job'[w].vals)
                               /\ Entered(job'[w])
             /\ silent' = silent
  BY <1>3, <1>4 DEF Moved, Busy, Entered
<1>5. AuditedOrDied
  BY DEF AspectsInv
<1>6. ASSUME silent' = silent, budget' = budget PROVE AuditedOrDied'
  BY <1>5, <1>6 DEF AuditedOrDied
<1>7. ASSUME Dropped(w), ~j.saved
      PROVE  w \notin Busy' /\ silent' = silent
  BY <1>7 DEF Dropped, Busy
<1>8. CASE Check(w)
  <2>1. Head(j.left) = "check" /\ budget' = budget
    BY <1>8 DEF Check, At
  <2> QED BY <1>1, <1>2, <1>3, <1>4, <1>6, <1>7, <1>8, <2>1, StepShape DEF After, Entered, Unmoved
<1>9. CASE Save(w)
  <2>1. Head(j.left) = "save" /\ budget' = budget
    BY <1>9 DEF Save, At
  <2>2. Moved(w, TRUE, AsCommitted(j.entry), j.read)
    BY <1>1, <1>9, StepShape
  <2>3. j.op = "reset" => AsCommitted(j.entry) = "kept"
    BY <1>1, <2>1 DEF Entered, AsCommitted
  <2> QED BY <1>3, <1>4, <1>6, <2>1, <2>2, <2>3 DEF After
<1>10. CASE Record(w)
  <2>1. Head(j.left) = "record" /\ budget' = budget
    BY <1>10 DEF Record, At
  <2>2. Moved(w, j.saved, "staged", j.read)
    BY <1>1, <1>10, StepShape
  <2> QED BY <1>1, <1>2, <1>3, <1>4, <1>6, <2>1, <2>2 DEF After, Entered
<1>11. CASE Commit(w)
  <2>1. Head(j.left) = "commit" /\ budget' = budget
    BY <1>11 DEF Commit, At
  <2>2. Moved(w, j.saved, AsCommitted(j.entry), j.read)
    BY <1>1, <1>11, StepShape
  <2>3. AsCommitted(j.entry) = "kept"
    BY <1>1, <2>1 DEF Entered, AsCommitted
  <2> QED BY <1>1, <1>2, <1>3, <1>4, <1>6, <2>1, <2>2, <2>3 DEF After, Entered
<1>12. CASE Read(w)
  <2>1. Head(j.left) = "read" /\ budget' = budget
    BY <1>12 DEF Read, At
  <2>2. Moved(w, j.saved, j.entry, cfg[Default].cron)
    BY <1>1, <1>12, StepShape
  <2> QED BY <1>1, <1>2, <1>3, <1>4, <1>6, <2>1, <2>2 DEF After, Entered
<1>13. CASE Plan(w) \/ File(w)
  <2>1. Head(j.left) \in {"plan", "file"} /\ budget' = budget
    BY <1>13 DEF Plan, File, At
  <2>2. Moved(w, j.saved, j.entry, j.read)
    BY <1>1, <1>13, StepShape DEF Unmoved
  <2> QED BY <1>1, <1>2, <1>3, <1>4, <1>6, <2>1, <2>2 DEF After, Entered
<1>14. CASE Lock(w)
  <2>1. Head(j.left) = "lock" /\ budget' = budget
    BY <1>14 DEF Lock, At
  <2> QED BY <1>1, <1>2, <1>3, <1>4, <1>6, <1>7, <1>14, <2>1, StepShape DEF After, Entered, Unmoved
<1>15. CASE Create(w)
  <2>1. Head(j.left) = "create" /\ budget' = budget
    BY <1>15 DEF Create, At
  <2>2. Moved(w, TRUE, j.entry, j.read)
    BY <1>1, <1>15, StepShape
  <2> QED BY <1>1, <1>2, <1>3, <1>4, <1>6, <2>1, <2>2 DEF After, Entered
<1>16. CASE Dies(w)
  <2>1. budget'.faults > 0
    BY <1>16 DEF Dies, Fault, Inv, TypeOK
  <2>2. Dropped(w)
    BY <1>1, <1>16, StepShape
  <2>3. "reset" \notin silent'
    BY <1>1, <1>5, <2>2 DEF Dropped, Entered, AuditedOrDied
  <2> QED BY <2>1, <2>2, <2>3 DEF AuditedOrDied, Dropped, Busy
<1> QED BY <1>8, <1>9, <1>10, <1>11, <1>12, <1>13, <1>14, <1>15, <1>16 DEF Step

\* What is no longer odd, its request alone has put right.
LEMMA OddStep ==
  ASSUME SettingsAssumption, Inv, AspectsInv, NEW w \in Workers, Step(w)
  PROVE  /\ odd \ Alone(w) \subseteq odd'
         /\ \A t : <<"mail", t>> \in odd \ odd' =>
              Save(w) /\ job[w].op = "put" /\ Mail(job[w].vals) /\ t = job[w].tenant
         /\ \A t : <<"logo", t>> \in odd \ odd' =>
              Save(w) /\ job[w].op \in {"upload", "clear"} /\ t = job[w].tenant
         /\ \A t : <<"cron", t>> \in odd \ odd' => Plan(w) /\ t = Default
<1> DEFINE j == job[w]
<1>1. Alone(w) \subseteq Touches(w)
  <2>1. w \in Busy
    BY DEF Step, Check, Save, Record, Commit, Read, Plan, File, Lock, Create, Dies, At, Busy
  <2> QED BY <2>1 DEF AspectsInv, Prepared, Sole
<1>2. CASE Check(w) \/ Record(w) \/ Commit(w) \/ Read(w) \/ File(w) \/ Lock(w) \/ Create(w) \/ Dies(w)
  <2>1. odd \subseteq odd'
    <3>1. CASE Dies(w)
      <4>1. w \in Busy /\ BrokenOff({w})
        BY <3>1 DEF Dies, Busy
      <4> QED BY <4>1, BrokenOffTypes
    <3> QED BY <1>2, <3>1 DEF Check, Refused, Record, Commit, Read, File, Lock, Create
  <2> QED BY <2>1
<1>3. CASE Save(w)
  <2>1. odd' = (odd \ (Alone(w) \intersect ({"mail", "logo"} \X Tenants))) \union ByHand(j)
    BY <1>3 DEF Save, Alone
  <2>2. ASSUME NEW t, <<"mail", t>> \in Touches(w)
        PROVE  j.op = "put" /\ Mail(j.vals) /\ t = j.tenant
    BY <2>2 DEF Touches, Touched, If
  <2>3. ASSUME NEW t, <<"logo", t>> \in Touches(w)
        PROVE  t = j.tenant /\ (j.op \in {"upload", "clear"} \/ (j.op = "put" /\ Branding(j.vals)))
    BY <2>3 DEF Touches, Touched, If
  <2>4. j.op = "put" /\ Branding(j.vals) => <<"logo", j.tenant>> \in odd'
    BY <2>1 DEF ByHand, If
  <2>5. \A t : <<"cron", t>> \notin {"mail", "logo"} \X Tenants
    OBVIOUS
  <2> QED BY <1>1, <1>3, <2>1, <2>2, <2>3, <2>4, <2>5
<1>4. CASE Plan(w)
  <2>1. odd' = odd \ (Alone(w) \intersect {<<"cron", Default>>})
    BY <1>4 DEF Plan, Alone
  <2> QED BY <1>4, <2>1
<1> QED BY <1>2, <1>3, <1>4 DEF Step

\* What a step writes to the row of a tenant concerns an aspect that it touches.
LEMMA CfgStep ==
  ASSUME SettingsAssumption, Inv, NEW w \in Workers, Step(w), job[w] \in Jobs,
         NEW t \in Tenants
  PROVE  /\ \/ cfg'[t].host = cfg[t].host /\ cfg'[t].tls = cfg[t].tls
            \/ /\ Save(w) /\ job[w].op = "put" /\ Mail(job[w].vals) /\ t = job[w].tenant
               /\ cfg'[t] = Merge(cfg[t], job[w].vals)
         /\ \/ cfg'[t].logo = cfg[t].logo
            \/ /\ Save(w) /\ job[w].op \in {"upload", "clear"} /\ t = job[w].tenant
               /\ cfg'[t].logo = job[w].logo
            \/ <<"logo", t>> \in odd'
         /\ \/ cfg'[t].cron = cfg[t].cron
            \/ Save(w) /\ job[w].op = "put" /\ Schedule(job[w].vals) /\ t = job[w].tenant
         /\ \/ files'[t] = files[t]
            \/ File(w) /\ t = job[w].tenant /\ files'[t] = {job[w].logo} \ {None}
            \/ /\ Dies(w) /\ At(w, "file") /\ t = job[w].tenant /\ <<"logo", t>> \in odd'
               /\ \A x, y \in files'[t] : x = y
         /\ plan' = plan \/ Plan(w)
<1> DEFINE j == job[w]
<1>1. cfg \in [Tenants -> Values] /\ j.tenant \in Tenants /\ cfg[t] \in Values
  BY DEF Inv, TypeOK, Jobs
<1>2. plan' = plan \/ Plan(w)
  BY DEF Step, Check, Refused, Save, Record, Commit, Read, File, Lock, Create, Dies
<1>3. \/ files'[t] = files[t]
      \/ File(w) /\ t = j.tenant /\ files'[t] = {j.logo} \ {None}
      \/ /\ Dies(w) /\ At(w, "file") /\ t = j.tenant /\ <<"logo", t>> \in odd'
         /\ \A x, y \in files'[t] : x = y
  <2>1. CASE File(w)
    BY <2>1 DEF File, Directory
  <2>2. CASE Dies(w)
    <3>1. w \in Busy /\ BrokenOff({w})
      BY <2>2 DEF Dies, Busy
    <3> QED BY <2>2, <3>1, BrokenOffFiles
  <2> QED BY <2>1, <2>2 DEF Step, Check, Refused, Save, Record, Commit, Read, Plan, Lock, Create
<1>4. cfg' = cfg \/ (Save(w) /\ cfg' = Saved(j))
  BY DEF Step, Check, Refused, Save, Record, Commit, Read, Plan, File, Lock, Create, Dies
<1>5. CASE Save(w) /\ cfg' = [cfg EXCEPT ![j.tenant] = Merge(@, j.vals)] /\ j.op = "put"
  <2>1. CASE t = j.tenant
    <3>1. cfg'[t] = Merge(cfg[t], j.vals)
      BY <1>1, <1>5, <2>1
    <3>2. /\ "host" \notin DOMAIN j.vals => cfg'[t].host = cfg[t].host
          /\ "tls" \notin DOMAIN j.vals => cfg'[t].tls = cfg[t].tls
          /\ "cron" \notin DOMAIN j.vals => cfg'[t].cron = cfg[t].cron
          /\ "logo" \notin DOMAIN j.vals => cfg'[t].logo = cfg[t].logo
      BY <1>1, <3>1 DEF Merge, Values
    <3>3. Branding(j.vals) => <<"logo", t>> \in odd'
      BY <1>5, <2>1 DEF Save, ByHand, If
    <3> QED BY <1>2, <1>3, <1>5, <2>1, <3>1, <3>2, <3>3 DEF Mail, Schedule, Branding
  <2>2. CASE t # j.tenant
    BY <1>1, <1>2, <1>3, <1>5, <2>2
  <2> QED BY <2>1, <2>2
<1>6. CASE /\ Save(w) /\ cfg' = [cfg EXCEPT ![j.tenant].logo = j.logo]
           /\ j.op \in {"upload", "clear"}
  <2>1. CASE t = j.tenant
    <3>1. cfg'[t] = [cfg[t] EXCEPT !.logo = j.logo]
      BY <1>1, <1>6, <2>1
    <3>2. /\ cfg'[t].host = cfg[t].host /\ cfg'[t].tls = cfg[t].tls
          /\ cfg'[t].cron = cfg[t].cron /\ cfg'[t].logo = j.logo
      BY <1>1, <3>1 DEF Values
    <3> QED BY <1>2, <1>3, <1>6, <2>1, <3>2
  <2>2. CASE t # j.tenant
    BY <1>1, <1>2, <1>3, <1>6, <2>2
  <2> QED BY <2>1, <2>2
<1>7. CASE cfg' = cfg
  BY <1>2, <1>3, <1>7
<1> QED BY <1>4, <1>5, <1>6, <1>7 DEF Saved

\* Two rows with the same host and encryption are allowed the same changes.
LEMMA AllowedAlike ==
  ASSUME NEW r \in Values, NEW s \in Values, r.host = s.host, r.tls = s.tls,
         NEW vals, Allowed(r, vals)
  PROVE  Allowed(s, vals)
BY DEF Allowed, Merge, Values

-----------------------------------------------------------------------------
(* Each part of the invariant is kept by a step                            *)

LEMMA SoleStep ==
  ASSUME SettingsAssumption, Inv, AspectsInv, NEW w \in Workers, Step(w), NEW v \in Busy'
  PROVE  Sole(v)'
<1>1. w \in Busy
  BY DEF Step, Check, Save, Record, Commit, Read, Plan, File, Lock, Create, Dies, At, Busy
<1>2. v \in Busy /\ Touches(v)' = Touches(v) /\ Alone(v)' = Alone(v)
  BY StepKeeps
<1>3. Sole(v) /\ Sole(w)
  BY <1>1, <1>2 DEF AspectsInv, Prepared
<1>4. Touches(v) \ Alone(v) \subseteq odd'
  <2>1. odd \ Alone(w) \subseteq odd'
    BY OddStep
  <2>2. v # w => Touches(v) \intersect Alone(w) = {}
    BY <1>2, <1>3 DEF Sole
  <2> QED BY <1>3, <2>1, <2>2 DEF Sole
<1>5. ASSUME NEW u \in Busy', u # v PROVE Touches(u)' \intersect Alone(v) = {}
  BY <1>3, <1>5, StepKeeps DEF Sole
<1> QED BY <1>2, <1>3, <1>4, <1>5 DEF Sole

LEMMA CheckedStep ==
  ASSUME SettingsAssumption, Inv, AspectsInv, NEW w \in Workers, Step(w), NEW v \in Busy'
  PROVE  Checked(v)'
<1> DEFINE t == job[v].tenant
<1>0. w \in Busy /\ v \in Busy /\ job[v] \in Jobs /\ job[w] \in Jobs /\ t \in Tenants
  <2>1. w \in Busy
    BY DEF Step, Check, Save, Record, Commit, Read, Plan, File, Lock, Create, Dies, At, Busy
  <2> QED BY <2>1, StepKeeps, JobType DEF Busy, Jobs
<1>1. /\ job'[v].op = job[v].op /\ job'[v].tenant = t /\ job'[v].vals = job[v].vals
      /\ Alone(v)' = Alone(v)
  BY StepKeeps
<1>2. SUFFICES ASSUME job[v].op = "put", Mail(job[v].vals), Head(job'[v].left) = "save",
                      <<"mail", t>> \in Alone(v)
               PROVE  Allowed(cfg'[t], job[v].vals)
  BY <1>1 DEF Checked
<1>3. Prepared(v)
  BY <1>0 DEF AspectsInv
<1>4. CASE v # w
  <2>1. Allowed(cfg[t], job[v].vals)
    BY <1>2, <1>3, <1>4, StepKeeps DEF Prepared, Checked
  <2>2. <<"mail", t>> \notin Touches(w)
    BY <1>0, <1>2, <1>3, <1>4 DEF Prepared, Sole
  <2>3. ~(job[w].op = "put" /\ Mail(job[w].vals) /\ t = job[w].tenant)
    BY <2>2 DEF Touches, Touched, If
  <2>4. cfg'[t].host = cfg[t].host /\ cfg'[t].tls = cfg[t].tls
    BY <1>0, <2>3, CfgStep
  <2>5. cfg[t] \in Values /\ cfg'[t] \in Values
    BY <1>0, InvNext DEF Inv, TypeOK, Next
  <2> QED BY <2>1, <2>4, <2>5, AllowedAlike
<1>5. CASE v = w
  <2>1. /\ job'[v].left = Tail(job[v].left) /\ Tail(job[v].left) # <<>>
        /\ After(Head(job[v].left), job[v].op, job[v].vals, Tail(job[v].left))
        /\ Head(job[v].left) \in Steps
    BY <1>0, <1>3, <1>5, StepKeeps, AheadGoesOn DEF Prepared, Jobs
  <2>2. Head(job[v].left) = "check"
    BY <1>2, <2>1 DEF After, Steps
  <2>3. job'[w] # None
    BY <1>5 DEF Busy
  <2>4. Check(w)
    <3>1. ~Dies(w)
      BY <1>0, <2>3, StepShape DEF AspectsInv, Prepared, Dropped
    <3> QED BY <1>5, <2>2, <3>1
          DEF Step, Save, Record, Commit, Read, Plan, File, Lock, Create, At
  <2>5. ~Ends(w, job[w])
    BY <2>3 DEF Ends, Inv, TypeOK
  <2> QED BY <1>5, <2>4, <2>5 DEF Check, Refused
<1> QED BY <1>4, <1>5

LEMMA FiledStep ==
  ASSUME SettingsAssumption, Inv, AspectsInv, NEW w \in Workers, Step(w), NEW v \in Busy'
  PROVE  Filed(v)'
<1> DEFINE t == job[v].tenant
<1>0. w \in Busy /\ v \in Busy /\ job[v] \in Jobs /\ job[w] \in Jobs /\ t \in Tenants
  <2>1. w \in Busy
    BY DEF Step, Check, Save, Record, Commit, Read, Plan, File, Lock, Create, Dies, At, Busy
  <2> QED BY <2>1, StepKeeps, JobType DEF Busy, Jobs
<1>1. /\ job'[v].op = job[v].op /\ job'[v].tenant = t /\ job'[v].logo = job[v].logo
      /\ Alone(v)' = Alone(v)
  BY StepKeeps
<1>2. SUFFICES ASSUME job[v].op \in {"upload", "clear"}, Head(job'[v].left) = "save",
                      <<"logo", t>> \in Alone(v)
               PROVE  files'[t] = {job[v].logo} \ {None}
  BY <1>1 DEF Filed
<1>3. Prepared(v) /\ Prepared(w)
  BY <1>0 DEF AspectsInv
<1>4. CASE v # w
  <2>1. files[t] = {job[v].logo} \ {None}
    BY <1>2, <1>3, <1>4, StepKeeps DEF Prepared, Filed
  <2>2. <<"logo", t>> \notin Touches(w)
    BY <1>0, <1>2, <1>3, <1>4 DEF Prepared, Sole
  <2>3. ~(At(w, "file") /\ t = job[w].tenant)
    <3>1. ASSUME At(w, "file") PROVE job[w].op \in {"upload", "clear"}
      <4>1. Head(job[w].left) = "file"
        BY <3>1 DEF At
      <4>2. After(Head(job[w].left), job[w].op, job[w].vals, Tail(job[w].left))
        BY <1>0, <1>3, AheadGoesOn DEF Prepared, Jobs
      <4> QED BY <4>1, <4>2 DEF After
    <3> QED BY <2>2, <3>1 DEF Touches, Touched, If
  <2> QED BY <1>0, <2>1, <2>3, CfgStep DEF File
<1>5. CASE v = w
  <2>1. /\ job'[v].left = Tail(job[v].left) /\ Tail(job[v].left) # <<>>
        /\ After(Head(job[v].left), job[v].op, job[v].vals, Tail(job[v].left))
        /\ Head(job[v].left) \in Steps
    BY <1>0, <1>3, <1>5, StepKeeps, AheadGoesOn DEF Prepared, Jobs
  <2>2. Head(job[v].left) = "file"
    BY <1>2, <2>1 DEF After, Steps
  <2>3. File(w)
    <3>1. ~Dies(w)
      BY <1>0, <1>3, <1>5, StepShape DEF Prepared, Dropped, Busy
    <3> QED BY <1>5, <2>2, <3>1
          DEF Step, Check, Save, Record, Commit, Read, Plan, Lock, Create, At
  <2> QED BY <1>0, <1>5, <2>3 DEF File
<1> QED BY <1>4, <1>5

LEMMA AsReadStep ==
  ASSUME SettingsAssumption, Inv, AspectsInv, NEW w \in Workers, Step(w), NEW v \in Busy'
  PROVE  AsRead(v)'
<1>0. /\ w \in Busy /\ v \in Busy /\ job[v] \in Jobs /\ job[w] \in Jobs
      /\ Default \in Tenants
  <2>1. w \in Busy
    BY DEF Step, Check, Save, Record, Commit, Read, Plan, File, Lock, Create, Dies, At, Busy
  <2> QED BY <2>1, StepKeeps, JobType DEF Busy, SettingsAssumption
<1>1. Alone(v)' = Alone(v)
  BY StepKeeps
<1>2. SUFFICES ASSUME Head(job'[v].left) = "plan", <<"cron", Default>> \in Alone(v)
               PROVE  job'[v].read = cfg'[Default].cron
  BY <1>1 DEF AsRead
<1>3. Prepared(v) /\ Prepared(w)
  BY <1>0 DEF AspectsInv
<1>4. CASE v # w
  <2>1. job'[v].read = cfg[Default].cron
    BY <1>2, <1>3, <1>4, StepKeeps DEF Prepared, AsRead
  <2>2. <<"cron", Default>> \notin Touches(w)
    BY <1>0, <1>2, <1>3, <1>4 DEF Prepared, Sole
  <2>3. ~(job[w].op = "put" /\ Schedule(job[w].vals))
    BY <2>2 DEF Touches, Touched, If
  <2> QED BY <1>0, <2>1, <2>3, CfgStep
<1>5. CASE v = w
  <2>1. /\ job'[v].left = Tail(job[v].left) /\ Tail(job[v].left) # <<>>
        /\ After(Head(job[v].left), job[v].op, job[v].vals, Tail(job[v].left))
        /\ Head(job[v].left) \in Steps
    BY <1>0, <1>3, <1>5, StepKeeps, AheadGoesOn DEF Prepared, Jobs
  <2>2. Head(job[v].left) = "read"
    BY <1>2, <2>1 DEF After, Steps
  <2>3. Read(w)
    <3>1. ~Dies(w)
      BY <1>0, <1>3, <1>5, StepShape DEF Prepared, Dropped, Busy
    <3> QED BY <1>5, <2>2, <3>1
          DEF Step, Check, Save, Record, Commit, Plan, File, Lock, Create, At
  <2>4. Moved(w, job[w].saved, job[w].entry, cfg[Default].cron)
    BY <1>3, <2>3, StepShape DEF Prepared
  <2>5. cfg' = cfg
    BY <2>3 DEF Read
  <2> QED BY <1>5, <2>1, <2>4, <2>5 DEF Moved
<1> QED BY <1>4, <1>5

LEMMA TlsRuleStep ==
  ASSUME SettingsAssumption, Inv, AspectsInv, NEW w \in Workers, Step(w)
  PROVE  TlsRuleHolds'
<1>0. w \in Busy /\ job[w] \in Jobs
  <2>1. w \in Busy
    BY DEF Step, Check, Save, Record, Commit, Read, Plan, File, Lock, Create, Dies, At, Busy
  <2> QED BY <2>1, JobType DEF Busy
<1>1. SUFFICES ASSUME NEW t \in Tenants, <<"mail", t>> \notin odd'
               PROVE  cfg'[t].tls = "none" => cfg'[t].host # "external"
  BY DEF TlsRuleHolds
<1>2. Prepared(w) /\ TlsRuleHolds
  BY <1>0 DEF AspectsInv
<1>3. CASE Save(w) /\ job[w].op = "put" /\ Mail(job[w].vals) /\ t = job[w].tenant
  <2>1. <<"mail", t>> \in Touches(w)
    BY <1>3 DEF Touches, Touched, If
  <2>2. <<"mail", t>> \in Alone(w)
    BY <1>1, <1>2, <2>1, OddStep DEF Prepared, Sole
  <2>3. Head(job[w].left) = "save"
    BY <1>3 DEF Save, At
  <2>4. Allowed(cfg[t], job[w].vals)
    BY <1>2, <1>3, <2>2, <2>3 DEF Prepared, Checked
  <2>5. cfg'[t] = Merge(cfg[t], job[w].vals)
    BY <1>0, <1>3 DEF Save, Saved, Inv, TypeOK, Jobs
  <2> QED BY <2>4, <2>5 DEF Allowed
<1>4. CASE ~(Save(w) /\ job[w].op = "put" /\ Mail(job[w].vals) /\ t = job[w].tenant)
  <2>1. cfg'[t].host = cfg[t].host /\ cfg'[t].tls = cfg[t].tls
    BY <1>0, <1>4, CfgStep
  <2>2. <<"mail", t>> \notin odd
    BY <1>1, <1>4, OddStep
  <2> QED BY <1>2, <2>1, <2>2 DEF TlsRuleHolds
<1> QED BY <1>3, <1>4

LEMMA StoredStep ==
  ASSUME SettingsAssumption, Inv, AspectsInv, NEW w \in Workers, Step(w)
  PROVE  Stored'
<1>0. w \in Busy /\ job[w] \in Jobs
  <2>1. w \in Busy
    BY DEF Step, Check, Save, Record, Commit, Read, Plan, File, Lock, Create, Dies, At, Busy
  <2> QED BY <2>1, JobType DEF Busy
<1> DEFINE Storing(t) == \E u \in Busy' : /\ job'[u].op \in {"upload", "clear"}
                                          /\ job'[u].tenant = t
                                          /\ Head(job'[u].left) = "save"
           Fine(t) == files'[t] = {cfg'[t].logo} \ {None} \/ Storing(t)
<1>1. SUFFICES ASSUME NEW t \in Tenants, <<"logo", t>> \notin odd' PROVE Fine(t)
  BY DEF Stored
<1>2. Prepared(w) /\ Stored
  BY <1>0 DEF AspectsInv
\* The row of an upload is written by somebody who has put its file there.
<1>3. CASE Save(w) /\ job[w].op \in {"upload", "clear"} /\ t = job[w].tenant
  <2>1. <<"logo", t>> \in Touches(w)
    BY <1>3 DEF Touches, Touched, If
  <2>2. <<"logo", t>> \in Alone(w)
    BY <1>1, <1>2, <2>1, OddStep DEF Prepared, Sole
  <2>3. Head(job[w].left) = "save" /\ files' = files
    BY <1>3 DEF Save, At
  <2>4. files[t] = {job[w].logo} \ {None}
    BY <1>2, <1>3, <2>2, <2>3 DEF Prepared, Filed
  <2>5. cfg'[t].logo = job[w].logo
    <3>1. cfg' = [cfg EXCEPT ![t].logo = job[w].logo] /\ cfg[t] \in Values
             /\ cfg \in [Tenants -> Values]
      BY <1>0, <1>3 DEF Save, Saved, Inv, TypeOK, Jobs
    <3> QED BY <3>1 DEF Values
  <2> QED BY <2>3, <2>4, <2>5
<1>4. CASE File(w) /\ t = job[w].tenant
  <2>1. Head(job[w].left) = "file" /\ Unmoved(w)
    BY <1>2, <1>4, StepShape DEF File, At, Prepared
  <2>2. After(Head(job[w].left), job[w].op, job[w].vals, Tail(job[w].left))
    BY <1>0, <1>2, AheadGoesOn DEF Prepared, Jobs
  <2>3. /\ job[w].op \in {"upload", "clear"} /\ Tail(job[w].left) # <<>>
        /\ Head(Tail(job[w].left)) = "save"
    BY <2>1, <2>2 DEF After
  <2>4. /\ w \in Busy' /\ job'[w].op = job[w].op /\ job'[w].tenant = t
        /\ Head(job'[w].left) = "save"
    BY <1>4, <2>1, <2>3 DEF Unmoved, Moved, Busy
  <2> QED BY <2>3, <2>4
<1>5. CASE /\ ~(Save(w) /\ job[w].op \in {"upload", "clear"} /\ t = job[w].tenant)
           /\ ~(File(w) /\ t = job[w].tenant)
  <2>1. cfg'[t].logo = cfg[t].logo /\ files'[t] = files[t] /\ <<"logo", t>> \notin odd
    BY <1>0, <1>1, <1>5, CfgStep, OddStep
  <2>2. CASE files[t] = {cfg[t].logo} \ {None}
    BY <2>1, <2>2
  <2>3. ASSUME NEW u \in Busy, job[u].op \in {"upload", "clear"}, job[u].tenant = t,
               Head(job[u].left) = "save"
        PROVE  Storing(t)
    <3>1. CASE u = w
      <4>1. Dies(w)
        BY <1>5, <2>3, <3>1
           DEF Step, Check, Save, Record, Commit, Read, Plan, File, Lock, Create, At
      <4>2. ~job[w].saved
        BY <1>2, <2>3, <3>1 DEF Prepared, Entered
      <4>3. <<"logo", t>> \in HalfDone(job[w])
        BY <2>3, <3>1, <4>2 DEF HalfDone, Touched, If
      <4>4. BrokenOff({w})
        BY <4>1 DEF Dies
      <4> QED BY <1>0, <1>1, <4>3, <4>4, BrokenOffTypes
    <3>2. CASE u # w
      <4>1. job'[u] = job[u] /\ u \in Workers /\ job[u] # None
        BY <1>2, <2>3, <3>2, StepShape DEF Prepared, Busy
      <4> QED BY <2>3, <4>1 DEF Busy
    <3> QED BY <3>1, <3>2
  <2> QED BY <1>2, <2>1, <2>2, <2>3 DEF Stored
<1> QED BY <1>3, <1>4, <1>5

LEMMA OneFileStep ==
  ASSUME SettingsAssumption, Inv, AspectsInv, NEW w \in Workers, Step(w)
  PROVE  OneFile'
<1>1. job[w] \in Jobs
  <2>1. job[w] # None
    BY DEF Step, Check, Save, Record, Commit, Read, Plan, File, Lock, Create, Dies, At
  <2> QED BY <2>1, JobType
<1>2. ASSUME NEW t \in Tenants PROVE \A x, y \in files'[t] : x = y
  <2>1. \/ files'[t] = files[t] \/ files'[t] = {job[w].logo} \ {None}
        \/ \A x, y \in files'[t] : x = y
    BY <1>1, CfgStep
  <2> QED BY <2>1 DEF AspectsInv, OneFile
<1> QED BY <1>2 DEF OneFile

LEMMA ScheduledStep ==
  ASSUME SettingsAssumption, Inv, AspectsInv, NEW w \in Workers, Step(w)
  PROVE  Scheduled'
<1> DEFINE c == <<"cron", Default>>
           Planning == \E u \in Busy' : /\ job'[u].op = "put" /\ Schedule(job'[u].vals)
                                        /\ job'[u].saved
<1>0. w \in Busy /\ job[w] \in Jobs /\ Default \in Tenants
  <2>1. w \in Busy
    BY DEF Step, Check, Save, Record, Commit, Read, Plan, File, Lock, Create, Dies, At, Busy
  <2> QED BY <2>1, JobType DEF Busy, SettingsAssumption
<1>1. SUFFICES ASSUME up', c \notin odd', cfg'[Default].cron \in Good
               PROVE  plan' = cfg'[Default].cron \/ Planning
  BY DEF Scheduled
<1>2. Prepared(w) /\ Scheduled /\ up
  BY <1>0, StepShape DEF AspectsInv, Prepared
<1>3. After(Head(job[w].left), job[w].op, job[w].vals, Tail(job[w].left))
  BY <1>0, <1>2, AheadGoesOn DEF Prepared, Jobs
<1>4. CASE Plan(w)
  <2>1. Head(job[w].left) = "plan" /\ cfg' = cfg
    BY <1>4 DEF Plan, At
  <2>2. c \in Touches(w)
    BY <1>3, <2>1 DEF After, Touches, Touched, If
  <2>3. c \in Alone(w)
    BY <1>1, <1>2, <2>2, OddStep DEF Prepared, Sole
  <2>4. job[w].read = cfg[Default].cron
    BY <1>2, <2>1, <2>3 DEF Prepared, AsRead
  <2> QED BY <1>1, <1>4, <2>1, <2>4 DEF Plan
<1>5. CASE ~Plan(w)
  <2>1. c \notin odd /\ plan' = plan
    BY <1>0, <1>1, <1>5, CfgStep, OddStep
  <2>2. CASE cfg'[Default].cron # cfg[Default].cron
    <3>1. Save(w) /\ job[w].op = "put" /\ Schedule(job[w].vals)
      BY <1>0, <2>2, CfgStep
    <3>2. Head(job[w].left) = "save"
      BY <3>1 DEF Save, At
    <3>3. Tail(job[w].left) # <<>>
      BY <1>3, <3>1, <3>2 DEF After
    <3>4. Moved(w, TRUE, AsCommitted(job[w].entry), job[w].read)
      BY <1>2, <3>1, StepShape DEF Prepared
    <3> QED BY <1>0, <3>1, <3>3, <3>4 DEF Moved, Busy
  <2>3. CASE cfg'[Default].cron = cfg[Default].cron
    <3>1. ASSUME NEW u \in Busy, job[u].op = "put", Schedule(job[u].vals), job[u].saved
          PROVE  Planning
      <4>1. CASE u # w
        <5>1. job'[u] = job[u] /\ u \in Workers /\ job[u] # None
          BY <1>2, <3>1, <4>1, StepShape DEF Prepared, Busy
        <5> QED BY <3>1, <5>1 DEF Busy
      <4>2. CASE u = w /\ Dies(w)
        <5>1. c \in HalfDone(job[w])
          BY <3>1, <4>2 DEF HalfDone, Touched, If
        <5>2. BrokenOff({w})
          BY <4>2 DEF Dies
        <5> QED BY <1>0, <1>1, <5>1, <5>2, BrokenOffTypes
      <4>3. CASE u = w /\ ~Dies(w)
        <5>1. Head(job[w].left) \notin {"check", "file", "lock", "create"}
          BY <1>2, <3>1, <4>3 DEF Prepared, Entered
        <5>2. Save(w) \/ Record(w) \/ Commit(w) \/ Read(w)
          BY <1>5, <4>3, <5>1 DEF Step, Check, File, Lock, Create, At
        <5>3. Head(job[w].left) \in {"save", "record", "commit", "read"}
          BY <5>2 DEF Save, Record, Commit, Read, At
        <5>4. Tail(job[w].left) # <<>>
          BY <1>3, <3>1, <4>3, <5>3 DEF After
        <5>5. \E entry, read : Moved(w, TRUE, entry, read)
          BY <1>0, <1>2, <3>1, <4>3, <5>2, StepShape DEF Prepared, Jobs
        <5> QED BY <1>0, <3>1, <4>3, <5>4, <5>5 DEF Moved, Busy
      <4> QED BY <4>1, <4>2, <4>3
    <3> QED BY <1>1, <1>2, <2>1, <2>3, <3>1 DEF Scheduled
  <2> QED BY <2>2, <2>3
<1> QED BY <1>4, <1>5

LEMMA StepAspects ==
  ASSUME SettingsAssumption, Inv, AspectsInv, NEW w \in Workers, Step(w)
  PROVE  AspectsInv'
<1>1. ASSUME NEW v \in Busy' PROVE Prepared(v)'
  <2>1. job'[v].left \in Ahead(job'[v].op, job'[v].vals) /\ Entered(job'[v])
    <3>1. CASE v = w
      BY <1>1, <3>1, EnteredStep
    <3>2. CASE v # w
      BY <1>1, <3>2, StepKeeps DEF AspectsInv, Prepared
    <3> QED BY <3>1, <3>2
  <2> QED BY <1>1, <2>1, SoleStep, CheckedStep, FiledStep, AsReadStep DEF Prepared
<1> QED BY <1>1, EnteredStep, TlsRuleStep, StoredStep, OneFileStep, ScheduledStep DEF AspectsInv

-----------------------------------------------------------------------------
(* ... and by everything else                                              *)

LEMMA RequestAspects ==
  ASSUME SettingsAssumption, Inv, AspectsInv, NEW w \in Workers, Request(w)
  PROVE  AspectsInv'
<1>1. PICK op \in Ops, t \in Tenants, vals \in Bodies \union {NoBody}, logo \in Types \union {None} :
        Begin(w, op, t, vals, logo)
  BY DEF Request, Ops
<1> DEFINE mine == Touched(op, t, vals)
           clash == mine \intersect UNION {Touched(job[v].op, job[v].tenant, job[v].vals) : v \in Busy}
           new == [op |-> op, tenant |-> t, vals |-> vals, logo |-> logo,
                   left |-> Course(op, vals), saved |-> FALSE, entry |-> "none",
                   read |-> None, alone |-> mine \ clash]
           Passed(v) == [job[v] EXCEPT !.alone = @ \ mine]
<1>2. /\ job[w] = None /\ budget' = [budget EXCEPT !.requests = @ + 1]
      /\ job' = [v \in Workers |-> IF v = w THEN new ELSE IF v \in Busy THEN Passed(v) ELSE None]
      /\ odd' = odd \union clash
      /\ UNCHANGED <<cfg, files, plan, up, silent>>
  BY <1>1 DEF Begin, Request
<1>3. /\ new.op = op /\ new.tenant = t /\ new.vals = vals /\ new.logo = logo /\ ~new.saved
      /\ new.left = Course(op, vals) /\ new.alone = mine \ clash
  OBVIOUS
<1>4. ASSUME NEW v \in Busy
      PROVE  /\ Passed(v) \in Jobs /\ Passed(v) # None
             /\ Passed(v).op = job[v].op /\ Passed(v).tenant = job[v].tenant
             /\ Passed(v).vals = job[v].vals /\ Passed(v).logo = job[v].logo
             /\ Passed(v).left = job[v].left /\ Passed(v).saved = job[v].saved
             /\ Passed(v).entry = job[v].entry /\ Passed(v).read = job[v].read
             /\ Passed(v).alone = job[v].alone \ mine
  <2>1. job[v] \in Jobs
    BY JobType DEF Busy
  <2>2. Passed(v) \in Jobs
    BY <2>1 DEF Jobs
  <2> QED BY <2>1, <2>2 DEF Jobs, SettingsAssumption
<1>5. \A v \in Busy : Touches(v) \intersect mine \subseteq clash
  BY DEF Touches
<1> HIDE DEF clash, new, Passed
<1>6. clash \subseteq mine
  BY DEF clash
<1>7. /\ job'[w] = new /\ w \notin Busy
      /\ \A v \in Busy : v \in Busy' /\ job'[v] = Passed(v)
      /\ \A v \in Busy' : v = w \/ v \in Busy
  BY <1>2, <1>4 DEF Busy
<1>8. Touches(w)' = mine /\ Alone(w)' = mine \ clash
  BY <1>3, <1>7 DEF Touches, Alone
<1>9. \A v \in Busy : Touches(v)' = Touches(v) /\ Alone(v)' = Alone(v) \ mine
  BY <1>4, <1>7 DEF Touches, Alone
<1> HIDE DEF mine
<1>10. Prepared(w)'
  <2>1. /\ Course(op, vals) \in Ahead(op, vals)
        /\ Head(Course(op, vals)) \notin {"commit", "read", "plan"}
        /\ op = "put" /\ Mail(vals) => Head(Course(op, vals)) = "check"
        /\ op \in {"upload", "clear"} => Head(Course(op, vals)) = "file"
        /\ op = "reset" => Head(Course(op, vals)) = "record"
    BY CourseAhead
  <2>2. Sole(w)'
    BY <1>2, <1>5, <1>7, <1>8, <1>9 DEF Sole
  <2>3. Entered(job'[w])
    BY <1>3, <1>7, <2>1 DEF Entered
  <2>4. Checked(w)' /\ Filed(w)' /\ AsRead(w)'
    BY <1>3, <1>7, <2>1 DEF Checked, Filed, AsRead
  <2> QED BY <1>3, <1>7, <2>1, <2>2, <2>3, <2>4 DEF Prepared
<1>11. ASSUME NEW v \in Busy PROVE Prepared(v)'
  <2>1. Prepared(v)
    BY DEF AspectsInv
  <2>2. Sole(v)'
    <3>1. Alone(v)' \subseteq Touches(v)' /\ Touches(v)' \ Alone(v)' \subseteq odd'
      BY <1>2, <1>5, <1>9, <2>1 DEF Prepared, Sole
    <3>2. ASSUME NEW u \in Busy' \ {v} PROVE Touches(u)' \intersect Alone(v)' = {}
      BY <1>7, <1>8, <1>9, <2>1 DEF Prepared, Sole
    <3> QED BY <3>1, <3>2 DEF Sole
  <2>3. Entered(job'[v]) /\ job'[v].left \in Ahead(job'[v].op, job'[v].vals)
    BY <1>4, <1>7, <2>1 DEF Prepared, Entered
  <2>4. Checked(v)' /\ Filed(v)' /\ AsRead(v)'
    BY <1>2, <1>4, <1>7, <1>9, <2>1 DEF Prepared, Checked, Filed, AsRead, Alone
  <2> QED BY <2>2, <2>3, <2>4 DEF Prepared
<1>12. \A v \in Busy' : Prepared(v)'
  BY <1>7, <1>10, <1>11
<1>13. TlsRuleHolds' /\ AuditedOrDied'
  BY <1>2 DEF AspectsInv, TlsRuleHolds, AuditedOrDied, Inv, TypeOK
<1>14. odd \subseteq odd' /\ Stored /\ Scheduled
  BY <1>2 DEF AspectsInv
<1>15. Stored'
  <2> SUFFICES ASSUME NEW s \in Tenants, <<"logo", s>> \notin odd',
                      files'[s] # {cfg'[s].logo} \ {None}
               PROVE  \E v \in Busy' : /\ job'[v].op \in {"upload", "clear"} /\ job'[v].tenant = s
                                       /\ Head(job'[v].left) = "save"
    BY DEF Stored
  <2>1. <<"logo", s>> \notin odd /\ files[s] # {cfg[s].logo} \ {None}
    BY <1>2, <1>14
  <2>2. PICK v \in Busy : /\ job[v].op \in {"upload", "clear"} /\ job[v].tenant = s
                          /\ Head(job[v].left) = "save"
    BY <2>1, <1>14 DEF Stored
  <2>3. v \in Busy' /\ job'[v] = Passed(v)
    BY <1>7
  <2> QED BY <2>2, <2>3, <1>4
<1>16. Scheduled'
  <2> SUFFICES ASSUME up', <<"cron", Default>> \notin odd', cfg'[Default].cron \in Good,
                      plan' # cfg'[Default].cron
               PROVE  \E v \in Busy' : job'[v].op = "put" /\ Schedule(job'[v].vals) /\ job'[v].saved
    BY DEF Scheduled
  <2>1. /\ up /\ <<"cron", Default>> \notin odd
        /\ cfg[Default].cron \in Good /\ plan # cfg[Default].cron
    BY <1>2, <1>14
  <2>2. PICK v \in Busy : job[v].op = "put" /\ Schedule(job[v].vals) /\ job[v].saved
    BY <2>1, <1>14 DEF Scheduled
  <2>3. v \in Busy' /\ job'[v] = Passed(v)
    BY <1>7
  <2>4. Passed(v).op = "put" /\ Schedule(Passed(v).vals) /\ Passed(v).saved
    BY <2>2, <1>4
  <2> QED BY <2>3, <2>4
<1>17. OneFile'
  BY <1>2 DEF AspectsInv, OneFile
<1> QED BY <1>12, <1>13, <1>15, <1>16, <1>17 DEF AspectsInv

LEMMA CrashAspects ==
  ASSUME SettingsAssumption, Inv, AspectsInv, Crash
  PROVE  AspectsInv'
<1>1. /\ up' = FALSE /\ job' = [w \in Workers |-> None] /\ budget'.faults > 0
      /\ silent' = silent \union
           {job[w].op : w \in {v \in Busy : job[v].saved /\ job[v].entry # "kept"}}
      /\ BrokenOff(Busy) /\ cfg' = cfg
  BY DEF Crash, Fault, Inv, TypeOK
<1>2. Busy' = {}
  BY <1>1 DEF Busy
<1>3. \A w \in Busy : Entered(job[w])
  BY DEF AspectsInv, Prepared
<1>o. /\ odd \subseteq odd' /\ \A w \in Busy : HalfDone(job[w]) \subseteq odd'
      /\ \A t \in Tenants : \/ files'[t] = files[t]
                            \/ <<"logo", t>> \in odd' /\ \A x, y \in files'[t] : x = y
  BY <1>1, BrokenOffTypes, BrokenOffFiles
<1>4. AuditedOrDied'
  BY <1>1, <1>3 DEF AspectsInv, AuditedOrDied, Entered
<1>5. Stored'
  <2>1. ASSUME NEW t \in Tenants, <<"logo", t>> \notin odd', NEW u \in Busy,
               job[u].op \in {"upload", "clear"}, job[u].tenant = t, Head(job[u].left) = "save"
        PROVE  FALSE
    <3>1. ~job[u].saved
      BY <1>3, <2>1 DEF Entered
    <3>2. <<"logo", t>> \in HalfDone(job[u])
      BY <2>1, <3>1 DEF HalfDone, Touched, If
    <3> QED BY <1>o, <2>1, <3>2
  <2> QED BY <1>1, <1>o, <2>1 DEF AspectsInv, Stored
<1>6. TlsRuleHolds'
  BY <1>1, <1>o DEF AspectsInv, TlsRuleHolds
<1>7. OneFile'
  BY <1>o DEF AspectsInv, OneFile
<1> QED BY <1>1, <1>2, <1>4, <1>5, <1>6, <1>7 DEF AspectsInv, Scheduled

LEMMA BootAspects ==
  ASSUME SettingsAssumption, Inv, AspectsInv, NEW env \in Env, Boot(env)
  PROVE  AspectsInv'
<1>1. /\ UNCHANGED <<files, job, budget, silent>>
      /\ up' => plan' = cfg'[Default].cron
      /\ odd \ {<<"cron", Default>>} \subseteq odd'
  BY DEF Boot
<1>2. Busy = {} /\ Busy' = {}
  BY <1>1 DEF Boot, Inv, OnCourse, Busy
<1>3. ASSUME NEW t \in Tenants
      PROVE  cfg'[t].host = cfg[t].host /\ cfg'[t].tls = cfg[t].tls /\ cfg'[t].logo = cfg[t].logo
  <2>1. cfg' = cfg \/ cfg' = [cfg EXCEPT ![Default].cron = env.cron]
    BY DEF Boot
  <2>2. cfg \in [Tenants -> Values] /\ cfg[t] \in Values /\ Default \in Tenants
    BY DEF Inv, TypeOK, SettingsAssumption
  <2>3. cfg' = [cfg EXCEPT ![Default].cron = env.cron] /\ t = Default =>
          cfg'[t] = [cfg[t] EXCEPT !.cron = env.cron]
    BY <2>2
  <2> QED BY <2>1, <2>2, <2>3 DEF Values
<1>4. TlsRuleHolds'
  BY <1>1, <1>3 DEF AspectsInv, TlsRuleHolds
<1>5. Stored'
  BY <1>1, <1>2, <1>3 DEF AspectsInv, Stored
<1>6. AuditedOrDied'
  BY <1>1 DEF AspectsInv, AuditedOrDied
<1>7. OneFile'
  BY <1>1 DEF AspectsInv, OneFile
<1> QED BY <1>1, <1>2, <1>4, <1>5, <1>6, <1>7 DEF AspectsInv, Scheduled

LEMMA AspectsInit == ASSUME SettingsAssumption, Init PROVE AspectsInv
<1>1. Busy = {} /\ silent = {} /\ ~up
  BY DEF Init, Busy
<1>2. \A t \in Tenants : cfg[t].host = "internal" /\ cfg[t].logo = None /\ files[t] = {}
  BY DEF Init
<1> QED BY <1>1, <1>2 DEF AspectsInv, TlsRuleHolds, Stored, OneFile, Scheduled, AuditedOrDied

LEMMA AspectsNext ==
  ASSUME SettingsAssumption, Inv, AspectsInv, [Next]_vars
  PROVE  AspectsInv'
<1>1. CASE UNCHANGED vars
  BY <1>1 DEF vars, AspectsInv, Prepared, Sole, Checked, Filed, AsRead, Touches, Alone, Busy,
              TlsRuleHolds, Stored, OneFile, Scheduled, AuditedOrDied
<1> QED BY <1>1, RequestAspects, StepAspects, CrashAspects, BootAspects DEF Next

-----------------------------------------------------------------------------
(* The theorems about them                                                 *)

LEMMA AspectsHold == ASSUME SettingsAssumption PROVE Spec => [](Inv /\ AspectsInv)
<1>1. Init => Inv /\ AspectsInv
  BY InvInit, AspectsInit
<1>2. Inv /\ AspectsInv /\ [Next]_vars => (Inv /\ AspectsInv)'
  BY InvNext, AspectsNext
<1> QED BY <1>1, <1>2, PTL DEF Spec

(* smtp_tls = "none" goes with an internal host only, although each key    *)
(* can be changed without the other and the check is one statement and the *)
(* write another (settings_validators.check_smtp_tls_allowed), but for     *)
(* changes of one tenant that overlap and until one is made alone.         *)
THEOREM TlsRuleKept ==
  ASSUME SettingsAssumption PROVE Spec => []TlsRuleHolds
<1>1. Inv /\ AspectsInv => TlsRuleHolds
  BY DEF AspectsInv
<1> QED BY <1>1, AspectsHold, PTL

(* A tenant's logo is on the disk and no other file is, unless requests of *)
(* the tenant overlapped or one failed between unlink, write and row; and  *)
(* there is one file at the most, whatever failed or overlapped.           *)
THEOREM LogosAreThere == ASSUME SettingsAssumption PROVE Spec => []LogoIsThere
<1>1. ASSUME AspectsInv, NEW t \in Tenants, InOrder(<<"logo", t>>)
      PROVE  files[t] = {cfg[t].logo} \ {None}
  <2>1. <<"logo", t>> \notin odd /\ ~UnderWay(<<"logo", t>>)
    BY <1>1 DEF InOrder
  <2>2. ASSUME NEW w \in Busy, job[w].op \in {"upload", "clear"}, job[w].tenant = t
        PROVE  FALSE
    BY <2>1, <2>2 DEF UnderWay, Touched, If
  <2> QED BY <1>1, <2>1, <2>2 DEF AspectsInv, Stored
<1>2. Inv /\ AspectsInv => LogoIsThere
  BY <1>1 DEF LogoIsThere, AspectsInv, OneFile
<1> QED BY <1>2, AspectsHold, PTL

(* The job runs at the default tenant's time, whichever tenant has changed *)
(* a schedule last, unless reschedules overlapped or broke off.            *)
THEOREM JobsFollowSchedule == ASSUME SettingsAssumption PROVE Spec => []JobFollowsSchedule
<1>1. ASSUME AspectsInv, up, InOrder(<<"cron", Default>>), cfg[Default].cron \in Good
      PROVE  plan = cfg[Default].cron
  <2>1. <<"cron", Default>> \notin odd /\ ~UnderWay(<<"cron", Default>>)
    BY <1>1 DEF InOrder
  <2>2. ASSUME NEW w \in Busy, job[w].op = "put", Schedule(job[w].vals)
        PROVE  FALSE
    BY <2>1, <2>2 DEF UnderWay, Touched, If
  <2> QED BY <1>1, <2>1, <2>2 DEF AspectsInv, Scheduled
<1>2. Inv /\ AspectsInv => JobFollowsSchedule
  BY <1>1 DEF JobFollowsSchedule
<1> QED BY <1>2, AspectsHold, PTL

(* A change has its audit entry unless its request died between the two    *)
(* commits; where one commit takes both, nothing separates them.           *)
THEOREM ChangesAreAudited == ASSUME SettingsAssumption PROVE Spec => []AuditedOrDied
<1>1. Inv /\ AspectsInv => AuditedOrDied
  BY DEF AspectsInv
<1> QED BY <1>1, AspectsHold, PTL
=============================================================================
