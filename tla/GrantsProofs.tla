----------------------------- MODULE GrantsProofs -----------------------------
(***************************************************************************)
(* Proofs about Grants, for every set of accounts, customers, teams and    *)
(* workers, whatever the requests and however they interleave.             *)
(***************************************************************************)
EXTENDS Grants, FiniteSetTheorems, TLAPS

AllRows == Accounts \X Tenants \X Kinds
Grantings == [AllRows -> Sources]
Table == [Accounts -> AccountRows \union {None}]
TeamTable == [Teams -> TeamRows \union {None}]

-----------------------------------------------------------------------------
(* Rows                                                                    *)

LEMMA WithRowIs ==
  ASSUME grant \in Grantings, NEW u, NEW t, NEW k, NEW source \in Sources
  PROVE  /\ WithRow(u, t, k, source) \in Grantings
         /\ \A x \in AllRows :
              WithRow(u, t, k, source)[x] =
                IF x = <<u, t, k>> /\ grant[x] = "none" THEN source ELSE grant[x]
BY DEF WithRow, Grantings

LEMMA WithoutRowIs ==
  ASSUME grant \in Grantings, NEW u, NEW t, NEW k
  PROVE  /\ WithoutRow(u, t, k) \in Grantings
         /\ \A x \in AllRows :
              WithoutRow(u, t, k)[x] = IF x = <<u, t, k>> THEN "none" ELSE grant[x]
BY DEF WithoutRow, Grantings, Sources

LEMMA WithoutRowsOfIs ==
  ASSUME grant \in Grantings, NEW us, NEW ts
  PROVE  /\ WithoutRowsOf(us, ts) \in Grantings
         /\ \A u \in Accounts, t \in Tenants, k \in Kinds :
              WithoutRowsOf(us, ts)[<<u, t, k>>] =
                IF u \in us \/ t \in ts THEN "none" ELSE grant[<<u, t, k>>]
<1>1. WithoutRowsOf(us, ts) = [x \in AllRows |->
         IF x[1] \in us \/ x[2] \in ts THEN "none" ELSE grant[x]]
  BY DEF WithoutRowsOf, AllRows
<1>2. \A x \in AllRows : grant[x] \in Sources
  BY DEF Grantings
<1>3. WithoutRowsOf(us, ts) \in Grantings
  BY <1>1, <1>2 DEF Grantings, Sources
<1>4. ASSUME NEW u \in Accounts, NEW t \in Tenants, NEW k \in Kinds
      PROVE  WithoutRowsOf(us, ts)[<<u, t, k>>] =
               IF u \in us \/ t \in ts THEN "none" ELSE grant[<<u, t, k>>]
  BY <1>1 DEF AllRows
<1> QED BY <1>3, <1>4

LEMMA WithoutAccounts ==
  ASSUME grant \in Grantings, NEW us
  PROVE  /\ WithoutRowsOf(us, {}) \in Grantings
         /\ \A u \in Accounts, t \in Tenants, k \in Kinds :
              WithoutRowsOf(us, {})[<<u, t, k>>] = IF u \in us THEN "none" ELSE grant[<<u, t, k>>]
BY WithoutRowsOfIs

-----------------------------------------------------------------------------
(* The invariant                                                           *)

Locked(j, u) == j.pend[u] # None \/ u \in j.doomed

\* The accounts as a job sees them that found them as acc.
NowOf(j, acc) ==
  [u \in Accounts |-> IF u \in j.doomed THEN None
                      ELSE IF j.pend[u] # None THEN j.pend[u] ELSE acc[u]]

ByTeamOps == {"sync", "login"}

(* A superadmin is a local account. *)
Lawful(row) == row # None /\ row.sso => row.role # "superadmin"
Lawfully(acc) == \A u \in Accounts : Lawful(acc[u])

(* What a job relies on, given the accounts, the tenants and the teams: its *)
(* snapshot is of a team that is there; the accounts it has written or will *)
(* delete are there and go home to where they were or to the provider; a    *)
(* row it is about to write for a team is of the provider's staff, and a    *)
(* row it is about to write by hand is at home, if its tenant still exists. *)
Sound(j, acc, kn, tm) ==
  /\ j.pc = "snapshot" \/ j.snap => j.team \in Teams
  /\ j.snap => tm[j.team] # None
  /\ \A u \in Accounts :
       /\ j.pend[u] # None =>
            /\ acc[u] # None /\ j.pend[u].home \in {acc[u].home, Provider}
            /\ j.op # "sync" /\ ~(j.pc = "remove" /\ u \in j.left) /\ Lawful(j.pend[u])
            /\ j.pc \in {"account", "write", "revoke"} => j.op \in ByTeamOps
       /\ u \in j.doomed =>
            /\ acc[u] # None /\ j.pc \in {"commit", "remove"} /\ j.op # "login"
            /\ j.op = "sync" => /\ acc[u].home = Provider /\ acc[u].sso
                                /\ acc[u].role # "superadmin"
  /\ j.pc \in {"diff", "write", "revoke", "migrate", "invited", "clear"} => j.user \in Accounts
  /\ j.pc = "tenant" => j.tenant \in Customers
  /\ j.pc = "revoke" => j.tenant \in Tenants
  /\ j.pc \in {"snapshot", "member", "leavers"} => j.op = "sync"
  /\ j.pc = "diff" => j.op \in ByTeamOps
  /\ j.pc \in {"account", "remove", "revoke", "migrate", "invited", "clear", "tenant"} =>
       j.op \notin ByTeamOps
  /\ j.pc \in {"clear", "tenant"} => j.op \in {"promote", "purge"}
  /\ j.pc \in {"diff", "write", "revoke", "invited"} /\ j.op \in ByTeamOps =>
       LET row == NowOf(j, acc)[j.user] IN row = None \/ row.home = Provider
  /\ \/ j.pc = "migrate"
     \/ j.pc \in {"write", "revoke", "invited"} /\ j.op \notin ByTeamOps
     => LET row == NowOf(j, acc)[j.user] IN
        \/ row = None \/ row.home = Provider
        \/ \A t \in j.add : t = row.home \/ (t # Provider /\ t \notin kn)

(* No two jobs hold the same account. *)
Apart ==
  \A v, w \in Workers : v # w => \A u \in Accounts : ~(Locked(job[v], u) /\ Locked(job[w], u))

(* Customer isolation, and no row without its account. *)
Isolated(acc, gr) ==
  \A u \in Accounts, t \in Tenants, k \in Kinds :
    /\ acc[u] = None => gr[<<u, t, k>>] = "none"
    /\ acc[u] # None /\ acc[u].home # Provider =>
         /\ gr[<<u, t, k>>] # "group"
         /\ gr[<<u, t, k>>] # "none" => t = acc[u].home

IInv ==
  /\ TypeOK
  /\ Isolated(account, grant)
  /\ Lawfully(account)
  /\ \A w \in Workers : Sound(job[w], account, known, team)
  /\ Apart

LEMMA InvIsolates == IInv => CustomerIsolation
BY DEF IInv, Isolated, CustomerIsolation, Exists

-----------------------------------------------------------------------------
(* Jobs do not disturb each other                                          *)

(* What may happen to the accounts, the tenants and the teams while a job   *)
(* is under way: an account it holds stays as it is; another one may go,    *)
(* or lose its home with its tenant, or go home to the provider; none takes *)
(* the name of the one it works on.                                         *)
Calm(j, acc, kn, tm, acc2, kn2, tm2) ==
  /\ \A u \in Accounts :
       /\ Locked(j, u) => acc2[u] = acc[u]
       /\ acc[u] # None /\ acc2[u] # None =>
            \/ acc2[u].home \in {acc[u].home, Provider}
            \/ acc2[u].home = None /\ acc[u].home # Provider /\ acc[u].home \notin kn2
       /\ acc[u] = None /\ acc2[u] # None => j.user # u
  /\ kn2 \subseteq kn
  /\ j.snap /\ tm[j.team] # None => tm2[j.team] # None

LEMMA CalmKeepsSound ==
  ASSUME NEW j \in Jobs, NEW acc \in Table, NEW acc2 \in Table,
         NEW kn, NEW kn2, NEW tm, NEW tm2,
         Sound(j, acc, kn, tm), Calm(j, acc, kn, tm, acc2, kn2, tm2)
  PROVE  Sound(j, acc2, kn2, tm2)
<1> DEFINE row  == NowOf(j, acc)[j.user]
           row2 == NowOf(j, acc2)[j.user]
<1>1. ASSUME j.user \in Accounts
      PROVE  \/ row2 = row
             \/ row2 = None
             \/ /\ row # None
                /\ \/ row2.home \in {row.home, Provider}
                   \/ row2.home = None /\ row.home # Provider /\ row.home \notin kn2
  BY <1>1 DEF NowOf, Calm, Locked
<1>2. \A u \in Accounts :
       /\ j.pend[u] # None =>
            /\ acc2[u] # None /\ j.pend[u].home \in {acc2[u].home, Provider}
            /\ j.op # "sync" /\ ~(j.pc = "remove" /\ u \in j.left) /\ Lawful(j.pend[u])
            /\ j.pc \in {"account", "write", "revoke"} => j.op \in ByTeamOps
       /\ u \in j.doomed =>
            /\ acc2[u] # None /\ j.pc \in {"commit", "remove"} /\ j.op # "login"
            /\ j.op = "sync" => /\ acc2[u].home = Provider /\ acc2[u].sso
                                /\ acc2[u].role # "superadmin"
  BY DEF Sound, Calm, Locked
<1>3. j.snap => tm2[j.team] # None
  BY DEF Sound, Calm
<1>4. ASSUME j.pc \in {"diff", "write", "revoke", "invited"}, j.op \in ByTeamOps
      PROVE  row2 = None \/ row2.home = Provider
  <2>1. j.user \in Accounts /\ (row = None \/ row.home = Provider)
    BY <1>4 DEF Sound
  <2> HIDE DEF row, row2
  <2> QED BY <1>1, <2>1
<1>5. ASSUME \/ j.pc = "migrate"
             \/ j.pc \in {"write", "revoke", "invited"} /\ j.op \notin ByTeamOps
      PROVE  \/ row2 = None \/ row2.home = Provider
             \/ \A t \in j.add : t = row2.home \/ (t # Provider /\ t \notin kn2)
  <2>1. /\ j.user \in Accounts
        /\ \/ row = None \/ row.home = Provider
           \/ \A t \in j.add : t = row.home \/ (t # Provider /\ t \notin kn)
    BY <1>5 DEF Sound
  <2>2. kn2 \subseteq kn
    BY DEF Calm
  <2> HIDE DEF row, row2
  <2> QED BY <1>1, <2>1, <2>2
<1> QED BY <1>2, <1>3, <1>4, <1>5 DEF Sound

-----------------------------------------------------------------------------
(* Going on, committing, starting                                          *)

LEMMA Typed ==
  ASSUME IInv
  PROVE  /\ account \in Table /\ grant \in Grantings /\ team \in TeamTable
         /\ Lawfully(account)
         /\ known \subseteq Customers /\ serving \subseteq known
         /\ directory \in [Teams -> SUBSET Accounts]
         /\ \A w \in Workers : job[w] \in Jobs /\ Sound(job[w], account, known, team)
         /\ Isolated(account, grant)
BY DEF IInv, TypeOK, AccessTypeOK, Table, Grantings, AllRows, TeamTable

LEMMA IdleIsJob == Idle \in Jobs
<1>1. NoPend \in [Accounts -> AccountRows \union {None}]
  BY DEF NoPend
<1>2. [k \in Kinds |-> {}] \in [Kinds -> SUBSET Tenants]
  OBVIOUS
<1>3. "admin" \in Kinds
  BY DEF Kinds
<1>4. "sync" \in AllOps
  BY DEF AllOps
<1> QED BY <1>1, <1>2, <1>3, <1>4 DEF Idle, Jobs

LEMMA IdleHolds ==
  /\ Idle.pc = "idle" /\ Idle.snap = FALSE /\ Idle.doomed = {} /\ Idle.user = None
  /\ Idle.add = {} /\ Idle.del = {} /\ Idle.kind = "admin"
  /\ \A u \in Accounts : Idle.pend[u] = None /\ ~Locked(Idle, u)
BY DEF Idle, NoPend, Locked

LEMMA NowIsTable ==
  ASSUME NEW j \in Jobs, NEW acc \in Table
  PROVE  NowOf(j, acc) \in Table
BY DEF NowOf, Table, Jobs

LEMMA KeepIsJob ==
  ASSUME NEW j \in Jobs
  PROVE  /\ Keep(j) \in Jobs
         /\ \A u \in Accounts : ~Locked(Keep(j), u)
         /\ Keep(j).snap = FALSE /\ Keep(j).pc = j.pc /\ Keep(j).op = j.op
         /\ Keep(j).user = j.user /\ Keep(j).add = j.add /\ Keep(j).tenant = j.tenant
         /\ Keep(j).kind = j.kind /\ Keep(j).del = j.del /\ Keep(j).doomed = {}
<1>1. NoPend \in [Accounts -> AccountRows \union {None}] /\ \A u \in Accounts : NoPend[u] = None
  BY DEF NoPend
<1> QED BY <1>1 DEF Keep, Jobs, Locked

LEMMA TeamNowIsTable ==
  ASSUME IInv, NEW w \in Workers
  PROVE  TeamNow(w) \in TeamTable /\ \A g \in Teams : team[g] # None => TeamNow(w)[g] # None
<1>1. job[w] \in Jobs /\ team \in TeamTable /\ Sound(job[w], account, known, team)
  BY Typed
<1>2. CASE ~job[w].snap
  BY <1>1, <1>2 DEF TeamNow
<1>3. CASE job[w].snap
  <2> DEFINE g == job[w].team
  <2>1. g \in Teams /\ team[g] \in TeamRows
    BY <1>1, <1>3 DEF Sound, TeamTable
  <2>2. [team[g] EXCEPT !.members = job[w].fetched] \in TeamRows
    BY <1>1, <2>1 DEF TeamRows, Jobs
  <2>3. TeamNow(w) = [team EXCEPT ![g] = [team[g] EXCEPT !.members = job[w].fetched]]
    BY <1>3 DEF TeamNow
  <2>4. [team[g] EXCEPT !.members = job[w].fetched] # None
    BY <2>2, GrantsAssumption
  <2> HIDE DEF g
  <2> QED BY <1>1, <2>1, <2>2, <2>3, <2>4 DEF TeamTable
<1> QED BY <1>2, <1>3

(* One job takes a step and none of the others is disturbed. *)
LEMMA StepKeeps ==
  ASSUME IInv, TypeOK', NEW w \in Workers,
         Isolated(account', grant'), Lawfully(account'),
         Sound(job'[w], account', known', team'),
         \A v \in Workers \ {w} :
           /\ job'[v] = job[v]
           /\ Calm(job[v], account, known, team, account', known', team')
           /\ \A u \in Accounts : ~(Locked(job'[w], u) /\ Locked(job[v], u))
  PROVE  IInv'
<1>1. account \in Table /\ account' \in Table /\ \A v \in Workers : job[v] \in Jobs
  BY DEF IInv, TypeOK, AccessTypeOK, Table
<1>2. ASSUME NEW v \in Workers PROVE Sound(job'[v], account', known', team')
  <2>1. CASE v = w
    BY <2>1
  <2>2. CASE v # w
    <3>1. Sound(job[v], account, known, team)
      BY DEF IInv
    <3>2. job'[v] = job[v] /\ Calm(job[v], account, known, team, account', known', team')
      BY <2>2
    <3> QED BY <1>1, <3>1, <3>2, CalmKeepsSound
  <2> QED BY <2>1, <2>2
<1>3. Apart'
  BY DEF IInv, Apart
<1> QED BY <1>2, <1>3 DEF IInv

LEMMA GoTyped ==
  ASSUME TypeOK, NEW w \in Workers, NEW j \in Jobs, Go(w, j)
  PROVE  TypeOK' /\ job'[w] = j /\ \A v \in Workers \ {w} : job'[v] = job[v]
BY DEF Go, TypeOK, AccessTypeOK, access, bounds

LEMMA GoKeeps ==
  ASSUME IInv, NEW w \in Workers, NEW j \in Jobs, Go(w, j),
         Sound(j, account, known, team),
         \A u \in Accounts : Locked(j, u) /\ ~Locked(job[w], u) => CanWrite(w, u)
  PROVE  IInv'
<1>1. TypeOK' /\ job'[w] = j /\ \A v \in Workers \ {w} : job'[v] = job[v]
  BY GoTyped DEF IInv
<1>2. UNCHANGED <<account, grant, known, team>>
  BY DEF Go, access
<1>3. Sound(job'[w], account', known', team') /\ Isolated(account', grant') /\ Lawfully(account')
  BY <1>1, <1>2 DEF IInv
<1>4. ASSUME NEW v \in Workers \ {w}
      PROVE  /\ Calm(job[v], account, known, team, account', known', team')
             /\ \A u \in Accounts : ~(Locked(job'[w], u) /\ Locked(job[v], u))
  <2>1. Calm(job[v], account, known, team, account', known', team')
    BY <1>2 DEF Calm
  <2>2. ASSUME NEW u \in Accounts, Locked(j, u), Locked(job[v], u) PROVE FALSE
    <3>1. CASE Locked(job[w], u)
      BY <2>2, <3>1 DEF IInv, Apart
    <3>2. CASE CanWrite(w, u)
      BY <2>2, <3>2 DEF CanWrite, Others, LocksAccount, Locked
    <3> QED BY <2>2, <3>1, <3>2
  <2> QED BY <1>1, <2>1, <2>2
<1> QED BY <1>1, <1>3, <1>4, StepKeeps

(* A step that changes nothing but the one job, and not what it holds. *)
LEMMA GoSameLocks ==
  ASSUME IInv, NEW w \in Workers, NEW j \in Jobs, Go(w, j),
         Sound(j, account, known, team), j.pend = job[w].pend, j.doomed = job[w].doomed
  PROVE  IInv'
BY GoKeeps DEF Locked

LEMMA IdleIsSound ==
  ASSUME NEW acc, NEW kn, NEW tm
  PROVE  Sound(Idle, acc, kn, tm)
BY IdleHolds DEF Sound

LEMMA AbandonKeeps ==
  ASSUME IInv, NEW w \in Workers, Abandon(w)
  PROVE  IInv'
BY IdleIsJob, IdleHolds, IdleIsSound, GoKeeps DEF Abandon

\* The same, and it has left its mark.
LEMMA RefusalKeeps ==
  ASSUME IInv, NEW w \in Workers, FinishRefused(w)
  PROVE  IInv'
<1>1. job \in [Workers -> Jobs] /\ Idle \in Jobs
  BY IdleIsJob DEF IInv, TypeOK
<1>2. /\ job' = [job EXCEPT ![w] = Idle]
      /\ UNCHANGED <<account, known, serving, grant, team, directory, scene, changes, crashes>>
      /\ history' = history \union {"unsynced"}
  BY DEF FinishRefused, access, bounds
<1>3. TypeOK'
  BY <1>1, <1>2 DEF IInv, TypeOK, AccessTypeOK
<1>4. Sound(job'[w], account', known', team') /\ \A u \in Accounts : ~Locked(job'[w], u)
  BY <1>1, <1>2, IdleIsSound, IdleHolds
<1>5. ASSUME NEW v \in Workers \ {w}
      PROVE  /\ job'[v] = job[v]
             /\ Calm(job[v], account, known, team, account', known', team')
  BY <1>1, <1>2 DEF Calm
<1>6. Isolated(account', grant') /\ Lawfully(account')
  BY <1>2 DEF IInv
<1> QED BY <1>3, <1>4, <1>5, <1>6, StepKeeps

LEMMA CommitTyped ==
  ASSUME IInv, NEW w \in Workers, NEW g \in Grantings, NEW j \in Jobs, Commit(w, g, j)
  PROVE  TypeOK' /\ job'[w] = Keep(j) /\ \A v \in Workers \ {w} : job'[v] = job[v]
<1>1. AccountNow(w) \in Table
  BY Typed, NowIsTable DEF AccountNow, NowOf
<1>2. TeamNow(w) \in TeamTable
  BY TeamNowIsTable
<1>3. Keep(j) \in Jobs
  BY KeepIsJob
<1>4. job \in [Workers -> Jobs]
  BY DEF IInv, TypeOK
<1>5. job' \in [Workers -> Jobs] /\ job'[w] = Keep(j) /\ \A v \in Workers \ {w} : job'[v] = job[v]
  BY <1>3, <1>4 DEF Commit
<1>6. AccessTypeOK'
  BY <1>1 DEF Commit, IInv, TypeOK, AccessTypeOK, Table, Grantings, AllRows
<1> QED BY <1>2, <1>5, <1>6 DEF Commit, IInv, TypeOK, TeamTable, bounds

LEMMA CommitCalms ==
  ASSUME IInv, NEW w \in Workers, NEW v \in Workers \ {w}
  PROVE  Calm(job[v], account, known, team, AccountNow(w), known, TeamNow(w))
<1>1. /\ job[w] \in Jobs /\ job[v] \in Jobs
      /\ Sound(job[w], account, known, team) /\ Sound(job[v], account, known, team)
  BY Typed
<1>2. \A u \in Accounts :
        /\ Locked(job[v], u) => AccountNow(w)[u] = account[u]
        /\ account[u] # None /\ AccountNow(w)[u] # None =>
             AccountNow(w)[u].home \in {account[u].home, Provider}
        /\ account[u] = None => AccountNow(w)[u] = None
  <2> SUFFICES ASSUME NEW u \in Accounts
               PROVE  /\ Locked(job[v], u) => AccountNow(w)[u] = account[u]
                      /\ account[u] # None /\ AccountNow(w)[u] # None =>
                           AccountNow(w)[u].home \in {account[u].home, Provider}
                      /\ account[u] = None => AccountNow(w)[u] = None
    OBVIOUS
  <2>1. ~(Locked(job[v], u) /\ Locked(job[w], u))
    BY DEF IInv, Apart
  <2>2. /\ job[w].pend[u] # None => /\ account[u] # None
                                    /\ job[w].pend[u].home \in {account[u].home, Provider}
        /\ u \in job[w].doomed => account[u] # None
    BY <1>1 DEF Sound
  <2>3. AccountNow(w)[u] = IF u \in job[w].doomed THEN None
                           ELSE IF job[w].pend[u] # None THEN job[w].pend[u] ELSE account[u]
    BY DEF AccountNow
  <2> QED BY <2>1, <2>2, <2>3 DEF Locked
<1>3. job[v].snap /\ team[job[v].team] # None => TeamNow(w)[job[v].team] # None
  BY <1>1, TeamNowIsTable DEF Sound
<1> QED BY <1>2, <1>3 DEF Calm

LEMMA CommitKeeps ==
  ASSUME IInv, NEW w \in Workers, NEW g \in Grantings, NEW j \in Jobs, Commit(w, g, j),
         Isolated(AccountNow(w), g),
         Sound(Keep(j), AccountNow(w), known, TeamNow(w))
  PROVE  IInv'
<1>1. TypeOK' /\ job'[w] = Keep(j) /\ \A v \in Workers \ {w} : job'[v] = job[v]
  BY CommitTyped
<1>2. account' = AccountNow(w) /\ grant' = g /\ known' = known /\ team' = TeamNow(w)
  BY DEF Commit
<1>3. \A u \in Accounts : ~Locked(job'[w], u)
  BY <1>1, KeepIsJob
<1>4. Sound(job'[w], account', known', team') /\ Isolated(account', grant')
  BY <1>1, <1>2
<1>5. \A v \in Workers \ {w} : Calm(job[v], account, known, team, account', known', team')
  BY <1>2, CommitCalms
<1>6. Lawfully(account')
  BY <1>2, Typed DEF Sound, Lawfully, Lawful, AccountNow
<1> QED BY <1>1, <1>3, <1>4, <1>5, <1>6, StepKeeps

LEMMA StartsKeeps ==
  ASSUME IInv, NEW w \in Workers, NEW op \in AllOps, NEW j \in Jobs, NEW unsynced,
         Starts(w, op, j, unsynced), UNCHANGED <<known, serving>>,
         account' \in Table, grant' \in Grantings, team' \in TeamTable,
         Isolated(account', grant'), Lawfully(account'),
         Sound([j EXCEPT !.op = op], account', known, team'),
         \A u \in Accounts : Locked(j, u) => CanWrite(w, u),
         \A v \in Workers \ {w} : Calm(job[v], account, known, team, account', known, team')
  PROVE  IInv'
<1> DEFINE i == [j EXCEPT !.op = op]
<1>0. i \in Jobs /\ i.pend = j.pend /\ i.doomed = j.doomed
  BY DEF Jobs
<1>1. job \in [Workers -> Jobs] /\ job' = [job EXCEPT ![w] = i]
  BY DEF IInv, TypeOK, Starts
<1>2. job' \in [Workers -> Jobs] /\ job'[w] = i /\ \A v \in Workers \ {w} : job'[v] = job[v]
  BY <1>0, <1>1
<1>3. TypeOK'
  <2>1. AccessTypeOK'
    BY DEF IInv, TypeOK, AccessTypeOK, Table, Grantings, AllRows
  <2>2. changes' \in 0..MaxChanges
    BY GrantsAssumption DEF IInv, TypeOK, Starts, Counts
  <2>3. history' \subseteq {"overlap", "crash", "unsynced"}
    BY DEF IInv, TypeOK, Starts, Marks
  <2> HIDE DEF i
  <2> QED BY <1>2, <2>1, <2>2, <2>3 DEF IInv, TypeOK, Starts, TeamTable
<1>4. ASSUME NEW v \in Workers \ {w}, NEW u \in Accounts, Locked(i, u), Locked(job[v], u)
      PROVE  FALSE
  BY <1>0, <1>4 DEF Locked, CanWrite, Others, LocksAccount
<1>5. Sound(job'[w], account', known', team')
  BY <1>2
<1> HIDE DEF i
<1> QED BY <1>2, <1>3, <1>4, <1>5, StepKeeps

(* A request that starts without having written anything. *)
LEMMA StartsQuietly ==
  ASSUME IInv, NEW w \in Workers, NEW op \in AllOps, NEW j \in Jobs, NEW unsynced,
         Starts(w, op, j, unsynced), UNCHANGED access, team' \in TeamTable,
         \A g \in Teams : team[g] # None => team'[g] # None,
         Sound([j EXCEPT !.op = op], account, known, team'),
         \A u \in Accounts : Locked(j, u) => CanWrite(w, u)
  PROVE  IInv'
<1>1. UNCHANGED <<account, grant, known, serving>>
  BY DEF access
<1>2. account' \in Table /\ grant' \in Grantings
  BY <1>1, Typed
<1>3. Isolated(account', grant') /\ Lawfully(account')
  BY <1>1, Typed
<1>4. ASSUME NEW v \in Workers \ {w}
      PROVE  Calm(job[v], account, known, team, account', known, team')
  BY <1>1, Typed DEF Calm, Sound
<1> QED BY <1>1, <1>2, <1>3, <1>4, StartsKeeps

LEMMA NotDoomed ==
  ASSUME IInv, NEW w \in Workers, job[w].pc \notin {"commit", "remove"}
  PROVE  job[w].doomed = {}
BY Typed DEF Sound, Jobs

LEMMA NowHomes ==
  ASSUME IInv, NEW w \in Workers, job[w].doomed = {}, NEW u \in Accounts
  PROVE  /\ AccountNow(w)[u] = None <=> account[u] = None
         /\ account[u] # None => AccountNow(w)[u].home \in {account[u].home, Provider}
BY Typed DEF AccountNow, Sound

(* A commit that only takes rows away keeps the customers apart. *)
LEMMA LessIsolated ==
  ASSUME IInv, NEW w \in Workers, job[w].doomed = {}, NEW g \in Grantings,
         \A u \in Accounts, t \in Tenants, k \in Kinds :
           g[<<u, t, k>>] \in {grant[<<u, t, k>>], "none"}
  PROVE  Isolated(AccountNow(w), g)
<1> SUFFICES ASSUME NEW u \in Accounts, NEW t \in Tenants, NEW k \in Kinds
             PROVE  /\ AccountNow(w)[u] = None => g[<<u, t, k>>] = "none"
                    /\ AccountNow(w)[u] # None /\ AccountNow(w)[u].home # Provider =>
                         /\ g[<<u, t, k>>] # "group"
                         /\ g[<<u, t, k>>] # "none" => t = AccountNow(w)[u].home
  BY DEF Isolated
<1>1. /\ account[u] = None => grant[<<u, t, k>>] = "none"
      /\ account[u] # None /\ account[u].home # Provider =>
           /\ grant[<<u, t, k>>] # "group"
           /\ grant[<<u, t, k>>] # "none" => t = account[u].home
  BY DEF IInv, Isolated
<1>2. g[<<u, t, k>>] \in {grant[<<u, t, k>>], "none"}
  OBVIOUS
<1> QED BY <1>1, <1>2, NowHomes

(* So does one that adds a row to an account of the provider's staff, or a *)
(* row by hand to an account at home with that tenant.                     *)
LEMMA MoreIsolated ==
  ASSUME IInv, NEW w \in Workers, job[w].doomed = {}, NEW v \in Accounts, NEW s \in Tenants,
         NEW l \in Kinds, NEW source \in {"group", "manual"}, AccountNow(w)[v] # None,
         \/ AccountNow(w)[v].home = Provider
         \/ source = "manual" /\ AccountNow(w)[v].home = s
  PROVE  Isolated(AccountNow(w), WithRow(v, s, l, source))
<1>0. Isolated(AccountNow(w), grant)
  BY Typed, LessIsolated
<1> SUFFICES ASSUME NEW u \in Accounts, NEW t \in Tenants, NEW k \in Kinds
             PROVE  LET g == WithRow(v, s, l, source) IN
                    /\ AccountNow(w)[u] = None => g[<<u, t, k>>] = "none"
                    /\ AccountNow(w)[u] # None /\ AccountNow(w)[u].home # Provider =>
                         /\ g[<<u, t, k>>] # "group"
                         /\ g[<<u, t, k>>] # "none" => t = AccountNow(w)[u].home
  BY DEF Isolated
<1>1. /\ AccountNow(w)[u] = None => grant[<<u, t, k>>] = "none"
      /\ AccountNow(w)[u] # None /\ AccountNow(w)[u].home # Provider =>
           /\ grant[<<u, t, k>>] # "group"
           /\ grant[<<u, t, k>>] # "none" => t = AccountNow(w)[u].home
  BY <1>0 DEF Isolated
<1>2. \/ WithRow(v, s, l, source)[<<u, t, k>>] = grant[<<u, t, k>>]
      \/ u = v /\ t = s /\ WithRow(v, s, l, source)[<<u, t, k>>] = source
  <2>1. <<u, t, k>> \in AllRows
    BY DEF AllRows
  <2>2. source \in Sources
    BY DEF Sources
  <2>3. WithRow(v, s, l, source)[<<u, t, k>>] =
          IF <<u, t, k>> = <<v, s, l>> /\ grant[<<u, t, k>>] = "none"
            THEN source ELSE grant[<<u, t, k>>]
    BY <2>1, <2>2, Typed, WithRowIs
  <2> QED BY <2>3
<1> QED BY <1>1, <1>2

(* What a job that has committed goes on with. *)
LEMMA KeepSound ==
  ASSUME IInv, NEW w \in Workers, NEW j \in Jobs, NEW tm,
         j.user = job[w].user, j.op = job[w].op, j.add \subseteq job[w].add,
         j.pc \in {"write", "migrate", "clear"},
         j.pc = job[w].pc \/ (job[w].pc \in {"revoke", "invited"} /\ j.pc = "write")
  PROVE  Sound(Keep(j), AccountNow(w), known, tm)
<1> DEFINE i == Keep(j)
<1>1. /\ i \in Jobs /\ i.snap = FALSE /\ i.pc = j.pc /\ i.op = j.op /\ i.user = j.user
      /\ i.add = j.add /\ \A u \in Accounts : ~Locked(i, u)
  BY KeepIsJob
<1>2. Sound(job[w], account, known, team) /\ AccountNow(w) = NowOf(job[w], account)
  BY Typed DEF AccountNow, NowOf
<1>3. ASSUME j.user \in Accounts PROVE NowOf(i, AccountNow(w))[j.user] = AccountNow(w)[j.user]
  BY <1>1, <1>3 DEF NowOf, Locked
<1> HIDE DEF i
<1>4. Sound(i, AccountNow(w), known, tm)
  BY <1>1, <1>2, <1>3 DEF Sound, Locked
<1> QED BY <1>4 DEF i

-----------------------------------------------------------------------------
(* The steps of sync_group                                                 *)

LEMMA DesiredTyped ==
  ASSUME IInv, NEW teams \in SUBSET {g \in Teams : team[g] # None}
  PROVE  Desired(teams) \in [Kinds -> SUBSET Tenants]
<1>1. \A g \in teams : team[g].tenants \in SUBSET Tenants
  BY Typed DEF TeamTable, TeamRows
<1> DEFINE of(role) == UNION {team[g].tenants : g \in {h \in teams : team[h].role = role}}
<1>2. of("admin") \in SUBSET Tenants /\ of("auditor") \in SUBSET Tenants
  BY <1>1
<1>3. Desired(teams) = [k \in Kinds |-> IF k = "admin" THEN of("admin")
                                        ELSE of("auditor") \ of("admin")]
  BY DEF Desired
<1> HIDE DEF of
<1> QED BY <1>2, <1>3

LEMMA SyncSnapshotKeeps ==
  ASSUME IInv, NEW w \in Workers, SyncSnapshot(w)
  PROVE  IInv'
<1> DEFINE g == job[w].team
           j == [job[w] EXCEPT !.pc = "member", !.snap = TRUE,
                    !.left = team[g].members \union job[w].fetched,
                    !.gone = team[g].members \ job[w].fetched]
<1>1. job[w] \in Jobs /\ Sound(job[w], account, known, team) /\ At(w, "snapshot") /\ team[g] # None
  BY Typed DEF SyncSnapshot
<1>2. g \in Teams /\ team[g] \in TeamRows
  BY <1>1, Typed DEF Sound, At, TeamTable
<1>3. j \in Jobs /\ j.pend = job[w].pend /\ j.doomed = job[w].doomed
  BY <1>1, <1>2 DEF Jobs, TeamRows
<1>4. Sound(j, account, known, team)
  BY <1>1, <1>2 DEF Sound, At, Jobs
<1>5. Go(w, j)
  BY DEF SyncSnapshot
<1> HIDE DEF j
<1> QED BY <1>3, <1>4, <1>5, GoSameLocks

LEMMA SyncMemberKeeps ==
  ASSUME IInv, NEW w \in Workers, NEW u \in Accounts, SyncMember(w, u)
  PROVE  IInv'
<1> DEFINE j == [job[w] EXCEPT !.left = @ \ {u}]
           i == [j EXCEPT !.pc = "diff", !.user = u, !.kind = "admin",
                          !.want = Desired(TeamsOf(w, u))]
<1>1. job[w] \in Jobs /\ Sound(job[w], account, known, team) /\ job[w].pc = "member"
  BY Typed DEF SyncMember, At
<1>2. CASE Exists(u) /\ IsProvider(u)
  <2>1. Desired(TeamsOf(w, u)) \in [Kinds -> SUBSET Tenants]
    BY DesiredTyped DEF TeamsOf
  <2>2. i \in Jobs /\ i.pend = job[w].pend /\ i.doomed = job[w].doomed
    BY <1>1, <2>1 DEF Jobs, Kinds
  <2>3. NowOf(i, account)[u].home = Provider \/ NowOf(i, account)[u] = None
    BY <1>1, <1>2, <2>2 DEF NowOf, Sound, IsProvider, Exists
  <2>4. i.pc = "diff" /\ i.user = u /\ i.op = job[w].op /\ i.snap = job[w].snap
        /\ i.team = job[w].team
    BY <1>1 DEF Jobs
  <2>5. Go(w, i)
    BY <1>2 DEF SyncMember
  <2> HIDE DEF i
  <2>6. Sound(i, account, known, team)
    BY <1>1, <2>2, <2>3, <2>4 DEF Sound, ByTeamOps
  <2> QED BY <2>2, <2>5, <2>6, GoSameLocks
<1>3. CASE ~(Exists(u) /\ IsProvider(u))
  <2>1. j \in Jobs /\ j.pend = job[w].pend /\ j.doomed = job[w].doomed
    BY <1>1 DEF Jobs
  <2>2. Sound(j, account, known, team)
    BY <1>1 DEF Sound, Jobs
  <2>3. Go(w, j)
    BY <1>3 DEF SyncMember
  <2> HIDE DEF j
  <2> QED BY <2>1, <2>2, <2>3, GoSameLocks
<1> QED BY <1>2, <1>3

LEMMA SyncMembersDoneKeeps ==
  ASSUME IInv, NEW w \in Workers, SyncMembersDone(w)
  PROVE  IInv'
<1> DEFINE j == [job[w] EXCEPT !.pc = "leavers"]
<1>1. job[w] \in Jobs /\ Sound(job[w], account, known, team) /\ job[w].pc = "member"
  BY Typed DEF SyncMembersDone, At
<1>2. j \in Jobs /\ j.pend = job[w].pend /\ j.doomed = job[w].doomed
  BY <1>1 DEF Jobs
<1>3. Sound(j, account, known, team)
  BY <1>1 DEF Sound, Jobs
<1>4. Go(w, j)
  BY DEF SyncMembersDone
<1> HIDE DEF j
<1> QED BY <1>2, <1>3, <1>4, GoSameLocks

LEMMA SyncLeaversKeeps ==
  ASSUME IInv, NEW w \in Workers, SyncLeavers(w)
  PROVE  IInv'
<1> DEFINE doomed == {u \in job[w].gone : FullyDeprovisioned(w, u)}
           j == [job[w] EXCEPT !.pc = "commit", !.doomed = doomed]
<1>1. job[w] \in Jobs /\ Sound(job[w], account, known, team) /\ job[w].pc = "leavers"
  BY Typed DEF SyncLeavers, At
<1>2. /\ doomed \in SUBSET Accounts
      /\ \A u \in doomed : /\ account[u] # None /\ account[u].home = Provider
                           /\ account[u].sso /\ account[u].role # "superadmin"
                           /\ CanWrite(w, u)
  BY <1>1 DEF Jobs, FullyDeprovisioned, Exists, IsProvider, SyncLeavers
<1>3. Go(w, j)
  BY DEF SyncLeavers
<1> HIDE DEF doomed
<1>4. j \in Jobs /\ j.pend = job[w].pend /\ j.doomed = doomed /\ j.pc = "commit"
      /\ j.op = job[w].op /\ j.snap = job[w].snap /\ j.team = job[w].team
  BY <1>1, <1>2 DEF Jobs
<1> HIDE DEF j
<1>5. Sound(j, account, known, team)
  BY <1>1, <1>2, <1>4 DEF Sound
<1>6. \A u \in Accounts : Locked(j, u) /\ ~Locked(job[w], u) => CanWrite(w, u)
  BY <1>2, <1>4 DEF Locked
<1> QED BY <1>3, <1>4, <1>5, <1>6, GoKeeps

-----------------------------------------------------------------------------
(* The steps that write rows                                               *)

LEMMA RowsAreTenants ==
  ASSUME NEW u, NEW k
  PROVE  Rows(u, k) \in SUBSET Tenants /\ GroupRows(u, k) \in SUBSET Tenants
BY DEF Rows, GroupRows

LEMMA DiffKeeps ==
  ASSUME IInv, NEW w \in Workers, Diff(w)
  PROVE  IInv'
<1> DEFINE want == job[w].want[job[w].kind]
           a == want \ Rows(job[w].user, job[w].kind)
           d == GroupRows(job[w].user, job[w].kind) \ want
           j == [job[w] EXCEPT !.pc = "write", !.add = a, !.del = d]
<1>1. job[w] \in Jobs /\ Sound(job[w], account, known, team) /\ job[w].pc = "diff"
  BY Typed DEF Diff, At
<1>2. a \in SUBSET Tenants /\ d \in SUBSET Tenants
  BY <1>1, RowsAreTenants DEF Jobs
<1>3. Go(w, j)
  BY DEF Diff
<1> HIDE DEF a, d
<1>4. j \in Jobs /\ j.pend = job[w].pend /\ j.doomed = job[w].doomed
  BY <1>1, <1>2 DEF Jobs
<1>5. /\ j.pc = "write" /\ j.op = job[w].op /\ j.user = job[w].user /\ j.snap = job[w].snap
      /\ j.team = job[w].team /\ NowOf(j, account) = NowOf(job[w], account)
  BY <1>1, <1>4 DEF Jobs, NowOf
<1> HIDE DEF j
<1>6. Sound(j, account, known, team)
  BY <1>1, <1>4, <1>5 DEF Sound
<1> QED BY <1>3, <1>4, <1>6, GoSameLocks

LEMMA WriteAddKeeps ==
  ASSUME IInv, NEW w \in Workers, NEW t \in Tenants, WriteAdd(w, t)
  PROVE  IInv'
<1> DEFINE rest == [job[w] EXCEPT !.add = @ \ {t}]
           source == IF ByTeam(w) THEN "group" ELSE "manual"
           u == job[w].user
           k == job[w].kind
<1>1. /\ job[w] \in Jobs /\ Sound(job[w], account, known, team)
      /\ job[w].pc = "write" /\ t \in job[w].add
  BY Typed DEF WriteAdd, At
<1>2. rest \in Jobs /\ rest.pend = job[w].pend /\ rest.doomed = job[w].doomed
  BY <1>1 DEF Jobs
<1>3. /\ rest.pc = "write" /\ rest.op = job[w].op /\ rest.user = u
      /\ rest.snap = job[w].snap /\ rest.team = job[w].team
      /\ rest.add \subseteq job[w].add /\ NowOf(rest, account) = NowOf(job[w], account)
  BY <1>1, <1>2 DEF Jobs, NowOf
<1>4. \/ Go(w, rest)
      \/ /\ AccountNow(w)[u] # None /\ HasTenant(t)
         /\ Commit(w, WithRow(u, t, k, source), rest)
  BY DEF WriteAdd
<1> HIDE DEF rest
<1>5. CASE Go(w, rest)
  <2>1. Sound(rest, account, known, team)
    BY <1>1, <1>2, <1>3 DEF Sound
  <2> QED BY <1>2, <1>5, <2>1, GoSameLocks
<1>6. CASE /\ AccountNow(w)[u] # None /\ HasTenant(t)
           /\ Commit(w, WithRow(u, t, k, source), rest)
  <2>1. /\ u \in Accounts /\ k \in Kinds /\ job[w].doomed = {}
        /\ source \in {"group", "manual"} /\ source \in Sources
    BY <1>1, NotDoomed DEF Sound, Jobs, Sources
  <2>2. AccountNow(w)[u] = NowOf(job[w], account)[u]
    BY DEF AccountNow, NowOf
  <2>3. \/ AccountNow(w)[u].home = Provider
        \/ source = "manual" /\ AccountNow(w)[u].home = t
    BY <1>1, <1>6, <2>2 DEF Sound, ByTeam, ByTeamOps, HasTenant
  <2>4. Isolated(AccountNow(w), WithRow(u, t, k, source))
    BY <1>6, <2>1, <2>3, MoreIsolated
  <2>5. WithRow(u, t, k, source) \in Grantings
    BY <2>1, Typed, WithRowIs
  <2>6. Sound(Keep(rest), AccountNow(w), known, TeamNow(w))
    BY <1>1, <1>2, <1>3, KeepSound
  <2> QED BY <1>2, <1>6, <2>4, <2>5, <2>6, CommitKeeps
<1> QED BY <1>4, <1>5, <1>6

LEMMA WithoutRowKeeps ==
  ASSUME IInv, NEW w \in Workers, NEW u, NEW t, NEW k, NEW j \in Jobs,
         Commit(w, WithoutRow(u, t, k), j),
         job[w].pc \notin {"commit", "remove"},
         j.user = job[w].user, j.op = job[w].op, j.add \subseteq job[w].add,
         j.pc \in {"write", "migrate", "clear"},
         j.pc = job[w].pc \/ (job[w].pc \in {"revoke", "invited"} /\ j.pc = "write")
  PROVE  IInv'
<1>1. job[w].doomed = {}
  BY NotDoomed
<1>2. /\ WithoutRow(u, t, k) \in Grantings
      /\ \A x \in AllRows : WithoutRow(u, t, k)[x] \in {grant[x], "none"}
  BY Typed, WithoutRowIs
<1>3. Isolated(AccountNow(w), WithoutRow(u, t, k))
  BY <1>1, <1>2, LessIsolated DEF AllRows
<1>4. Sound(Keep(j), AccountNow(w), known, TeamNow(w))
  BY KeepSound
<1> QED BY <1>2, <1>3, <1>4, CommitKeeps

LEMMA WriteRemoveKeeps ==
  ASSUME IInv, NEW w \in Workers, NEW t \in Tenants, WriteRemove(w, t)
  PROVE  IInv'
<1>1. /\ job[w] \in Jobs /\ Sound(job[w], account, known, team)
      /\ job[w].pc = "write"
  BY Typed DEF WriteRemove, At
<1>2. CASE ByTeam(w)
  <2> DEFINE j == [job[w] EXCEPT !.del = @ \ {t}]
  <2>1. /\ j \in Jobs /\ j.user = job[w].user /\ j.op = job[w].op /\ j.add = job[w].add
        /\ j.pc = "write"
    BY <1>1 DEF Jobs
  <2>2. Commit(w, WithoutRow(job[w].user, t, job[w].kind), j)
    BY <1>2 DEF WriteRemove
  <2> HIDE DEF j
  <2> QED BY <1>1, <2>1, <2>2, WithoutRowKeeps
<1>3. CASE ~ByTeam(w)
  <2> DEFINE j == [job[w] EXCEPT !.pc = "revoke", !.tenant = t]
  <2>1. Go(w, Idle) \/ Go(w, j)
    BY <1>3 DEF WriteRemove
  <2>2. j \in Jobs /\ j.pend = job[w].pend /\ j.doomed = job[w].doomed
    BY <1>1 DEF Jobs
  <2>3. /\ j.pc = "revoke" /\ j.op = job[w].op /\ j.user = job[w].user /\ j.snap = job[w].snap
        /\ j.team = job[w].team /\ j.tenant = t /\ j.add = job[w].add
        /\ NowOf(j, account) = NowOf(job[w], account)
    BY <1>1, <2>2 DEF Jobs, NowOf
  <2> HIDE DEF j
  <2>4. Sound(j, account, known, team)
    BY <1>1, <1>3, <2>2, <2>3 DEF Sound, ByTeam, ByTeamOps
  <2> QED BY <2>1, <2>2, <2>4, GoSameLocks, AbandonKeeps DEF Abandon
<1> QED BY <1>2, <1>3

LEMMA RevokeKeeps ==
  ASSUME IInv, NEW w \in Workers, Revoke(w)
  PROVE  IInv'
<1> DEFINE j == [job[w] EXCEPT !.pc = "write", !.del = @ \ {job[w].tenant}, !.tenant = None]
<1>1. job[w] \in Jobs /\ job[w].pc = "revoke"
  BY Typed DEF Revoke, At
<1>2. /\ j \in Jobs /\ j.user = job[w].user /\ j.op = job[w].op /\ j.add = job[w].add
      /\ j.pc = "write"
  BY <1>1 DEF Jobs
<1>3. Commit(w, WithoutRow(job[w].user, job[w].tenant, job[w].kind), j)
  BY DEF Revoke
<1> HIDE DEF j
<1> QED BY <1>1, <1>2, <1>3, WithoutRowKeeps

LEMMA WriteDoneKeeps ==
  ASSUME IInv, NEW w \in Workers, WriteDone(w)
  PROVE  IInv'
<1> DEFINE on == [job[w] EXCEPT !.user = None, !.kind = "admin"]
           again  == [job[w] EXCEPT !.pc = "diff", !.kind = "auditor"]
           member == [on EXCEPT !.pc = "member", !.want = Idle.want]
           commit == [on EXCEPT !.pc = "commit"]
           next   == [on EXCEPT !.pc = "account"]
<1>1. job[w] \in Jobs /\ Sound(job[w], account, known, team) /\ job[w].pc = "write"
  BY Typed DEF WriteDone, Written, At
<1>2. \/ job[w].op \in ByTeamOps /\ Go(w, again)
      \/ job[w].op = "sync" /\ Go(w, member)
      \/ Go(w, commit)
      \/ job[w].op \notin ByTeamOps /\ Go(w, next)
  BY <1>1 DEF WriteDone, ByTeam, ByTeamOps, Jobs, Kinds
<1>3. CASE job[w].op \in ByTeamOps /\ Go(w, again)
  <2>1. again \in Jobs /\ again.pend = job[w].pend /\ again.doomed = job[w].doomed
    BY <1>1 DEF Jobs, Kinds
  <2>2. /\ again.pc = "diff" /\ again.op = job[w].op /\ again.user = job[w].user
        /\ again.snap = job[w].snap /\ again.team = job[w].team
        /\ NowOf(again, account) = NowOf(job[w], account)
    BY <1>1, <2>1 DEF Jobs, NowOf
  <2> HIDE DEF again
  <2>3. Sound(again, account, known, team)
    BY <1>1, <1>3, <2>1, <2>2 DEF Sound
  <2> QED BY <1>3, <2>1, <2>3, GoSameLocks
<1>4. /\ on \in Jobs /\ on.pend = job[w].pend /\ on.doomed = job[w].doomed /\ on.op = job[w].op
      /\ on.snap = job[w].snap /\ on.team = job[w].team
  BY <1>1 DEF Jobs, Kinds
<1> HIDE DEF on
<1>5. Idle.want \in [Kinds -> SUBSET Tenants]
  BY IdleIsJob DEF Jobs
<1>6. ASSUME job[w].op = "sync", Go(w, member) PROVE IInv'
  <2>1. /\ member \in Jobs /\ member.pend = job[w].pend /\ member.doomed = job[w].doomed
        /\ member.op = job[w].op /\ member.snap = job[w].snap /\ member.team = job[w].team
        /\ member.pc = "member"
    BY <1>4, <1>5 DEF Jobs
  <2> HIDE DEF member
  <2>2. Sound(member, account, known, team)
    BY <1>1, <1>6, <2>1 DEF Sound, ByTeamOps
  <2> QED BY <1>6, <2>1, <2>2, GoSameLocks
<1>7. ASSUME Go(w, commit) PROVE IInv'
  <2>1. /\ commit \in Jobs /\ commit.pend = job[w].pend /\ commit.doomed = job[w].doomed
        /\ commit.op = job[w].op /\ commit.snap = job[w].snap /\ commit.team = job[w].team
        /\ commit.pc = "commit"
    BY <1>4 DEF Jobs
  <2> HIDE DEF commit
  <2>2. Sound(commit, account, known, team)
    BY <1>1, <2>1 DEF Sound
  <2> QED BY <1>7, <2>1, <2>2, GoSameLocks
<1>8. ASSUME job[w].op \notin ByTeamOps, Go(w, next) PROVE IInv'
  <2>1. /\ next \in Jobs /\ next.pend = job[w].pend /\ next.doomed = job[w].doomed
        /\ next.op = job[w].op /\ next.snap = job[w].snap /\ next.team = job[w].team
        /\ next.pc = "account"
    BY <1>4 DEF Jobs
  <2> HIDE DEF next
  <2>2. Sound(next, account, known, team)
    BY <1>1, <1>8, <2>1 DEF Sound
  <2> QED BY <1>8, <2>1, <2>2, GoSameLocks
<1> HIDE DEF again, member, commit, next
<1> QED BY <1>2, <1>3, <1>6, <1>7, <1>8

-----------------------------------------------------------------------------
(* The steps of the other requests                                         *)

LEMMA AssignAccountKeeps ==
  ASSUME IInv, NEW w \in Workers, NEW u \in Accounts, AssignAccount(w, u)
  PROVE  IInv'
<1> DEFINE kind == GrantKind(account[u].role)
           existing == Rows(u, kind)
           requested == Requested(w, existing)
           j == [job[w] EXCEPT !.left = @ \ {u}]
           i == [j EXCEPT !.pc = "write", !.user = u, !.kind = kind,
                          !.add = requested \ existing, !.del = existing \ requested]
<1>1. job[w] \in Jobs /\ Sound(job[w], account, known, team) /\ job[w].pc = "account"
  BY Typed DEF AssignAccount, At
<1>2. \/ Go(w, j)
      \/ Go(w, i) /\ Exists(u) /\ CrossGrantLockAllows(u, requested)
  BY DEF AssignAccount
<1>3. j \in Jobs /\ j.pend = job[w].pend /\ j.doomed = job[w].doomed
      /\ j.pc = "account" /\ j.op = job[w].op /\ j.snap = job[w].snap /\ j.team = job[w].team
  BY <1>1 DEF Jobs
<1> HIDE DEF j
<1>4. Sound(j, account, known, team)
  BY <1>1, <1>3 DEF Sound
<1>5. ASSUME Go(w, i), Exists(u), CrossGrantLockAllows(u, requested) PROVE IInv'
  <2>1. kind \in Kinds
    BY DEF GrantKind, Kinds
  <2>2. existing \in SUBSET Tenants
    BY RowsAreTenants
  <2>3. requested \in SUBSET Tenants
    BY <1>1, <2>2 DEF Requested, Jobs, Kinds
  <2>4. account[u].home = Provider \/ requested \subseteq {account[u].home}
    BY <1>5 DEF CrossGrantLockAllows, IsProvider
  <2> HIDE DEF kind, existing, requested
  <2>5. /\ i \in Jobs /\ i.pend = job[w].pend /\ i.doomed = job[w].doomed
        /\ i.pc = "write" /\ i.op = job[w].op /\ i.snap = job[w].snap /\ i.team = job[w].team
        /\ i.user = u /\ i.add \subseteq requested
    BY <1>3, <2>1, <2>2, <2>3 DEF Jobs
  <2> HIDE DEF i
  <2>6. NowOf(i, account)[u] = None
        \/ NowOf(i, account)[u].home \in {account[u].home, Provider}
    BY <1>1, <2>5 DEF NowOf, Sound
  <2>7. Sound(i, account, known, team)
    BY <1>1, <2>4, <2>5, <2>6 DEF Sound
  <2> QED BY <1>5, <2>5, <2>7, GoSameLocks
<1> HIDE DEF i
<1> QED BY <1>2, <1>3, <1>4, <1>5, GoSameLocks

LEMMA AssignDoneKeeps ==
  ASSUME IInv, NEW w \in Workers, AssignDone(w)
  PROVE  IInv'
<1> DEFINE j == [job[w] EXCEPT !.pc = "commit"]
<1>1. job[w] \in Jobs /\ Sound(job[w], account, known, team) /\ job[w].pc = "account"
  BY Typed DEF AssignDone, At
<1>2. j \in Jobs /\ j.pend = job[w].pend /\ j.doomed = job[w].doomed
      /\ j.pc = "commit" /\ j.op = job[w].op /\ j.snap = job[w].snap /\ j.team = job[w].team
  BY <1>1 DEF Jobs
<1>3. Go(w, j)
  BY DEF AssignDone
<1> HIDE DEF j
<1>4. Sound(j, account, known, team)
  BY <1>1, <1>2 DEF Sound
<1> QED BY <1>2, <1>3, <1>4, GoSameLocks

LEMMA DeactivateKeeps ==
  ASSUME IInv, NEW w \in Workers, Deactivate(w)
  PROVE  IInv'
<1> DEFINE j == [job[w] EXCEPT !.pc = "write"]
<1>1. job[w] \in Jobs /\ job[w].pc = "invited" /\ grant \in Grantings
  BY Typed DEF Deactivate, At
<1>2. /\ j \in Jobs /\ j.user = job[w].user /\ j.op = job[w].op /\ j.add = job[w].add
      /\ j.pc = "write"
  BY <1>1 DEF Jobs
<1>3. Commit(w, grant, j)
  BY DEF Deactivate
<1> HIDE DEF j
<1>4. Isolated(AccountNow(w), grant)
  BY <1>1, NotDoomed, LessIsolated
<1>5. Sound(Keep(j), AccountNow(w), known, TeamNow(w))
  BY <1>1, <1>2, KeepSound
<1> QED BY <1>1, <1>2, <1>3, <1>4, <1>5, CommitKeeps

LEMMA MigrateAddKeeps ==
  ASSUME IInv, NEW w \in Workers, NEW t \in Tenants, MigrateAdd(w, t)
  PROVE  IInv'
<1> DEFINE j == [job[w] EXCEPT !.add = @ \ {t}, !.del = {t}]
           u == job[w].user
           k == job[w].kind
<1>1. /\ job[w] \in Jobs /\ Sound(job[w], account, known, team)
      /\ job[w].pc = "migrate" /\ t \in job[w].add
  BY Typed DEF MigrateAdd, At
<1>2. /\ j \in Jobs /\ j.user = u /\ j.op = job[w].op /\ j.add \subseteq job[w].add
      /\ j.pc = "migrate"
  BY <1>1 DEF Jobs
<1>3. \/ Abandon(w)
      \/ /\ AccountNow(w)[u] # None /\ HasTenant(t)
         /\ Commit(w, WithRow(u, t, k, "manual"), j)
  BY DEF MigrateAdd
<1> HIDE DEF j
<1>4. CASE /\ AccountNow(w)[u] # None /\ HasTenant(t)
           /\ Commit(w, WithRow(u, t, k, "manual"), j)
  <2>1. u \in Accounts /\ k \in Kinds /\ job[w].doomed = {} /\ "manual" \in Sources
    BY <1>1, NotDoomed DEF Sound, Jobs, Sources
  <2>2. AccountNow(w)[u] = NowOf(job[w], account)[u]
    BY DEF AccountNow, NowOf
  <2>3. AccountNow(w)[u].home = Provider \/ AccountNow(w)[u].home = t
    BY <1>1, <1>4, <2>2 DEF Sound, HasTenant
  <2>4. Isolated(AccountNow(w), WithRow(u, t, k, "manual"))
    BY <1>4, <2>1, <2>3, MoreIsolated
  <2>5. WithRow(u, t, k, "manual") \in Grantings
    BY <2>1, Typed, WithRowIs
  <2>6. Sound(Keep(j), AccountNow(w), known, TeamNow(w))
    BY <1>1, <1>2, KeepSound
  <2> QED BY <1>2, <1>4, <2>4, <2>5, <2>6, CommitKeeps
<1> QED BY <1>3, <1>4, AbandonKeeps

LEMMA MigrateRemoveKeeps ==
  ASSUME IInv, NEW w \in Workers, NEW t \in Tenants, MigrateRemove(w, t)
  PROVE  IInv'
<1> DEFINE j == [job[w] EXCEPT !.del = {}]
<1>1. job[w] \in Jobs /\ job[w].pc = "migrate"
  BY Typed DEF MigrateRemove, At
<1>2. /\ j \in Jobs /\ j.user = job[w].user /\ j.op = job[w].op /\ j.add = job[w].add
      /\ j.pc = "migrate"
  BY <1>1 DEF Jobs
<1>3. Commit(w, WithoutRow(job[w].user, t, OtherKind(job[w].kind)), j)
  BY DEF MigrateRemove
<1> HIDE DEF j
<1> QED BY <1>1, <1>2, <1>3, WithoutRowKeeps

LEMMA ClearKeeps ==
  ASSUME IInv, NEW w \in Workers, NEW t \in Tenants, Clear(w, t)
  PROVE  IInv'
<1> DEFINE j == [job[w] EXCEPT !.del = @ \ {t}]
<1>1. job[w] \in Jobs /\ job[w].pc = "clear"
  BY Typed DEF Clear, At
<1>2. /\ j \in Jobs /\ j.user = job[w].user /\ j.op = job[w].op /\ j.add = job[w].add
      /\ j.pc = "clear"
  BY <1>1 DEF Jobs
<1>3. Commit(w, WithoutRow(job[w].user, t, job[w].kind), j)
  BY DEF Clear
<1> HIDE DEF j
<1> QED BY <1>1, <1>2, <1>3, WithoutRowKeeps

LEMMA ClearNextKeeps ==
  ASSUME IInv, NEW w \in Workers, ClearNext(w)
  PROVE  IInv'
<1> DEFINE d == Rows(job[w].user, "auditor")
           j == [job[w] EXCEPT !.kind = "auditor", !.del = d]
<1>1. job[w] \in Jobs /\ Sound(job[w], account, known, team) /\ job[w].pc = "clear"
  BY Typed DEF ClearNext, At
<1>2. Go(w, j) /\ d \in SUBSET Tenants
  BY RowsAreTenants DEF ClearNext
<1> HIDE DEF d
<1>3. j \in Jobs /\ j.pend = job[w].pend /\ j.doomed = job[w].doomed
      /\ j.pc = "clear" /\ j.op = job[w].op /\ j.snap = job[w].snap /\ j.team = job[w].team
      /\ j.user = job[w].user
  BY <1>1, <1>2 DEF Jobs, Kinds
<1> HIDE DEF j
<1>4. Sound(j, account, known, team)
  BY <1>1, <1>3 DEF Sound
<1> QED BY <1>2, <1>3, <1>4, GoSameLocks

LEMMA SsoRemoveKeeps ==
  ASSUME IInv, NEW w \in Workers, NEW u \in Accounts, SsoRemove(w, u)
  PROVE  IInv'
<1> DEFINE j == [job[w] EXCEPT !.left = @ \ {u}]
           i == [job[w] EXCEPT !.left = @ \ {u}, !.doomed = @ \union {u}]
<1>1. job[w] \in Jobs /\ Sound(job[w], account, known, team) /\ job[w].pc = "remove"
  BY Typed DEF SsoRemove, At
<1>2. Go(w, j) \/ (Go(w, i) /\ account[u] # None /\ CanWrite(w, u))
  BY DEF SsoRemove, Exists
<1>3. j \in Jobs /\ j.pend = job[w].pend /\ j.doomed = job[w].doomed
      /\ j.left \subseteq job[w].left /\ j.pc = "remove" /\ j.op = job[w].op /\ j.snap = job[w].snap /\ j.team = job[w].team
  BY <1>1 DEF Jobs
<1>4. i \in Jobs /\ i.pend = job[w].pend /\ i.doomed = job[w].doomed \union {u}
      /\ i.left \subseteq job[w].left
      /\ i.pc = "remove" /\ i.op = job[w].op /\ i.snap = job[w].snap /\ i.team = job[w].team
  BY <1>1 DEF Jobs
<1> HIDE DEF j, i
<1>5. Sound(j, account, known, team)
  BY <1>1, <1>3 DEF Sound, ByTeamOps
<1>6. ASSUME Go(w, i), account[u] # None, CanWrite(w, u) PROVE IInv'
  <2>1. Sound(i, account, known, team)
    BY <1>1, <1>4, <1>6 DEF Sound, ByTeamOps
  <2>2. \A v \in Accounts : Locked(i, v) /\ ~Locked(job[w], v) => CanWrite(w, v)
    BY <1>4, <1>6 DEF Locked
  <2> QED BY <1>4, <1>6, <2>1, <2>2, GoKeeps
<1> QED BY <1>2, <1>3, <1>5, <1>6, GoSameLocks

LEMMA FinishKeeps ==
  ASSUME IInv, NEW w \in Workers, Finish(w)
  PROVE  IInv'
<1> DEFINE gone == job[w].doomed
           g == WithoutRowsOf(gone, {})
<1>0. grant \in Grantings
  BY Typed
<1>1. Commit(w, g, Idle)
  BY DEF Finish
<1> HIDE DEF gone
<1>2. /\ g \in Grantings
      /\ \A u \in Accounts, t \in Tenants, k \in Kinds :
           g[<<u, t, k>>] = IF u \in gone THEN "none" ELSE grant[<<u, t, k>>]
  BY <1>0, WithoutRowsOfIs
<1> USE DEF gone
<1> HIDE DEF g
<1>3. Isolated(AccountNow(w), g)
  <2> SUFFICES ASSUME NEW u \in Accounts, NEW t \in Tenants, NEW k \in Kinds
               PROVE  /\ AccountNow(w)[u] = None => g[<<u, t, k>>] = "none"
                      /\ AccountNow(w)[u] # None /\ AccountNow(w)[u].home # Provider =>
                           /\ g[<<u, t, k>>] # "group"
                           /\ g[<<u, t, k>>] # "none" => t = AccountNow(w)[u].home
    BY DEF Isolated
  <2>1. /\ account[u] = None => grant[<<u, t, k>>] = "none"
        /\ account[u] # None /\ account[u].home # Provider =>
             /\ grant[<<u, t, k>>] # "group"
             /\ grant[<<u, t, k>>] # "none" => t = account[u].home
    BY Typed DEF Isolated
  <2>2. job[w].pend[u] # None => /\ account[u] # None
                                 /\ job[w].pend[u].home \in {account[u].home, Provider}
    BY Typed DEF Sound
  <2>3. AccountNow(w)[u] = IF u \in job[w].doomed THEN None
                           ELSE IF job[w].pend[u] # None THEN job[w].pend[u] ELSE account[u]
    BY DEF AccountNow
  <2> QED BY <1>2, <2>1, <2>2, <2>3
<1>4. Sound(Keep(Idle), AccountNow(w), known, TeamNow(w))
  <2>1. /\ Keep(Idle).pc = "idle" /\ Keep(Idle).snap = FALSE
        /\ \A u \in Accounts : ~Locked(Keep(Idle), u)
    BY IdleIsJob, IdleHolds, KeepIsJob
  <2> QED BY <2>1 DEF Sound, Locked
<1> QED BY <1>1, <1>2, <1>3, <1>4, IdleIsJob, CommitKeeps

LEMMA PurgeTenantKeeps ==
  ASSUME IInv, NEW w \in Workers, PurgeTenant(w)
  PROVE  IInv'
<1> DEFINE t == job[w].tenant
<1>1. /\ job[w] \in Jobs /\ Sound(job[w], account, known, team) /\ t \in Customers
      /\ account \in Table /\ grant \in Grantings /\ team \in TeamTable
      /\ known \subseteq Customers /\ serving \subseteq known /\ job \in [Workers -> Jobs]
  BY Typed DEF PurgeTenant, At, Sound, IInv, TypeOK
<1>2. /\ known' = known \ {t} /\ serving' = serving \ {t}
      /\ account' = [u \in Accounts |-> IF u \in Homed(t) THEN [account[u] EXCEPT !.home = None]
                                        ELSE account[u]]
      /\ grant' = WithoutRowsOf({}, {t})
      /\ team' = [g \in Teams |-> IF team[g] = None THEN None
                                  ELSE [team[g] EXCEPT !.tenants = @ \ {t}]]
      /\ job' = [job EXCEPT ![w] = Idle]
      /\ \A u \in Homed(t) : CanWrite(w, u)
      /\ UNCHANGED <<directory, bounds, history>>
  BY DEF PurgeTenant
<1> HIDE DEF t
<1>3. /\ grant' \in Grantings
      /\ \A u \in Accounts, s \in Tenants, k \in Kinds :
           grant'[<<u, s, k>>] = IF s = t THEN "none" ELSE grant[<<u, s, k>>]
  BY <1>1, <1>2, WithoutRowsOfIs
<1>4. ASSUME NEW u \in Accounts
      PROVE  /\ account'[u] \in AccountRows \union {None}
             /\ account'[u] # None <=> account[u] # None
             /\ account'[u] # None => /\ account'[u].sso = account[u].sso
                                      /\ account'[u].role = account[u].role
                                      /\ account'[u].active = account[u].active
             /\ account[u] # None =>
                  account'[u].home = IF account[u].home = t THEN None ELSE account[u].home
             /\ account[u] = None \/ account[u].home # t => account'[u] = account[u]
  <2>1. account[u] \in AccountRows \union {None}
    BY <1>1 DEF Table
  <2>2. account[u] # None => [account[u] EXCEPT !.home = None] \in AccountRows
    BY <2>1 DEF AccountRows
  <2>3. None \notin AccountRows
    BY AccessAssumption
  <2> QED BY <1>2, <2>1, <2>2, <2>3 DEF Homed, Exists, AccountRows
<1>5. account' \in Table
  BY <1>2, <1>4 DEF Table
<1>6. team' \in TeamTable /\ \A g \in Teams : team[g] # None => team'[g] # None
  <2>1. ASSUME NEW g \in Teams, team[g] # None
        PROVE  [team[g] EXCEPT !.tenants = @ \ {t}] \in TeamRows
    BY <1>1, <2>1 DEF TeamTable, TeamRows
  <2> QED BY <1>2, <2>1, GrantsAssumption DEF TeamTable
<1>7. job' \in [Workers -> Jobs] /\ job'[w] = Idle /\ \A v \in Workers \ {w} : job'[v] = job[v]
  BY <1>1, <1>2, IdleIsJob
<1>8. TypeOK'
  <2>1. AccessTypeOK'
    BY <1>1, <1>2, <1>3, <1>5 DEF AccessTypeOK, Table, Grantings, AllRows
  <2> QED BY <1>2, <1>6, <1>7, <2>1 DEF IInv, TypeOK, TeamTable, bounds
<1>9. Isolated(account', grant')
  <2> SUFFICES ASSUME NEW u \in Accounts, NEW s \in Tenants, NEW k \in Kinds
               PROVE  /\ account'[u] = None => grant'[<<u, s, k>>] = "none"
                      /\ account'[u] # None /\ account'[u].home # Provider =>
                           /\ grant'[<<u, s, k>>] # "group"
                           /\ grant'[<<u, s, k>>] # "none" => s = account'[u].home
    BY DEF Isolated
  <2>1. /\ account[u] = None => grant[<<u, s, k>>] = "none"
        /\ account[u] # None /\ account[u].home # Provider =>
             /\ grant[<<u, s, k>>] # "group"
             /\ grant[<<u, s, k>>] # "none" => s = account[u].home
    BY Typed DEF Isolated
  <2>2. t # Provider
    BY <1>1, AccessAssumption
  <2> QED BY <1>3, <1>4, <2>1, <2>2
<1>10. Sound(job'[w], account', known', team') /\ Lawfully(account')
  BY <1>4, <1>7, Typed, IdleIsSound DEF Lawfully, Lawful
<1>11. ASSUME NEW v \in Workers \ {w}
       PROVE  /\ Calm(job[v], account, known, team, account', known', team')
              /\ \A u \in Accounts : ~(Locked(job'[w], u) /\ Locked(job[v], u))
  <2>1. \A u \in Accounts : Locked(job[v], u) => account'[u] = account[u]
    BY <1>2 DEF CanWrite, Others, LocksAccount, Locked
  <2>2. t # Provider /\ t \notin known'
    BY <1>1, <1>2, AccessAssumption
  <2>3. job[v].snap /\ team[job[v].team] # None => team'[job[v].team] # None
    BY <1>6, Typed DEF Sound
  <2>4. known' \subseteq known
    BY <1>2
  <2>5. Calm(job[v], account, known, team, account', known', team')
    BY <1>4, <2>1, <2>2, <2>3, <2>4 DEF Calm
  <2> QED BY <1>7, <2>5, IdleHolds
<1> QED BY <1>7, <1>8, <1>9, <1>10, <1>11, StepKeeps

LEMMA StepsKeep ==
  ASSUME IInv, NEW w \in Workers, Step(w)
  PROVE  IInv'
<1>1. CASE SyncTeamGone(w) \/ WriteRefused(w) \/ FinishRefused(w)
  BY <1>1, AbandonKeeps, RefusalKeeps DEF SyncTeamGone, WriteRefused
<1>2. CASE SyncSnapshot(w) \/ SyncMembersDone(w) \/ SyncLeavers(w)
           \/ Diff(w) \/ Revoke(w) \/ WriteDone(w)
  BY <1>2, SyncSnapshotKeeps, SyncMembersDoneKeeps, SyncLeaversKeeps,
     DiffKeeps, RevokeKeeps, WriteDoneKeeps
<1>3. CASE AssignDone(w) \/ Deactivate(w) \/ ClearNext(w) \/ PurgeTenant(w) \/ Finish(w)
  BY <1>3, AssignDoneKeeps, DeactivateKeeps, ClearNextKeeps, PurgeTenantKeeps, FinishKeeps
<1>4. ASSUME NEW u \in Accounts, SyncMember(w, u) \/ AssignAccount(w, u) \/ SsoRemove(w, u)
      PROVE  IInv'
  BY <1>4, SyncMemberKeeps, AssignAccountKeeps, SsoRemoveKeeps
<1>5. ASSUME NEW t \in Tenants,
             \/ WriteAdd(w, t) \/ WriteRemove(w, t)
             \/ MigrateAdd(w, t) \/ MigrateRemove(w, t) \/ Clear(w, t)
      PROVE  IInv'
  BY <1>5, WriteAddKeeps, WriteRemoveKeeps, MigrateAddKeeps, MigrateRemoveKeeps, ClearKeeps
<1> QED BY <1>1, <1>2, <1>3, <1>4, <1>5 DEF Step

-----------------------------------------------------------------------------
(* The requests                                                            *)

(* A job holds an account only while it is there. *)
LEMMA HeldIsThere ==
  ASSUME IInv, NEW w \in Workers, NEW u \in Accounts, Locked(job[w], u)
  PROVE  account[u] # None
BY Typed DEF Sound, Locked

LEMMA CanWriteIs ==
  ASSUME NEW w \in Workers, NEW u \in Accounts
  PROVE  CanWrite(w, u) <=> \A v \in Workers \ {w} : ~Locked(job[v], u)
BY DEF CanWrite, Others, LocksAccount, Locked

LEMMA FreshIs ==
  ASSUME IInv, NEW u \in Accounts, Fresh(u)
  PROVE  /\ account[u] = None
         /\ \A w \in Workers : job[w].user # u /\ ~Locked(job[w], u) /\ CanWrite(w, u)
<1>1. account[u] = None /\ \A w \in Workers : job[w].user # u
  BY DEF Fresh, Exists
<1> QED BY <1>1, HeldIsThere, CanWriteIs

(* The other jobs are not disturbed by a request that writes accounts none *)
(* of them holds, and none under a name one of them works on.              *)
LEMMA StartCalms ==
  ASSUME IInv, NEW w \in Workers, NEW v \in Workers \ {w}, NEW acc \in Table,
         NEW tm \in TeamTable, \A g \in Teams : team[g] # None => tm[g] # None,
         \A u \in Accounts : acc[u] # account[u] =>
           /\ CanWrite(w, u)
           /\ account[u] # None /\ acc[u] # None => acc[u].home \in {account[u].home, Provider}
           /\ account[u] = None => Fresh(u)
  PROVE  Calm(job[v], account, known, team, acc, known, tm)
<1>1. job[v].snap => job[v].team \in Teams
  BY Typed DEF Sound
<1>2. \A u \in Accounts :
       /\ Locked(job[v], u) => acc[u] = account[u]
       /\ account[u] # None /\ acc[u] # None => acc[u].home \in {account[u].home, Provider}
       /\ account[u] = None /\ acc[u] # None => job[v].user # u
  BY CanWriteIs DEF Fresh
<1> QED BY <1>1, <1>2 DEF Calm

(* Accounts appear without a row, and those that are there stay at home. *)
LEMMA NewcomersIsolated ==
  ASSUME IInv, NEW acc,
         \A u \in Accounts : account[u] # None =>
           acc[u] # None /\ (account[u].home = acc[u].home)
  PROVE  Isolated(acc, grant)
BY Typed DEF Isolated


LEMMA FetchedIs ==
  ASSUME IInv, NEW g \in Teams
  PROVE  /\ Fetched(g) \in Jobs
         /\ \A acc, kn, tm : Sound([Fetched(g) EXCEPT !.op = "sync"], acc, kn, tm)
         /\ \A u \in Accounts : ~Locked(Fetched(g), u)
<1> DEFINE j == Fetched(g)
<1>1. j \in Jobs
  BY IdleIsJob, Typed DEF Fetched, Jobs
<1>2. j.pc = "snapshot" /\ j.team = g /\ j.pend = Idle.pend /\ j.doomed = {} /\ j.snap = FALSE
  BY IdleIsJob, IdleHolds DEF Fetched, Jobs
<1>3. \A u \in Accounts : ~Locked(j, u) /\ j.pend[u] = None
  BY <1>2, IdleHolds DEF Locked
<1> HIDE DEF j
<1>4. ASSUME NEW acc, NEW kn, NEW tm
      PROVE  Sound([j EXCEPT !.op = "sync"], acc, kn, tm)
  <2> DEFINE i == [j EXCEPT !.op = "sync"]
  <2>1. i.pc = "snapshot" /\ i.team = g /\ i.pend = j.pend /\ i.doomed = {} /\ i.snap = FALSE /\ i.op = "sync"
    BY <1>1, <1>2 DEF Jobs
  <2> HIDE DEF i
  <2>2. Sound(i, acc, kn, tm)
    BY <1>3, <2>1 DEF Sound
  <2> QED BY <2>2 DEF i
<1> QED BY <1>1, <1>3, <1>4 DEF j

LEMMA SyncFetchKeeps ==
  ASSUME IInv, NEW w \in Workers, NEW g \in Teams, SyncFetch(w, g)
  PROVE  IInv'
<1>1. Starts(w, "sync", Fetched(g), FALSE) /\ UNCHANGED access /\ team' = team
  BY DEF SyncFetch
<1>2. "sync" \in AllOps /\ "sync" \in ByTeamOps
  BY DEF AllOps, ByTeamOps
<1>3. team' \in TeamTable
  BY <1>1, Typed
<1> QED BY <1>1, <1>2, <1>3, FetchedIs, StartsQuietly

LEMMA LoginKeeps ==
  ASSUME IInv, NEW w \in Workers, NEW u \in Accounts, Login(w, u)
  PROVE  IInv'
<1> DEFINE row == SsoRow(TeamRole(u), Provider)
           new == SsoRow(TeamRole(u), None)
           want == Desired(Claims(u))
           j == [Idle EXCEPT !.pc = "diff", !.user = u, !.want = want, !.pend[u] = row]
           i == [j EXCEPT !.op = "login"]
<1>1. /\ row \in AccountRows /\ row.home = Provider /\ new \in AccountRows /\ new.home = None
      /\ row # None /\ new # None /\ Lawful(row) /\ Lawful(new)
  <2>1. TeamRole(u) \in Roles \ {"superadmin"}
    BY DEF TeamRole, Roles
  <2>2. /\ row \in AccountRows /\ row.home = Provider /\ new \in AccountRows /\ new.home = None
        /\ Lawful(row) /\ Lawful(new)
    BY <2>1 DEF SsoRow, AccountRows, Tenants, Lawful
  <2> QED BY <2>2, AccessAssumption
<1>2. /\ Starts(w, "login", j, Claims(u) # TeamsOf(w, u))
      /\ account' = IF Exists(u) THEN account ELSE [account EXCEPT ![u] = new]
      /\ CanWrite(w, u) /\ (~Exists(u) => Fresh(u))
      /\ UNCHANGED <<known, serving, grant, team>>
  BY DEF Login
<1>3. want \in [Kinds -> SUBSET Tenants]
  BY DesiredTyped DEF Claims
<1> HIDE DEF row, new, want
<1>4. account' \in Table
  BY <1>1, <1>2, Typed DEF Table
<1>5. /\ \A v \in Accounts : account[v] # None => account'[v] = account[v]
      /\ \A v \in Accounts : account'[v] # account[v] => v = u /\ ~Exists(u)
      /\ account'[u] # None /\ (account'[u].home = None \/ account'[u] = account[u])
  BY <1>1, <1>2, Typed DEF Table, Exists
<1>6. /\ j \in Jobs /\ i \in Jobs /\ j.pend[u] = row /\ j.doomed = {}
      /\ \A v \in Accounts : v # u => j.pend[v] = None
      /\ i.pc = "diff" /\ i.op = "login" /\ i.user = u /\ i.pend = j.pend /\ i.doomed = {} /\ i.snap = FALSE
  BY <1>1, <1>3, IdleIsJob, IdleHolds DEF Jobs, AllOps
<1>7. "login" \in AllOps
  BY DEF AllOps
<1> HIDE DEF j
<1>8. Sound(i, account', known, team')
  <2> HIDE DEF i
  <2> QED BY <1>1, <1>5, <1>6 DEF Sound, NowOf, ByTeamOps
<1>9. Isolated(account', grant') /\ Lawfully(account')
  BY <1>1, <1>2, <1>5, Typed, NewcomersIsolated DEF Lawfully, Table
<1>10. \A v \in Accounts : Locked(j, v) => CanWrite(w, v)
  BY <1>2, <1>6 DEF Locked
<1>11. team' \in TeamTable /\ grant' \in Grantings /\ \A g \in Teams : team[g] # None => team'[g] # None
  BY <1>2, Typed
<1>12. ASSUME NEW v \in Workers \ {w}
       PROVE  Calm(job[v], account, known, team, account', known, team')
  BY <1>2, <1>4, <1>5, <1>11, StartCalms DEF Exists
<1> QED BY <1>2, <1>4, <1>6, <1>7, <1>8, <1>9, <1>10, <1>11, <1>12, StartsKeeps

LEMMA AssignKeeps ==
  ASSUME IInv, NEW w \in Workers, NEW op \in AllOps, NEW us \in SUBSET Accounts,
         NEW ts \in SUBSET Tenants, Assign(w, op, us, ts)
  PROVE  IInv'
<1> DEFINE want == [k \in Kinds |-> ts]
           j == [Idle EXCEPT !.pc = "account", !.left = us, !.want = want]
           i == [j EXCEPT !.op = op]
<1>1. Starts(w, op, j, TRUE) /\ UNCHANGED access /\ team' = team /\ op \notin ByTeamOps
  BY DEF Assign, ByTeamOps
<1>2. want \in [Kinds -> SUBSET Tenants]
  OBVIOUS
<1> HIDE DEF want
<1>3. /\ j \in Jobs /\ j.pend = Idle.pend /\ j.doomed = {}
      /\ i.pc = "account" /\ i.op = op /\ i.pend = Idle.pend /\ i.doomed = {} /\ i.snap = FALSE
  <2>1. /\ j \in Jobs /\ j.pend = Idle.pend /\ j.doomed = {} /\ j.pc = "account" /\ j.snap = FALSE
    BY <1>2, IdleIsJob, IdleHolds DEF Jobs
  <2> HIDE DEF j
  <2> QED BY <2>1 DEF Jobs
<1> HIDE DEF j
<1>4. Sound(i, account, known, team')
  <2> HIDE DEF i
  <2> QED BY <1>1, <1>3, IdleHolds DEF Sound
<1>5. \A u \in Accounts : ~Locked(j, u)
  BY <1>3, IdleHolds DEF Locked
<1>6. team' \in TeamTable
  BY <1>1, Typed
<1> QED BY <1>1, <1>3, <1>4, <1>5, <1>6, StartsQuietly

LEMMA CreateKeeps ==
  ASSUME IInv, NEW w \in Workers, NEW u \in Accounts, NEW row \in AccountRows,
         NEW ts \in SUBSET Tenants, NEW invited \in BOOLEAN,
         CreateAccount(w, u, row, ts, invited), \A t \in ts : t = row.home, ~row.sso
  PROVE  IInv'
<1> DEFINE kind == GrantKind(row.role)
           off == [row EXCEPT !.active = FALSE]
           held == IF invited THEN off ELSE None
           pc == IF invited THEN "invited" ELSE "write"
           j == [Idle EXCEPT !.pc = pc, !.user = u, !.kind = kind, !.add = ts, !.pend[u] = held]
           i == [j EXCEPT !.op = "create"]
<1>1. /\ off \in AccountRows /\ off.home = row.home /\ held \in AccountRows \union {None}
      /\ held # None => held.home = row.home /\ Lawful(held) /\ pc = "invited"
      /\ row # None /\ kind \in Kinds /\ pc \in {"invited", "write"}
  BY AccessAssumption DEF AccountRows, GrantKind, Kinds, Lawful
<1>2. /\ Starts(w, "create", j, TRUE) /\ Fresh(u)
      /\ account' = [account EXCEPT ![u] = row]
      /\ UNCHANGED <<known, serving, grant, team>>
  BY DEF CreateAccount
<1> HIDE DEF held, kind, pc
<1>4. account' \in Table
  BY <1>2, Typed DEF Table
<1>5. /\ \A v \in Accounts : v # u => account'[v] = account[v]
      /\ account[u] = None /\ account'[u] = row
  BY <1>2, Typed, FreshIs DEF Table
<1>6. /\ j \in Jobs /\ j.pend[u] = held /\ j.doomed = {}
      /\ \A v \in Accounts : v # u => j.pend[v] = None
      /\ i.pc = pc /\ i.op = "create" /\ i.user = u /\ i.pend = j.pend /\ i.doomed = {}
      /\ i.snap = FALSE /\ i.add = ts
  <2>1. /\ j \in Jobs /\ j.pend[u] = held /\ j.doomed = {}
        /\ \A v \in Accounts : v # u => j.pend[v] = None
        /\ j.pc = pc /\ j.user = u /\ j.snap = FALSE /\ j.add = ts
    BY <1>1, IdleIsJob, IdleHolds DEF Jobs
  <2> HIDE DEF j
  <2> QED BY <2>1 DEF Jobs
<1>7. "create" \in AllOps /\ "create" \notin ByTeamOps
  BY DEF AllOps, ByTeamOps
<1> HIDE DEF j
<1>8. Sound(i, account', known, team')
  <2> HIDE DEF i
  <2>1. NowOf(i, account')[u].home = row.home
    BY <1>1, <1>5, <1>6 DEF NowOf
  <2> QED BY <1>1, <1>5, <1>6, <1>7, <2>1 DEF Sound
<1>9. Isolated(account', grant') /\ Lawfully(account')
  BY <1>2, <1>5, Typed, NewcomersIsolated DEF Lawfully, Lawful
<1>10. \A v \in Accounts : Locked(j, v) => CanWrite(w, v)
  BY <1>2, <1>6, FreshIs DEF Locked
<1>11. team' \in TeamTable /\ grant' \in Grantings /\ \A g \in Teams : team[g] # None => team'[g] # None
  BY <1>2, Typed
<1>12. ASSUME NEW v \in Workers \ {w}
       PROVE  Calm(job[v], account, known, team, account', known, team')
  BY <1>2, <1>4, <1>5, <1>11, FreshIs, StartCalms
<1> QED BY <1>2, <1>4, <1>6, <1>7, <1>8, <1>9, <1>10, <1>11, <1>12, StartsKeeps

LEMMA CreateLocalKeeps ==
  ASSUME IInv, NEW w \in Workers, NEW u \in Accounts, NEW role \in Kinds, NEW t \in Tenants,
         NEW invited \in BOOLEAN, CreateLocal(w, u, role, t, invited)
  PROVE  IInv'
<1>1. LocalRow(role, t) \in AccountRows /\ LocalRow(role, t).home = t /\ ~LocalRow(role, t).sso
  BY DEF LocalRow, AccountRows, Kinds, Roles
<1>2. {t} \ {Provider} \in SUBSET Tenants /\ \A s \in {t} \ {Provider} : s = t
  OBVIOUS
<1> QED BY <1>1, <1>2, CreateKeeps DEF CreateLocal

LEMMA CreateSuperadminKeeps ==
  ASSUME IInv, NEW w \in Workers, NEW u \in Accounts, NEW invited \in BOOLEAN,
         CreateSuperadmin(w, u, invited)
  PROVE  IInv'
<1> DEFINE home == IF invited THEN Provider ELSE None
<1>1. LocalRow("superadmin", home) \in AccountRows /\ ~LocalRow("superadmin", home).sso
  BY DEF LocalRow, AccountRows, Roles, Tenants
<1>2. CreateAccount(w, u, LocalRow("superadmin", home), {}, invited)
  BY DEF CreateSuperadmin
<1> HIDE DEF home
<1> QED BY <1>1, <1>2, CreateKeeps

(* A request that starts by writing the row of one account. *)
LEMMA OnePending ==
  ASSUME IInv, NEW w \in Workers, NEW op \in AllOps \ ByTeamOps, NEW j \in Jobs,
         NEW unsynced, Starts(w, op, j, unsynced), UNCHANGED <<access, team>>,
         NEW u \in Accounts, account[u] # None, CanWrite(w, u),
         j.pend[u] # None, j.pend[u].home = account[u].home, Lawful(j.pend[u]),
         \A v \in Accounts : v # u => j.pend[v] = None,
         j.doomed = {}, j.snap = FALSE,
         \/ j.pc = "commit"
         \/ j.pc = "clear" /\ op = "promote" /\ j.user = u
         \/ j.pc = "migrate" /\ j.user = u /\
              (account[u].home = Provider \/ \A t \in j.add : t = account[u].home)
  PROVE  IInv'
<1> DEFINE i == [j EXCEPT !.op = op]
<1>1. /\ i.pend = j.pend /\ i.doomed = {} /\ i.snap = FALSE /\ i.pc = j.pc /\ i.user = j.user
      /\ i.add = j.add /\ i.op = op
  BY DEF Jobs
<1>2. Sound(i, account, known, team')
  <2> HIDE DEF i
  <2>1. NowOf(i, account)[u] = j.pend[u]
    BY <1>1 DEF NowOf
  <2> QED BY <1>1, <2>1 DEF Sound, ByTeamOps
<1>3. \A v \in Accounts : Locked(j, v) => CanWrite(w, v)
  BY DEF Locked
<1>4. UNCHANGED access /\ team' \in TeamTable /\ \A g \in Teams : team[g] # None => team'[g] # None
  BY Typed
<1> QED BY <1>2, <1>3, <1>4, StartsQuietly

LEMMA RoleIs ==
  ASSUME IInv, NEW u \in Accounts, account[u] # None, NEW role \in Roles
  PROVE  LET row == [account[u] EXCEPT !.role = role] IN
         /\ row \in AccountRows /\ row # None /\ row.home = account[u].home
         /\ role # "superadmin" \/ ~account[u].sso => Lawful(row)
<1>1. account[u] \in AccountRows
  BY Typed DEF Table
<1>2. [account[u] EXCEPT !.role = role] \in AccountRows
  BY <1>1 DEF AccountRows
<1> QED BY <1>1, <1>2, AccessAssumption DEF AccountRows, Lawful

LEMMA SetRoleKeeps ==
  ASSUME IInv, NEW w \in Workers, NEW u \in Accounts, NEW role \in Kinds, SetRole(w, u, role)
  PROVE  IInv'
<1> DEFINE old == account[u].role
           row == [account[u] EXCEPT !.role = role]
           moves == IF ~account[u].sso /\ old # role THEN Rows(u, GrantKind(old)) ELSE {}
           kind == GrantKind(role)
           j == [Idle EXCEPT !.pc = "migrate", !.user = u, !.kind = kind,
                             !.pend[u] = row, !.add = moves]
<1>1. Starts(w, "role", j, TRUE) /\ account[u] # None /\ CanWrite(w, u) /\ UNCHANGED <<access, team>>
  BY DEF SetRole, Exists
<1>2. row \in AccountRows /\ row # None /\ row.home = account[u].home /\ Lawful(row)
  BY <1>1, RoleIs DEF Kinds, Roles
<1>3. moves \in SUBSET Tenants /\ kind \in Kinds
  BY RowsAreTenants DEF GrantKind, Kinds
<1>4. account[u].home = Provider \/ \A t \in moves : t = account[u].home
  BY <1>1, Typed DEF Isolated, Rows, GrantKind, Kinds
<1> HIDE DEF row, moves, kind
<1>5. /\ j \in Jobs /\ j.pend[u] = row /\ j.doomed = {} /\ j.snap = FALSE
      /\ \A v \in Accounts : v # u => j.pend[v] = None
      /\ j.pc = "migrate" /\ j.user = u /\ j.add = moves
  BY <1>2, <1>3, IdleIsJob, IdleHolds DEF Jobs
<1>6. "role" \in AllOps \ ByTeamOps
  BY DEF AllOps, ByTeamOps
<1> HIDE DEF j
<1> QED BY <1>1, <1>2, <1>4, <1>5, <1>6, OnePending

LEMMA PromoteKeeps ==
  ASSUME IInv, NEW w \in Workers, NEW u \in Accounts, Promote(w, u)
  PROVE  IInv'
<1> DEFINE row == [account[u] EXCEPT !.role = "superadmin"]
           rows == Rows(u, "admin")
           j == [Idle EXCEPT !.pc = "clear", !.user = u, !.del = rows, !.pend[u] = row]
<1>1. Starts(w, "promote", j, TRUE) /\ account[u] # None /\ ~account[u].sso /\ CanWrite(w, u) /\ UNCHANGED <<access, team>>
  BY DEF Promote, Exists
<1>2. row \in AccountRows /\ row # None /\ row.home = account[u].home /\ Lawful(row)
  BY <1>1, RoleIs DEF Roles
<1>3. rows \in SUBSET Tenants
  BY RowsAreTenants
<1> HIDE DEF row, rows
<1>5. /\ j \in Jobs /\ j.pend[u] = row /\ j.doomed = {} /\ j.snap = FALSE
      /\ \A v \in Accounts : v # u => j.pend[v] = None
      /\ j.pc = "clear" /\ j.user = u
  BY <1>2, <1>3, IdleIsJob, IdleHolds DEF Jobs
<1>6. "promote" \in AllOps \ ByTeamOps
  BY DEF AllOps, ByTeamOps
<1> HIDE DEF j
<1> QED BY <1>1, <1>2, <1>5, <1>6, OnePending

LEMMA DemoteKeeps ==
  ASSUME IInv, NEW w \in Workers, NEW u \in Accounts, Demote(w, u)
  PROVE  IInv'
<1> DEFINE row == [account[u] EXCEPT !.role = "admin"]
           j == [Idle EXCEPT !.pc = "commit", !.pend[u] = row]
<1>1. Starts(w, "demote", j, TRUE) /\ account[u] # None /\ CanWrite(w, u) /\ UNCHANGED <<access, team>>
  BY DEF Demote, Exists
<1>2. row \in AccountRows /\ row # None /\ row.home = account[u].home /\ Lawful(row)
  BY <1>1, RoleIs DEF Roles
<1> HIDE DEF row
<1>5. /\ j \in Jobs /\ j.pend[u] = row /\ j.doomed = {} /\ j.snap = FALSE
      /\ \A v \in Accounts : v # u => j.pend[v] = None
      /\ j.pc = "commit"
  BY <1>2, IdleIsJob, IdleHolds DEF Jobs
<1>6. "demote" \in AllOps \ ByTeamOps
  BY DEF AllOps, ByTeamOps
<1> HIDE DEF j
<1> QED BY <1>1, <1>2, <1>5, <1>6, OnePending

LEMMA DeleteUserKeeps ==
  ASSUME IInv, NEW w \in Workers, NEW u \in Accounts, DeleteUser(w, u)
  PROVE  IInv'
<1> DEFINE j == [Idle EXCEPT !.pc = "commit", !.doomed = {u}]
           i == [j EXCEPT !.op = "delete"]
<1>1. /\ Starts(w, "delete", j, TRUE) /\ account[u] # None /\ CanWrite(w, u)
      /\ UNCHANGED access /\ team' = team
  BY DEF DeleteUser, Exists
<1>2. /\ j \in Jobs /\ j.pend = Idle.pend /\ j.doomed = {u} /\ j.snap = FALSE /\ j.pc = "commit"
  BY IdleIsJob, IdleHolds DEF Jobs
<1>3. "delete" \in AllOps
  BY DEF AllOps
<1> HIDE DEF j
<1>4. /\ i.pend = Idle.pend /\ i.doomed = {u} /\ i.snap = FALSE /\ i.pc = "commit" /\ i.op = "delete"
  BY <1>2 DEF Jobs
<1>5. Sound(i, account, known, team')
  <2> HIDE DEF i
  <2> QED BY <1>1, <1>4, IdleHolds DEF Sound
<1>6. \A v \in Accounts : Locked(j, v) => CanWrite(w, v)
  BY <1>1, <1>2, IdleHolds DEF Locked
<1>7. team' \in TeamTable
  BY <1>1, Typed
<1> QED BY <1>1, <1>2, <1>3, <1>5, <1>6, <1>7, StartsQuietly

LEMMA SsoSyncKeeps ==
  ASSUME IInv, NEW w \in Workers, NEW t \in Tenants, NEW admins \in SUBSET Accounts,
         NEW auditors \in SUBSET Accounts, SsoSync(w, t, admins, auditors)
  PROVE  IInv'
<1> DEFINE desired == admins \union auditors
           role(u) == IF u \in admins THEN "admin" ELSE "auditor"
           new == {u \in desired : ~Exists(u)}
           kept == {u \in desired : Exists(u) /\ account[u].sso /\ account[u].home = t}
           row(u) == IF u \in new THEN SsoRow(role(u), t)
                     ELSE [account[u] EXCEPT !.role = role(u)]
           mine == new \union {u \in Accounts : Exists(u) /\ account[u].sso /\ account[u].home = t}
           leaving == mine \ desired
           implausible == desired = {} \/ 2 * Cardinality(leaving) > Cardinality(mine)
           left == IF implausible THEN {} ELSE leaving
           pend(early) == [u \in Accounts |-> IF u \in kept \ early THEN row(u) ELSE None]
<1>1. PICK early \in SUBSET kept :
        /\ account' = [u \in Accounts |-> IF u \in new \union early THEN row(u) ELSE account[u]]
        /\ Starts(w, "sso", [Idle EXCEPT !.pc = "remove", !.left = left, !.pend = pend(early)], TRUE)
  BY DEF SsoSync
<1>2. /\ \A u \in kept : CanWrite(w, u)
      /\ \A u \in new : Fresh(u)
      /\ UNCHANGED <<known, serving, grant, team>>
  BY DEF SsoSync
<1>3. /\ \A u \in new : u \in Accounts /\ account[u] = None
      /\ \A u \in kept : u \in Accounts /\ account[u] # None /\ account[u].home = t
  BY DEF Exists
<1>4. ASSUME NEW u \in new \union kept
      PROVE  row(u) \in AccountRows /\ row(u) # None /\ row(u).home = t /\ Lawful(row(u))
  <2>1. role(u) \in Roles \ {"superadmin"}
    BY DEF Roles
  <2>2. CASE u \in new
    <3>1. SsoRow(role(u), t) \in AccountRows /\ SsoRow(role(u), t).home = t
          /\ Lawful(SsoRow(role(u), t))
      BY <2>1 DEF SsoRow, AccountRows, Lawful
    <3> QED BY <2>2, <3>1, AccessAssumption
  <2>3. CASE u \notin new
    BY <1>3, <2>1, <2>3, RoleIs
  <2> QED BY <2>2, <2>3
<1>5. left \in SUBSET Accounts /\ left \intersect kept = {}
  OBVIOUS
<1> DEFINE held == pend(early)
<1> HIDE DEF row, new, kept, left
<1>6. /\ held \in [Accounts -> AccountRows \union {None}]
      /\ \A u \in Accounts : held[u] # None => u \in kept \ early /\ held[u].home = t /\ Lawful(held[u])
  BY <1>4
<1> DEFINE j == [Idle EXCEPT !.pc = "remove", !.left = left, !.pend = held]
           i == [j EXCEPT !.op = "sso"]
<1>7. Starts(w, "sso", j, TRUE)
  BY <1>1
<1> HIDE DEF held
<1>8. /\ j \in Jobs /\ j.pend = held /\ j.doomed = {} /\ j.snap = FALSE /\ j.pc = "remove"
      /\ j.left = left
  BY <1>5, <1>6, IdleIsJob, IdleHolds DEF Jobs
<1> HIDE DEF j
<1>9. /\ i.pend = held /\ i.doomed = {} /\ i.snap = FALSE /\ i.pc = "remove" /\ i.op = "sso"
      /\ i.left = left
  BY <1>8 DEF Jobs
<1>10. /\ \A u \in Accounts : u \notin new \union early => account'[u] = account[u]
       /\ \A u \in Accounts : u \in new \union early => account'[u] = row(u)
  BY <1>1
<1>11. account' \in Table
  <2>1. \A u \in Accounts : account'[u] \in AccountRows \union {None}
    BY <1>4, <1>10, Typed DEF Table
  <2>2. account' = [u \in Accounts |-> account'[u]]
    BY <1>1
  <2> QED BY <2>1, <2>2 DEF Table
<1>12. /\ \A u \in Accounts : account[u] # None => account'[u] # None /\ account[u].home = account'[u].home
       /\ \A u \in Accounts : account'[u] # account[u] => u \in new \union kept
  BY <1>3, <1>4, <1>10
<1>13. Sound(i, account', known, team')
  <2> HIDE DEF i
  <2> QED BY <1>3, <1>5, <1>6, <1>9, <1>12 DEF Sound, ByTeamOps
<1>14. \A u \in Accounts : Locked(j, u) => CanWrite(w, u)
  BY <1>2, <1>6, <1>8 DEF Locked
<1>15. team' \in TeamTable /\ grant' \in Grantings /\ \A g \in Teams : team[g] # None => team'[g] # None
  BY <1>2, Typed
<1>16. Isolated(account', grant') /\ Lawfully(account')
  BY <1>2, <1>4, <1>10, <1>12, Typed, NewcomersIsolated DEF Lawfully
<1>17. ASSUME NEW v \in Workers \ {w}
       PROVE  Calm(job[v], account, known, team, account', known, team')
  BY <1>2, <1>3, <1>11, <1>12, <1>15, FreshIs, StartCalms
<1>18. "sso" \in AllOps
  BY DEF AllOps
<1> QED BY <1>2, <1>7, <1>8, <1>11, <1>13, <1>14, <1>15, <1>16, <1>17, <1>18, StartsKeeps

LEMMA PurgeKeeps ==
  ASSUME IInv, NEW w \in Workers, NEW t \in Customers, Purge(w, t)
  PROVE  IInv'
<1> DEFINE sso == {u \in Homed(t) : account[u].sso}
           j == [Idle EXCEPT !.pc = "tenant", !.tenant = t]
           i == [j EXCEPT !.op = "purge"]
<1>1. /\ Starts(w, "purge", j, TRUE)
      /\ \A u \in sso : CanWrite(w, u)
      /\ account' = [u \in Accounts |-> IF u \in sso THEN None ELSE account[u]]
      /\ grant' = WithoutRowsOf(sso, {})
      /\ UNCHANGED <<known, serving, team>>
  BY DEF Purge
<1>2. \A u \in sso : u \in Accounts /\ account[u] # None
  BY DEF Homed, Exists
<1> HIDE DEF sso
<1>3. account' \in Table
  BY <1>1, Typed DEF Table
<1>4. /\ grant' \in Grantings
      /\ \A u \in Accounts, s \in Tenants, k \in Kinds :
           grant'[<<u, s, k>>] = IF u \in sso THEN "none" ELSE grant[<<u, s, k>>]
  BY <1>1, Typed, WithoutRowsOfIs
<1>5. Isolated(account', grant')
  <2> SUFFICES ASSUME NEW u \in Accounts, NEW s \in Tenants, NEW k \in Kinds
               PROVE  /\ account'[u] = None => grant'[<<u, s, k>>] = "none"
                      /\ account'[u] # None /\ account'[u].home # Provider =>
                           /\ grant'[<<u, s, k>>] # "group"
                           /\ grant'[<<u, s, k>>] # "none" => s = account'[u].home
    BY DEF Isolated
  <2>1. /\ account[u] = None => grant[<<u, s, k>>] = "none"
        /\ account[u] # None /\ account[u].home # Provider =>
             /\ grant[<<u, s, k>>] # "group"
             /\ grant[<<u, s, k>>] # "none" => s = account[u].home
    BY Typed DEF Isolated
  <2> QED BY <1>1, <1>4, <2>1
<1>6. /\ j \in Jobs /\ j.pend = Idle.pend /\ j.doomed = {} /\ j.snap = FALSE
      /\ j.pc = "tenant" /\ j.tenant = t
  BY IdleIsJob, IdleHolds DEF Jobs, Tenants
<1> HIDE DEF j
<1>7. /\ i.pend = Idle.pend /\ i.doomed = {} /\ i.snap = FALSE
      /\ i.pc = "tenant" /\ i.tenant = t /\ i.op = "purge"
  BY <1>6 DEF Jobs
<1>8. Sound(i, account', known, team')
  <2> HIDE DEF i
  <2> QED BY <1>7, IdleHolds DEF Sound, ByTeamOps
<1>9. \A u \in Accounts : ~Locked(j, u)
  BY <1>6, IdleHolds DEF Locked
<1>10. team' \in TeamTable /\ \A g \in Teams : team[g] # None => team'[g] # None
  BY <1>1, Typed
<1>11. /\ \A u \in Accounts : account'[u] # account[u] =>
            account[u] # None /\ account'[u] = None /\ CanWrite(w, u)
       /\ Lawfully(account')
  BY <1>1, <1>2, Typed DEF Lawfully, Lawful
<1>12. ASSUME NEW v \in Workers \ {w}
       PROVE  Calm(job[v], account, known, team, account', known, team')
  BY <1>1, <1>3, <1>10, <1>11, StartCalms
<1>13. "purge" \in AllOps
  BY DEF AllOps
<1> QED BY <1>1, <1>3, <1>4, <1>5, <1>6, <1>8, <1>9, <1>10, <1>11, <1>12, <1>13, StartsKeeps

(* What changes neither the accounts nor the rows nor a job, and takes no  *)
(* team away, disturbs nobody.                                             *)
LEMMA AsideKeeps ==
  ASSUME IInv, TypeOK', UNCHANGED <<account, known, grant, job>>,
         \A w \in Workers : job[w].snap => team'[job[w].team] # None
  PROVE  IInv'
<1>1. ASSUME NEW w \in Workers PROVE Sound(job'[w], account', known', team')
  BY Typed DEF Sound
<1>2. Apart' /\ Isolated(account', grant') /\ Lawfully(account')
  BY DEF IInv, Apart
<1> QED BY <1>1, <1>2 DEF IInv

LEMMA CountsTyped ==
  ASSUME IInv, Counts
  PROVE  changes' \in 0..MaxChanges
BY GrantsAssumption DEF IInv, TypeOK, Counts

LEMMA EditThenSyncKeeps ==
  ASSUME IInv, NEW w \in Workers, NEW g \in Teams, NEW row \in TeamRows, EditThenSync(w, g, row)
  PROVE  IInv'
<1>1. team' = [team EXCEPT ![g] = row] /\ UNCHANGED access
  BY DEF EditThenSync
<1>2. team' \in TeamTable /\ \A h \in Teams : team[h] # None => team'[h] # None
  BY <1>1, Typed, GrantsAssumption DEF TeamTable
<1>3. CASE Starts(w, "sync", Fetched(g), FALSE)
  <2>1. "sync" \in AllOps /\ "sync" \in ByTeamOps
    BY DEF AllOps, ByTeamOps
  <2> QED BY <1>1, <1>2, <1>3, <2>1, FetchedIs, StartsQuietly
<1>4. CASE /\ Counts /\ history' = history \union {"unsynced"}
           /\ UNCHANGED <<job, directory, scene, crashes>>
  <2>1. UNCHANGED <<account, known, serving, grant>>
    BY <1>1 DEF access
  <2>2. TypeOK'
    BY <1>2, <1>4, <2>1, CountsTyped DEF IInv, TypeOK, AccessTypeOK, TeamTable
  <2>3. \A v \in Workers : job[v].snap => team'[job[v].team] # None
    BY <1>2, Typed DEF Sound
  <2> QED BY <1>4, <2>1, <2>2, <2>3, AsideKeeps
<1> QED BY <1>3, <1>4 DEF EditThenSync

LEMMA CreateTeamKeeps ==
  ASSUME IInv, NEW w \in Workers, NEW g \in Teams, NEW role \in Kinds, CreateTeam(w, g, role)
  PROVE  IInv'
<1>1. [role |-> role, tenants |-> {}, members |-> {}] \in TeamRows
  BY DEF TeamRows
<1> QED BY <1>1, EditThenSyncKeeps DEF CreateTeam

LEMMA SetTeamTenantsKeeps ==
  ASSUME IInv, NEW w \in Workers, NEW g \in Teams, NEW ts \in SUBSET Tenants,
         SetTeamTenants(w, g, ts)
  PROVE  IInv'
<1>1. team[g] \in TeamRows
  BY Typed DEF TeamTable, SetTeamTenants
<1>2. [team[g] EXCEPT !.tenants = ts] \in TeamRows
  BY <1>1 DEF TeamRows
<1> QED BY <1>2, EditThenSyncKeeps DEF SetTeamTenants

LEMMA RequestsKeep ==
  ASSUME IInv, NEW w \in Workers, Request(w)
  PROVE  IInv'
<1>1. ASSUME NEW g \in Teams,
             \/ SyncFetch(w, g)
             \/ \E role \in Kinds : CreateTeam(w, g, role)
             \/ \E ts \in SUBSET Tenants : SetTeamTenants(w, g, ts)
      PROVE  IInv'
  BY <1>1, SyncFetchKeeps, CreateTeamKeeps, SetTeamTenantsKeeps
<1>2. ASSUME NEW u \in Accounts,
             \/ Login(w, u) \/ Promote(w, u) \/ Demote(w, u) \/ DeleteUser(w, u)
             \/ \E role \in Kinds : SetRole(w, u, role)
             \/ \E invited \in BOOLEAN : CreateSuperadmin(w, u, invited)
             \/ \E role \in Kinds, t \in Tenants, invited \in BOOLEAN :
                  CreateLocal(w, u, role, t, invited)
      PROVE  IInv'
  BY <1>2, LoginKeeps, PromoteKeeps, DemoteKeeps, DeleteUserKeeps, SetRoleKeeps,
     CreateSuperadminKeeps, CreateLocalKeeps
<1>3. ASSUME NEW op \in AllOps, NEW us \in SUBSET {u \in Accounts : Exists(u)},
             NEW ts \in SUBSET Tenants, Assign(w, op, us, ts)
      PROVE  IInv'
  <2>1. us \in SUBSET Accounts
    OBVIOUS
  <2> QED BY <1>3, <2>1, AssignKeeps
<1>4. ASSUME NEW t \in Tenants, NEW admins \in SUBSET Accounts, NEW auditors \in SUBSET Accounts,
             SsoSync(w, t, admins, auditors)
      PROVE  IInv'
  BY <1>4, SsoSyncKeeps
<1>5. ASSUME NEW t \in Customers, Purge(w, t) PROVE IInv'
  BY <1>5, PurgeKeeps
<1> QED BY <1>1, <1>2, <1>3, <1>4, <1>5 DEF Request

-----------------------------------------------------------------------------
(* The world outside, crashes, and the start                               *)

LEMMA WorldKeeps ==
  ASSUME IInv, World
  PROVE  IInv'
<1>0. {"unsynced", "overlap", "crash"} \subseteq {"overlap", "crash", "unsynced"}
  OBVIOUS
<1>1. ASSUME NEW t \in Customers, Serve(t) PROVE IInv'
  <2>1. AccessTypeOK'
    BY <1>1 DEF Serve, IInv, TypeOK, AccessTypeOK
  <2>2. TypeOK'
    BY <1>1, <2>1, CountsTyped DEF Serve, IInv, TypeOK, Marks
  <2>3. \A v \in Workers : job[v].snap => team'[job[v].team] # None
    BY <1>1, Typed DEF Sound, Serve
  <2> QED BY <1>1, <2>2, <2>3, AsideKeeps DEF Serve
<1>2. ASSUME NEW g \in Teams, NEW row \in TeamRows \union {None}, Edit(g, row) PROVE IInv'
  <2>1. /\ UNCHANGED <<account, known, serving, grant, job, directory, scene, crashes>>
        /\ team' = [team EXCEPT ![g] = row] /\ Counts
        /\ history' = history \union {"unsynced"} \union Marks("overlap", Overlaps(None))
        /\ \A v \in Workers : ~(job[v].snap /\ job[v].team = g)
    BY <1>2 DEF Edit, access, LocksTeam
  <2>2. team' \in TeamTable
    BY <2>1, Typed DEF TeamTable
  <2>3. TypeOK'
    BY <2>1, <2>2, CountsTyped DEF IInv, TypeOK, AccessTypeOK, TeamTable, Marks
  <2>4. \A v \in Workers : job[v].snap => team'[job[v].team] # None
    BY <2>1, Typed DEF Sound, TeamTable
  <2> QED BY <2>1, <2>3, <2>4, AsideKeeps
<1>3. ASSUME NEW g \in Teams, NEW role \in Kinds, UpdateTeam(g, role) PROVE IInv'
  <2>1. team[g] \in TeamRows
    BY <1>3, Typed DEF UpdateTeam, TeamTable
  <2>2. [team[g] EXCEPT !.role = role] \in TeamRows
    BY <2>1 DEF TeamRows
  <2> QED BY <1>2, <1>3, <2>2 DEF UpdateTeam
<1>4. ASSUME NEW g \in Teams, DeleteTeam(g) PROVE IInv'
  BY <1>2, <1>4 DEF DeleteTeam
<1>5. ASSUME NEW g \in Teams, NEW u \in Movers, Membership(g, u) PROVE IInv'
  <2>1. UNCHANGED <<account, known, serving, grant, team, job, scene, crashes, history>> /\ Counts
    BY <1>5 DEF Membership, access
  <2>2. directory' \in [Teams -> SUBSET Accounts]
    BY <1>5, Typed, GrantsAssumption DEF Membership
  <2>3. TypeOK'
    BY <2>1, <2>2, CountsTyped DEF IInv, TypeOK, AccessTypeOK
  <2>4. \A v \in Workers : job[v].snap => team'[job[v].team] # None
    BY <2>1, Typed DEF Sound
  <2> QED BY <2>1, <2>3, <2>4, AsideKeeps
<1>6. CASE Crash
  <2>1. /\ UNCHANGED <<account, known, serving, grant, team, directory, scene, changes>>
        /\ job' = [w \in Workers |-> Idle] /\ history' = history \union {"crash"}
        /\ crashes < MaxCrashes /\ crashes' = crashes + 1
    BY <1>6 DEF Crash, access
  <2>2. crashes' \in 0..MaxCrashes
    BY <2>1, GrantsAssumption DEF IInv, TypeOK
  <2>3. TypeOK'
    BY <2>1, <2>2, IdleIsJob DEF IInv, TypeOK, AccessTypeOK
  <2>4. \A w \in Workers : Sound(job'[w], account', known', team')
    BY <2>1, IdleIsSound
  <2>5. Apart' /\ Isolated(account', grant') /\ Lawfully(account')
    BY <2>1, Typed, IdleHolds DEF Apart
  <2> QED BY <2>3, <2>4, <2>5 DEF IInv
<1> QED BY <1>1, <1>3, <1>4, <1>5, <1>6 DEF World

LEMMA InitIs == Init => IInv
<1> SUFFICES ASSUME Init PROVE IInv
  OBVIOUS
<1>1. TypeOK
  <2>1. scene \in Scenes /\ account \in Table /\ team \in TeamTable
        /\ directory \in [Teams -> SUBSET Accounts]
    BY GrantsAssumption DEF Init, Table, TeamTable
  <2>2. grant \in [Accounts \X Tenants \X Kinds -> Sources]
    BY GrantsAssumption DEF Init
  <2>3. known \subseteq Customers /\ serving \subseteq known /\ job \in [Workers -> Jobs]
    BY IdleIsJob DEF Init
  <2>4. changes \in 0..MaxChanges /\ crashes \in 0..MaxCrashes
    BY GrantsAssumption DEF Init
  <2>5. history \subseteq {"overlap", "crash", "unsynced"}
    BY DEF Init, Marks
  <2> QED BY <2>1, <2>2, <2>3, <2>4, <2>5 DEF TypeOK, AccessTypeOK, Table, TeamTable
<1>2. Isolated(account, grant)
  <2> SUFFICES ASSUME NEW u \in Accounts, NEW t \in Tenants, NEW k \in Kinds
               PROVE  /\ account[u] = None => grant[<<u, t, k>>] = "none"
                      /\ account[u] # None /\ account[u].home # Provider =>
                           /\ grant[<<u, t, k>>] # "group"
                           /\ grant[<<u, t, k>>] # "none" => t = account[u].home
    BY DEF Isolated
  <2>1. scene \in Scenes /\ account = StartAccount[scene] /\ grant = StartGrant[scene]
    BY DEF Init
  <2> QED BY <2>1, StartAssumption
<1>3. \A w \in Workers : Sound(job[w], account, known, team)
  BY IdleIsSound DEF Init
<1>4. Apart
  BY IdleHolds DEF Init, Apart
<1>5. Lawfully(account)
  BY StartAssumption DEF Init, Lawfully, Lawful
<1> QED BY <1>1, <1>2, <1>3, <1>4, <1>5 DEF IInv

LEMMA StillKeeps ==
  ASSUME IInv, UNCHANGED vars
  PROVE  IInv'
<1>1. UNCHANGED <<account, known, serving, grant, team, directory, job, scene, changes, crashes, history>>
  BY DEF vars, access, bounds
<1>2. TypeOK'
  BY <1>1 DEF IInv, TypeOK, AccessTypeOK
<1>3. \A w \in Workers : job[w].snap => team'[job[w].team] # None
  BY <1>1, Typed DEF Sound
<1> QED BY <1>1, <1>2, <1>3, AsideKeeps

LEMMA Keeps == IInv /\ [Next]_vars => IInv'
BY WorldKeeps, RequestsKeep, StepsKeep, StillKeeps DEF Next

LEMMA Invariance == Spec => []IInv
BY InitIs, Keeps, PTL DEF Spec

-----------------------------------------------------------------------------
(* What the code promises                                                  *)

(* The types of the accounts, the tenants, the rows, the teams and the     *)
(* jobs, for every number of them: what a foreign key or a NOT NULL would  *)
(* refuse (a row without an account, a team without a role) is never       *)
(* written.                                                                *)
THEOREM GrantsTyped == Spec => []TypeOK
<1>1. IInv => TypeOK
  BY DEF IInv
<1> QED BY <1>1, Invariance, PTL

(* Customer isolation, whatever the requests and however their commits     *)
(* interleave: although the cross-grant lock and the provider gate of the  *)
(* reconcile are read some commits before the rows are written, no account *)
(* of a customer ever holds a row of another tenant or of a team.          *)
THEOREM CustomersStayIsolated == Spec => []CustomerIsolation
BY Invariance, InvIsolates, PTL

(* Hence the gate of every tenant-scoped request and the audit log answer  *)
(* such an account for its home alone, while that is active, whatever      *)
(* tenant its token names.                                                 *)
THEOREM CustomersStayHome == Spec => []CustomerStaysHome
<1>1. IInv => CustomerStaysHome
  <2> SUFFICES ASSUME IInv, NEW u \in Accounts, NEW claim \in Tenants \union {None},
                      account[u] # None, account[u].home # Provider, ~IsSuperadmin(u),
                      NEW t \in Resolved(u, claim, TRUE) \union Resolved(u, claim, FALSE) \union
                                AuditSeen(u, claim)
               PROVE  t = account[u].home /\ t \in serving
    BY DEF CustomerStaysHome, Exists
  <2>1. PICK write \in BOOLEAN : t \in Resolved(u, claim, write)
    BY DEF AuditSeen
  <2>2. IsActive(t) /\ (t \in WriteTenants(u) \/ t \in ReadTenants(u))
    BY <2>1 DEF Resolved, IsAllowed
  <2>3. \A k \in Kinds : t \in Rows(u, k) => t = account[u].home
    BY Typed DEF Isolated, Rows
  <2>4. t = account[u].home
    BY <2>2, <2>3 DEF WriteTenants, ReadTenants, HomeAdmin, Kinds
  <2> QED BY <2>2, <2>4 DEF IsActive
<1> QED BY <1>1, Invariance, PTL

-----------------------------------------------------------------------------
(* Who moves in a step                                                     *)

LEMMA StepIs ==
  ASSUME NEW w \in Workers, Step(w)
  PROVE  /\ job[w].pc # "idle"
         /\ \/ \E j : Go(w, j)
            \/ \E g, j : Commit(w, g, j)
            \/ PurgeTenant(w)
            \/ FinishRefused(w)
<1>1. CASE SyncSnapshot(w) \/ SyncMembersDone(w) \/ SyncLeavers(w) \/ Diff(w) \/ WriteDone(w)
           \/ AssignDone(w) \/ ClearNext(w)
  <2>1. job[w].pc # "idle"
    BY <1>1 DEF SyncSnapshot, SyncMembersDone, SyncLeavers, Diff, WriteDone, Written, AssignDone,
                ClearNext, At
  <2>2. \E j : Go(w, j)
    BY <1>1 DEF SyncSnapshot, SyncMembersDone, SyncLeavers, Diff, WriteDone, AssignDone, ClearNext
  <2> QED BY <2>1, <2>2
<1>2. CASE SyncTeamGone(w) \/ WriteRefused(w)
  BY <1>2 DEF SyncTeamGone, WriteRefused, At, Abandon
<1>3. CASE Revoke(w) \/ Deactivate(w) \/ Finish(w) \/ PurgeTenant(w) \/ FinishRefused(w)
  BY <1>3 DEF Revoke, Deactivate, Finish, FinishRefused, Finished, PurgeTenant, At
<1>4. ASSUME NEW u \in Accounts, SyncMember(w, u) \/ AssignAccount(w, u) \/ SsoRemove(w, u)
      PROVE  job[w].pc # "idle" /\ \E j : Go(w, j)
  <2>1. job[w].pc # "idle"
    BY <1>4 DEF SyncMember, AssignAccount, SsoRemove, At
  <2>2. \E j : Go(w, j)
    BY <1>4 DEF SyncMember, AssignAccount, SsoRemove
  <2> QED BY <2>1, <2>2
<1>5. ASSUME NEW t \in Tenants,
             \/ WriteAdd(w, t) \/ WriteRemove(w, t)
             \/ MigrateAdd(w, t) \/ MigrateRemove(w, t) \/ Clear(w, t)
      PROVE  job[w].pc # "idle" /\ ((\E j : Go(w, j)) \/ (\E g, j : Commit(w, g, j)))
  <2>1. job[w].pc # "idle"
    BY <1>5 DEF WriteAdd, WriteRemove, MigrateAdd, MigrateRemove, Clear, At
  <2>2. (\E j : Go(w, j)) \/ (\E g, j : Commit(w, g, j))
    BY <1>5 DEF WriteAdd, WriteRemove, MigrateAdd, MigrateRemove, Clear, Abandon
  <2> QED BY <2>1, <2>2
<1> QED BY <1>1, <1>2, <1>3, <1>4, <1>5 DEF Step

LEMMA RefusedEnds ==
  ASSUME IInv, NEW w \in Workers, FinishRefused(w)
  PROVE  job'[w] = Idle /\ UNCHANGED <<account, known, serving, grant, team, directory>>
BY DEF IInv, TypeOK, FinishRefused, access

LEMMA StepAlone ==
  ASSUME IInv, NEW w \in Workers, Step(w)
  PROVE  /\ job[w].pc # "idle"
         /\ \A v \in Workers \ {w} : job'[v] = job[v]
         /\ UNCHANGED scene /\ history \subseteq history'
         /\ ~FinishRefused(w) => UNCHANGED history
<1>1. job \in [Workers -> Jobs]
  BY DEF IInv, TypeOK
<1> QED BY <1>1, StepIs DEF Go, Commit, PurgeTenant, FinishRefused, bounds

LEMMA RequestAlone ==
  ASSUME IInv, NEW w \in Workers, Request(w)
  PROVE  /\ job[w].pc = "idle"
         /\ \A v \in Workers \ {w} : job'[v] = job[v]
         /\ scene' = scene /\ history \subseteq history'
<1>1. job[w].pc = "idle"
  BY DEF Request, At
<1>2. job \in [Workers -> Jobs]
  BY DEF IInv, TypeOK
<1>3. \/ \E op, j, unsynced : Starts(w, op, j, unsynced)
      \/ UNCHANGED <<job, scene>> /\ history \subseteq history'
  <2>1. CASE \E g \in Teams : \/ SyncFetch(w, g)
                              \/ \E role \in Kinds : CreateTeam(w, g, role)
                              \/ \E ts \in SUBSET Tenants : SetTeamTenants(w, g, ts)
    BY <2>1 DEF SyncFetch, CreateTeam, SetTeamTenants, EditThenSync
  <2>2. CASE \E u \in Accounts :
               \/ Login(w, u) \/ Promote(w, u) \/ Demote(w, u) \/ DeleteUser(w, u)
               \/ \E role \in Kinds : SetRole(w, u, role)
    BY <2>2 DEF Login, Promote, Demote, DeleteUser, SetRole
  <2>3. CASE \E u \in Accounts :
               \/ \E invited \in BOOLEAN : CreateSuperadmin(w, u, invited)
               \/ \E role \in Kinds, t \in Tenants, invited \in BOOLEAN :
                    CreateLocal(w, u, role, t, invited)
    <3>1. \E u \in Accounts : \E row, ts, invited : CreateAccount(w, u, row, ts, invited)
      BY <2>3 DEF CreateSuperadmin, CreateLocal
    <3> QED BY <3>1 DEF CreateAccount
  <2>4. CASE \E op \in AllOps, us \in SUBSET {u \in Accounts : Exists(u)}, ts \in SUBSET Tenants :
               Assign(w, op, us, ts)
    BY <2>4 DEF Assign
  <2>5. CASE \E t \in Tenants, admins, auditors \in SUBSET Accounts : SsoSync(w, t, admins, auditors)
    <3>1. PICK t \in Tenants, admins \in SUBSET Accounts, auditors \in SUBSET Accounts :
            SsoSync(w, t, admins, auditors)
      BY <2>5
    <3>2. \E j : Starts(w, "sso", j, TRUE)
      BY <3>1 DEF SsoSync
    <3> QED BY <3>2
  <2>6. CASE \E t \in Customers : Purge(w, t)
    BY <2>6 DEF Purge
  <2> QED BY <2>1, <2>2, <2>3, <2>4, <2>5, <2>6 DEF Request
<1> QED BY <1>1, <1>2, <1>3 DEF Starts

LEMMA WorldAlone ==
  ASSUME World
  PROVE  /\ UNCHANGED <<account, grant, scene>> /\ history \subseteq history'
         /\ job' = job \/ job' = [w \in Workers |-> Idle]
<1>1. CASE \E t \in Customers : Serve(t)
  BY <1>1 DEF Serve
<1>2. CASE \E g \in Teams, role \in Kinds : UpdateTeam(g, role)
  BY <1>2 DEF UpdateTeam, Edit, access
<1>3. CASE \E g \in Teams : DeleteTeam(g)
  BY <1>3 DEF DeleteTeam, Edit, access
<1>4. CASE \E g \in Teams, u \in Movers : Membership(g, u)
  BY <1>4 DEF Membership, access
<1>5. CASE Crash
  BY <1>5 DEF Crash, access
<1> QED BY <1>1, <1>2, <1>3, <1>4, <1>5 DEF World

(* A job under way goes on by a step of its own, or ends in a crash. *)
LEMMA GoesOn ==
  ASSUME IInv, [Next]_vars, NEW w \in Workers, job[w].pc # "idle", job'[w] # job[w]
  PROVE  Step(w) \/ UNCHANGED <<account, grant>>
<1>1. CASE UNCHANGED vars
  BY <1>1 DEF vars
<1>2. CASE World
  BY <1>2, WorldAlone
<1>3. ASSUME NEW v \in Workers, Request(v) PROVE FALSE
  BY <1>3, RequestAlone
<1>4. ASSUME NEW v \in Workers, Step(v) PROVE v = w
  BY <1>4, StepAlone
<1> QED BY <1>1, <1>2, <1>3, <1>4 DEF Next

-----------------------------------------------------------------------------
(* What a sync deletes                                                     *)

(* However long after the gate the deletion commits, and whatever happens  *)
(* in between, a sync deletes nobody but SSO accounts at home with the     *)
(* provider: the account is held from the gate to the commit.              *)
THEOREM SyncsSpareOthers == Spec => SyncSparesOthers
<1>1. ASSUME IInv, [Next]_vars, NEW w \in Workers, NEW u \in Accounts,
             Working(w, {"sync"}), Exists(u), account'[u] = None
      PROVE  Staff(u) /\ account[u].sso /\ account[u].role # "superadmin"
  <2>1. /\ job[w].pc # "idle" /\ job[w].op = "sync" /\ job'[w] # job[w]
        /\ account[u] # None /\ account'[u] = None
    BY <1>1 DEF Working, Exists
  <2>2. Step(w)
    BY <1>1, <2>1, GoesOn
  <2>3. CASE \E j : Go(w, j)
    BY <2>1, <2>3 DEF Go, access
  <2>4. CASE \E g, j : Commit(w, g, j)
    <3>1. account' = AccountNow(w)
      BY <2>4 DEF Commit
    <3>2. u \in job[w].doomed
      BY <2>1, <3>1 DEF AccountNow
    <3> QED BY <1>1, <2>1, <3>2, Typed DEF Sound, Staff, Exists, IsProvider
  <2>5. CASE PurgeTenant(w)
    BY <1>1, <2>1, <2>5, Typed DEF Sound, PurgeTenant, At, ByTeamOps
  <2>6. CASE FinishRefused(w)
    BY <2>1, <2>6 DEF FinishRefused, access
  <2> QED BY <2>2, <2>3, <2>4, <2>5, <2>6, StepIs
<1>2. IInv /\ [Next]_vars =>
        \A w \in Workers, u \in Accounts :
          Working(w, {"sync"}) /\ Exists(u) /\ account'[u] = None =>
            Staff(u) /\ account[u].sso /\ account[u].role # "superadmin"
  BY <1>1
<1> QED BY <1>2, Invariance, PTL DEF Spec, SyncSparesOthers

-----------------------------------------------------------------------------
(* Requests that do not overlap                                            *)

Alone == \A v, w \in Workers : v # w => job[v].pc = "idle" \/ job[w].pc = "idle"

(* What a reconcile and a sync are about to take away is not a row made by *)
(* hand.                                                                   *)
Sparing(j, gr) ==
  /\ j.pc = "write" /\ j.op \in ByTeamOps => \A t \in j.del : gr[<<j.user, t, j.kind>>] # "manual"
  /\ j.op = "sync" => \A u \in j.doomed, t \in Tenants, k \in Kinds : gr[<<u, t, k>>] = "none"

(* When the job commits there is a superadmin still, and the accounts the  *)
(* SSO sync may remove are none.                                           *)
Staffed(j, acc) ==
  j.pc # "idle" =>
    /\ HasSuperadmin(NowOf(j, acc))
    /\ j.pc = "remove" => \A u \in j.left : acc[u] # None => acc[u].sso

Undisturbed ==
  "overlap" \notin history =>
    /\ Alone
    /\ \A w \in Workers : Sparing(job[w], grant)
    /\ HasSuperadmin(StartAccount[scene]) =>
         HasSuperadmin(account) /\ \A w \in Workers : Staffed(job[w], account)

LEMMA AtRest ==
  ASSUME NEW j \in Jobs, NEW acc, NEW kn, NEW tm, NEW gr, j.pc = "idle", Sound(j, acc, kn, tm)
  PROVE  Sparing(j, gr) /\ Staffed(j, acc)
BY DEF Sparing, Staffed, Sound, Jobs

LEMMA OwnStep ==
  ASSUME IInv, IInv', Undisturbed, NEW w \in Workers, job[w].pc # "idle",
         \A v \in Workers \ {w} : job'[v] = job[v],
         UNCHANGED scene, history \subseteq history',
         "overlap" \notin history =>
           /\ Sparing(job'[w], grant')
           /\ HasSuperadmin(account) /\ Staffed(job[w], account) =>
                HasSuperadmin(account') /\ Staffed(job'[w], account')
  PROVE  Undisturbed'
<1>0. "overlap" \notin history' => "overlap" \notin history
  OBVIOUS
<1> SUFFICES ASSUME "overlap" \notin history
             PROVE  /\ Alone' /\ \A v \in Workers : Sparing(job'[v], grant')
                    /\ HasSuperadmin(StartAccount[scene]) =>
                         HasSuperadmin(account') /\ \A v \in Workers : Staffed(job'[v], account')
  BY <1>0 DEF Undisturbed
<1>1. \A v \in Workers \ {w} : job'[v] = job[v] /\ job[v].pc = "idle"
  BY DEF Undisturbed, Alone
<1>2. ASSUME NEW v \in Workers \ {w} PROVE Sparing(job'[v], grant') /\ Staffed(job'[v], account')
  <2>1. job'[v] \in Jobs /\ Sound(job'[v], account', known', team')
    BY DEF IInv, TypeOK
  <2> QED BY <1>1, <2>1, AtRest
<1>3. Alone'
  BY <1>1 DEF Alone
<1> QED BY <1>2, <1>3 DEF Undisturbed

LEMMA StartsUndisturbed ==
  ASSUME IInv, IInv', Undisturbed, NEW w \in Workers, NEW op, NEW j, NEW unsynced,
         Starts(w, op, j, unsynced), NEW i, i = [j EXCEPT !.op = op], i.op = op,
         i.pc = "write" => op \notin ByTeamOps,
         op = "sync" => i.doomed = {},
         HasSuperadmin(account) => HasSuperadmin(account') /\ Staffed(i, account')
  PROVE  Undisturbed'
<1>1. job \in [Workers -> Jobs]
  BY DEF IInv, TypeOK
<1>2. /\ job'[w] = i /\ \A v \in Workers \ {w} : job'[v] = job[v]
      /\ scene' = scene /\ history \subseteq history'
      /\ "overlap" \notin history' => ~Overlaps(w)
  BY <1>1 DEF Starts, Marks
<1> SUFFICES ASSUME "overlap" \notin history'
             PROVE  /\ Alone' /\ \A v \in Workers : Sparing(job'[v], grant')
                    /\ HasSuperadmin(StartAccount[scene]) =>
                         HasSuperadmin(account') /\ \A v \in Workers : Staffed(job'[v], account')
  BY <1>2 DEF Undisturbed
<1>3. \A v \in Workers \ {w} : job[v].pc = "idle"
  BY <1>2 DEF Overlaps, Others
<1>4. ASSUME NEW v \in Workers \ {w} PROVE Sparing(job'[v], grant') /\ Staffed(job'[v], account')
  <2>1. job'[v] \in Jobs /\ Sound(job'[v], account', known', team')
    BY DEF IInv, TypeOK
  <2> QED BY <1>2, <1>3, <2>1, AtRest
<1>5. Alone'
  BY <1>2, <1>3 DEF Alone
<1>6. Sparing(job'[w], grant')
  BY <1>2 DEF Sparing
<1>7. HasSuperadmin(StartAccount[scene]) => HasSuperadmin(account') /\ Staffed(job'[w], account')
  BY <1>2 DEF Undisturbed
<1> QED BY <1>2, <1>4, <1>5, <1>6, <1>7

LEMMA AsideUndisturbed ==
  ASSUME IInv, Undisturbed, UNCHANGED <<account, grant, scene>>, history \subseteq history',
         job' = job \/ job' = [w \in Workers |-> Idle]
  PROVE  Undisturbed'
<1> SUFFICES ASSUME "overlap" \notin history'
             PROVE  /\ Alone' /\ \A v \in Workers : Sparing(job'[v], grant')
                    /\ HasSuperadmin(StartAccount[scene]) =>
                         HasSuperadmin(account') /\ \A v \in Workers : Staffed(job'[v], account')
  BY DEF Undisturbed
<1>1. CASE job' = job
  BY <1>1 DEF Undisturbed, Alone
<1>2. CASE job' = [w \in Workers |-> Idle]
  <2>1. Alone' /\ \A v \in Workers : Sparing(job'[v], grant') /\ Staffed(job'[v], account')
    BY <1>2, IdleHolds DEF Alone, Sparing, Staffed
  <2> QED BY <2>1 DEF Undisturbed
<1> QED BY <1>1, <1>2

(* A step that goes on without a word. *)
Still(j, i) ==
  /\ j.pend = i.pend /\ j.doomed = i.doomed /\ j.op = i.op
  /\ j.pc = "write" /\ j.op \in ByTeamOps =>
       i.pc = "write" /\ j.user = i.user /\ j.kind = i.kind /\ j.del \subseteq i.del
  /\ j.pc = "remove" => i.pc = "remove" /\ j.left \subseteq i.left

\* The requests whose guards are to leave a tenant an administrator.
AdminOps == {"role", "set", "remove", "add", "delete", "sso"}

\* A step that does not take up the removal of an administrator, either.
Plain(j, i) == Still(j, i) /\ (i.op \in AdminOps => j.pc \notin {"migrate", "revoke"})

LEMMA StillUndisturbed ==
  ASSUME IInv, IInv', Undisturbed, NEW w \in Workers, job[w].pc # "idle", NEW j, Go(w, j),
         j = Idle \/ Still(j, job[w])
  PROVE  Undisturbed'
<1>1. job \in [Workers -> Jobs]
  BY DEF IInv, TypeOK
<1>2. /\ job'[w] = j /\ \A v \in Workers \ {w} : job'[v] = job[v]
      /\ UNCHANGED <<account, grant, scene, history>>
  BY <1>1 DEF Go, access, bounds
<1>3. CASE j = Idle
  <2>1. Sparing(job'[w], grant') /\ Staffed(job'[w], account')
    BY <1>2, <1>3, IdleHolds DEF Sparing, Staffed
  <2> QED BY <1>2, <2>1, OwnStep
<1>4. CASE Still(j, job[w])
  <2>1. NowOf(j, account) = NowOf(job[w], account)
    BY <1>4 DEF Still, NowOf
  <2>2. Staffed(job[w], account) => Staffed(job'[w], account')
    BY <1>2, <1>4, <2>1 DEF Staffed, Still
  <2>3. "overlap" \notin history => Sparing(job[w], grant)
    BY DEF Undisturbed
  <2>4. "overlap" \notin history => Sparing(job'[w], grant')
    BY <1>2, <1>4, <2>3 DEF Sparing, Still
  <2> QED BY <1>2, <2>2, <2>4, OwnStep
<1> QED BY <1>3, <1>4

LEMMA CommitUndisturbed ==
  ASSUME IInv, IInv', Undisturbed, NEW w \in Workers, job[w].pc # "idle", NEW g, NEW j \in Jobs,
         Commit(w, g, j), j.pc # "remove",
         "overlap" \notin history /\ j.pc = "write" /\ j.op \in ByTeamOps =>
           \A t \in j.del : g[<<j.user, t, j.kind>>] # "manual"
  PROVE  Undisturbed'
<1>1. job \in [Workers -> Jobs]
  BY DEF IInv, TypeOK
<1>2. /\ job'[w] = Keep(j) /\ \A v \in Workers \ {w} : job'[v] = job[v]
      /\ account' = NowOf(job[w], account) /\ grant' = g /\ UNCHANGED <<scene, history>>
  BY <1>1 DEF Commit, bounds, AccountNow, NowOf
<1>3. "overlap" \notin history => Sparing(job'[w], grant')
  BY <1>2, KeepIsJob DEF Sparing
<1>4. NowOf(Keep(j), account') = account'
  <2>1. \A u \in Accounts : Keep(j).pend[u] = None /\ u \notin Keep(j).doomed
    BY KeepIsJob DEF Locked
  <2>2. account' \in Table
    BY Typed, <1>2, NowIsTable
  <2> QED BY <2>1, <2>2 DEF NowOf, Table
<1>5. Staffed(job[w], account) => HasSuperadmin(account') /\ Staffed(job'[w], account')
  BY <1>2, <1>4, KeepIsJob DEF Staffed
<1> QED BY <1>2, <1>3, <1>5, OwnStep

(* The steps that take up nothing new. *)
LEMMA SilentSteps ==
  ASSUME IInv, NEW w \in Workers,
         \/ SyncSnapshot(w) \/ SyncTeamGone(w) \/ SyncMembersDone(w) \/ WriteRefused(w)
         \/ WriteDone(w) \/ AssignDone(w) \/ ClearNext(w)
         \/ \E u \in Accounts : SyncMember(w, u) \/ AssignAccount(w, u)
  PROVE  \E j : Go(w, j) /\ (j = Idle \/ Plain(j, job[w]))
<1>1. job[w] \in Jobs /\ Sound(job[w], account, known, team)
  BY Typed
<1>2. CASE SyncTeamGone(w) \/ WriteRefused(w)
  BY <1>2 DEF SyncTeamGone, WriteRefused, Abandon
<1>3. CASE SyncSnapshot(w)
  <2> DEFINE j == [job[w] EXCEPT !.pc = "member", !.snap = TRUE,
                     !.left = team[job[w].team].members \union job[w].fetched,
                     !.gone = team[job[w].team].members \ job[w].fetched]
  <2>1. Go(w, j) /\ Plain(j, job[w])
    BY <1>1, <1>3 DEF SyncSnapshot, Plain, Still, Jobs, Sound, AdminOps, ByTeamOps
  <2> QED BY <2>1
<1>4. CASE SyncMembersDone(w)
  <2> DEFINE j == [job[w] EXCEPT !.pc = "leavers"]
  <2>1. Go(w, j) /\ Plain(j, job[w])
    BY <1>1, <1>4 DEF SyncMembersDone, Plain, Still, Jobs, Sound, AdminOps, ByTeamOps
  <2> QED BY <2>1
<1>5. CASE AssignDone(w)
  <2> DEFINE j == [job[w] EXCEPT !.pc = "commit"]
  <2>1. Go(w, j) /\ Plain(j, job[w])
    BY <1>1, <1>5 DEF AssignDone, Plain, Still, Jobs, Sound, AdminOps, ByTeamOps
  <2> QED BY <2>1
<1>6. CASE ClearNext(w)
  <2> DEFINE d == Rows(job[w].user, "auditor")
             j == [job[w] EXCEPT !.kind = "auditor", !.del = d]
  <2>1. Go(w, j) /\ job[w].pc = "clear"
    BY <1>6 DEF ClearNext, At
  <2> HIDE DEF d
  <2>2. Plain(j, job[w])
    BY <1>1, <2>1 DEF Plain, Still, Jobs, Sound, AdminOps, ByTeamOps
  <2> QED BY <2>1, <2>2
<1>7. CASE WriteDone(w)
  <2> DEFINE on == [job[w] EXCEPT !.user = None, !.kind = "admin"]
             want == Idle.want
             a == [job[w] EXCEPT !.pc = "diff", !.kind = "auditor"]
             b == [on EXCEPT !.pc = "member", !.want = want]
             c == [on EXCEPT !.pc = "commit"]
             d == [on EXCEPT !.pc = "account"]
  <2>1. Go(w, a) \/ Go(w, b) \/ Go(w, c) \/ Go(w, d)
    BY <1>7 DEF WriteDone
  <2> HIDE DEF want
  <2>2. Plain(a, job[w])
    BY <1>1 DEF Plain, Still, Jobs, Sound, AdminOps, ByTeamOps
  <2>3. Plain(b, job[w])
    BY <1>1 DEF Plain, Still, Jobs, Sound, AdminOps, ByTeamOps
  <2>4. Plain(c, job[w]) /\ Plain(d, job[w])
    BY <1>1 DEF Plain, Still, Jobs, Sound, AdminOps, ByTeamOps
  <2> HIDE DEF a, b, c, d
  <2> QED BY <2>1, <2>2, <2>3, <2>4
<1>8. ASSUME NEW u \in Accounts, SyncMember(w, u)
      PROVE  \E j : Go(w, j) /\ (j = Idle \/ Plain(j, job[w]))
  <2> DEFINE want == Desired(TeamsOf(w, u))
             j == [job[w] EXCEPT !.left = @ \ {u}]
             i == [j EXCEPT !.pc = "diff", !.user = u, !.kind = "admin", !.want = want]
  <2>1. (Go(w, i) \/ Go(w, j)) /\ job[w].pc = "member"
    BY <1>8 DEF SyncMember, At
  <2> HIDE DEF want
  <2>2. Plain(j, job[w]) /\ Plain(i, job[w])
    BY <1>1, <2>1 DEF Plain, Still, Jobs, Sound, AdminOps, ByTeamOps
  <2> HIDE DEF i, j
  <2> QED BY <2>1, <2>2
<1>9. ASSUME NEW u \in Accounts, AssignAccount(w, u)
      PROVE  \E j : Go(w, j) /\ (j = Idle \/ Plain(j, job[w]))
  <2> DEFINE j == [job[w] EXCEPT !.left = @ \ {u}]
             kind == GrantKind(account[u].role)
             existing == Rows(u, kind)
             requested == Requested(w, existing)
             a == requested \ existing
             d == existing \ requested
             i == [j EXCEPT !.pc = "write", !.user = u, !.kind = kind, !.add = a, !.del = d]
  <2>1. (Go(w, i) \/ Go(w, j)) /\ job[w].pc = "account"
    BY <1>9 DEF AssignAccount, At
  <2> HIDE DEF kind, a, d
  <2>2. Plain(j, job[w]) /\ Plain(i, job[w])
    BY <1>1, <2>1 DEF Plain, Still, Jobs, Sound, AdminOps, ByTeamOps
  <2> HIDE DEF i, j
  <2> QED BY <2>1, <2>2
<1> QED BY <1>2, <1>3, <1>4, <1>5, <1>6, <1>7, <1>8, <1>9

LEMMA DiffUndisturbed ==
  ASSUME IInv, IInv', Undisturbed, NEW w \in Workers, Diff(w)
  PROVE  Undisturbed'
<1> DEFINE want == job[w].want[job[w].kind]
           a == want \ Rows(job[w].user, job[w].kind)
           d == GroupRows(job[w].user, job[w].kind) \ want
           j == [job[w] EXCEPT !.pc = "write", !.add = a, !.del = d]
<1>1. job[w] \in Jobs /\ job[w].pc = "diff" /\ Sound(job[w], account, known, team)
  BY Typed DEF Diff, At
<1>2. job \in [Workers -> Jobs] /\ Go(w, j)
  BY DEF Diff, IInv, TypeOK
<1>3. \A t \in d : grant[<<job[w].user, t, job[w].kind>>] = "group"
  BY DEF GroupRows
<1> HIDE DEF a, d
<1>4. /\ j.pend = job[w].pend /\ j.doomed = job[w].doomed /\ j.pc = "write" /\ j.del = d
      /\ j.user = job[w].user /\ j.kind = job[w].kind /\ j.op = job[w].op
  BY <1>1 DEF Jobs
<1> HIDE DEF j
<1>5. /\ job'[w] = j /\ \A v \in Workers \ {w} : job'[v] = job[v]
      /\ UNCHANGED <<account, grant, scene, history>>
  BY <1>2 DEF Go, access, bounds
<1>6. j.doomed = {}
  BY <1>1, <1>4, NotDoomed
<1>7. Sparing(job'[w], grant')
  BY <1>3, <1>4, <1>5, <1>6 DEF Sparing
<1>8. NowOf(j, account) = NowOf(job[w], account)
  BY <1>4 DEF NowOf
<1>9. Staffed(job[w], account) => Staffed(job'[w], account')
  BY <1>1, <1>4, <1>5, <1>8 DEF Staffed
<1> QED BY <1>1, <1>5, <1>7, <1>9, OwnStep

(* A job dooms accounts that are no superadmins. *)
LEMMA DoomsStaffed ==
  ASSUME NEW j \in Jobs, NEW i \in Jobs, NEW acc, HasSuperadmin(NowOf(i, acc)),
         j.pend = i.pend,
         \A u \in j.doomed \ i.doomed :
           i.pend[u] = None /\ (acc[u] # None => acc[u].role # "superadmin")
  PROVE  HasSuperadmin(NowOf(j, acc))
<1>1. PICK u \in Accounts : LET row == NowOf(i, acc)[u] IN
                            row # None /\ row.role = "superadmin" /\ row.active
  BY DEF HasSuperadmin
<1>2. NowOf(j, acc)[u] = NowOf(i, acc)[u]
  BY <1>1 DEF NowOf
<1> QED BY <1>1, <1>2 DEF HasSuperadmin

LEMMA SyncLeaversUndisturbed ==
  ASSUME IInv, IInv', Undisturbed, NEW w \in Workers, SyncLeavers(w)
  PROVE  Undisturbed'
<1> DEFINE doomed == {u \in job[w].gone : FullyDeprovisioned(w, u)}
           j == [job[w] EXCEPT !.pc = "commit", !.doomed = doomed]
<1>1. /\ job[w] \in Jobs /\ job[w].pc = "leavers" /\ Sound(job[w], account, known, team)
      /\ job \in [Workers -> Jobs] /\ Go(w, j)
  BY Typed DEF SyncLeavers, At, IInv, TypeOK
<1>2. \A u \in doomed : /\ u \in Accounts /\ account[u].role # "superadmin"
                        /\ \A t \in Tenants, k \in Kinds : grant[<<u, t, k>>] = "none"
  BY <1>1 DEF FullyDeprovisioned, HasRows, Rows, Jobs
<1> HIDE DEF doomed
<1>3. j.pend = job[w].pend /\ j.doomed = doomed /\ j.pc = "commit" /\ j.op = job[w].op
  BY <1>1 DEF Jobs
<1> HIDE DEF j
<1>4. /\ job'[w] = j /\ \A v \in Workers \ {w} : job'[v] = job[v]
      /\ UNCHANGED <<account, grant, scene, history>>
  BY <1>1 DEF Go, access, bounds
<1>5. Sparing(job'[w], grant')
  BY <1>2, <1>3, <1>4 DEF Sparing
<1>6. \A u \in doomed : job[w].pend[u] = None
  BY <1>1, <1>2 DEF Sound
<1>7. j \in Jobs
  BY <1>4 DEF IInv, TypeOK
<1>8. Staffed(job[w], account) => Staffed(job'[w], account')
  BY <1>1, <1>2, <1>3, <1>4, <1>6, <1>7, DoomsStaffed DEF Staffed
<1> QED BY <1>1, <1>4, <1>5, <1>8, OwnStep

LEMMA SsoRemoveUndisturbed ==
  ASSUME IInv, IInv', Undisturbed, NEW w \in Workers, NEW u \in Accounts, SsoRemove(w, u)
  PROVE  Undisturbed'
<1> DEFINE j == [job[w] EXCEPT !.left = @ \ {u}]
           i == [job[w] EXCEPT !.left = @ \ {u}, !.doomed = @ \union {u}]
<1>1. /\ job[w] \in Jobs /\ Sound(job[w], account, known, team) /\ job[w].pc = "remove"
      /\ u \in job[w].left /\ job \in [Workers -> Jobs]
  BY Typed DEF SsoRemove, At, IInv, TypeOK
<1>2. Go(w, j) \/ (Go(w, i) /\ account[u] # None)
  BY DEF SsoRemove, Exists
<1>3. Still(j, job[w])
  BY <1>1 DEF Still, Jobs
<1>4. /\ i.pend = job[w].pend /\ i.doomed = job[w].doomed \union {u}
      /\ i.pc = "remove" /\ i.op = job[w].op /\ i.left = job[w].left \ {u}
  BY <1>1 DEF Jobs
<1> HIDE DEF i, j
<1>5. ASSUME Go(w, i), account[u] # None PROVE Undisturbed'
  <2>1. /\ job'[w] = i /\ \A v \in Workers \ {w} : job'[v] = job[v]
        /\ UNCHANGED <<account, grant, scene, history>>
    BY <1>1, <1>5 DEF Go, access, bounds
  <2>2. Sparing(job'[w], grant')
    BY <1>1, <1>4, <2>1 DEF Sparing, Sound, ByTeamOps
  <2>3. i \in Jobs
    BY <2>1 DEF IInv, TypeOK
  <2>4. job[w].pend[u] = None
    BY <1>1 DEF Sound
  <2>5. ASSUME Staffed(job[w], account) PROVE Staffed(job'[w], account')
    <3>1. account[u].sso /\ account[u].role # "superadmin"
      BY <1>1, <1>5, <2>5, Typed DEF Staffed, Lawfully, Lawful
    <3>2. HasSuperadmin(NowOf(i, account))
      BY <1>1, <1>4, <2>3, <2>4, <2>5, <3>1, DoomsStaffed DEF Staffed
    <3> QED BY <1>1, <1>4, <2>1, <2>5, <3>2 DEF Staffed
  <2> QED BY <1>1, <2>1, <2>2, <2>5, OwnStep
<1> QED BY <1>1, <1>2, <1>3, <1>5, StillUndisturbed

LEMMA WriteUndisturbed ==
  ASSUME IInv, IInv', Undisturbed, NEW w \in Workers, NEW t \in Tenants,
         WriteAdd(w, t) \/ WriteRemove(w, t)
  PROVE  Undisturbed'
<1> DEFINE u == job[w].user
           k == job[w].kind
           source == IF ByTeam(w) THEN "group" ELSE "manual"
           rest == [job[w] EXCEPT !.add = @ \ {t}]
           less == [job[w] EXCEPT !.del = @ \ {t}]
           rev == [job[w] EXCEPT !.pc = "revoke", !.tenant = t]
<1>1. job[w] \in Jobs /\ Sound(job[w], account, known, team) /\ job[w].pc = "write"
  BY Typed DEF WriteAdd, WriteRemove, At
<1>2. /\ rest \in Jobs /\ rest.pc = "write" /\ rest.op = job[w].op /\ rest.user = u
      /\ rest.kind = k /\ rest.del = job[w].del /\ Still(rest, job[w])
  BY <1>1 DEF Jobs, Still
<1>3. /\ less \in Jobs /\ less.pc = "write" /\ less.op = job[w].op /\ less.user = u
      /\ less.kind = k /\ less.del \subseteq job[w].del
  BY <1>1 DEF Jobs
<1>4. Still(rev, job[w])
  BY <1>1 DEF Jobs, Still
<1>5. \/ Go(w, rest) \/ Go(w, Idle) \/ Go(w, rev)
      \/ Commit(w, WithRow(u, t, k, source), rest)
      \/ ByTeam(w) /\ Commit(w, WithoutRow(u, t, k), less)
  BY DEF WriteAdd, WriteRemove
<1>6. \A s \in job[w].del : <<u, s, k>> \in AllRows
  BY <1>1 DEF AllRows, Sound, Jobs
<1>7. "overlap" \notin history /\ job[w].op \in ByTeamOps =>
        \A s \in job[w].del : grant[<<u, s, k>>] # "manual"
  BY <1>1 DEF Undisturbed, Sparing
<1> HIDE DEF rest, less, rev, u, k
<1>8. CASE Go(w, rest) \/ Go(w, Idle) \/ Go(w, rev)
  BY <1>1, <1>2, <1>4, <1>8, StillUndisturbed
<1>9. CASE Commit(w, WithRow(u, t, k, source), rest)
  <2>1. source \in Sources /\ (job[w].op \in ByTeamOps => source # "manual")
    BY DEF Sources, ByTeam, ByTeamOps
  <2>2. \A x \in AllRows : WithRow(u, t, k, source)[x] =
          IF x = <<u, t, k>> /\ grant[x] = "none" THEN source ELSE grant[x]
    BY <2>1, Typed, WithRowIs
  <2>3. "overlap" \notin history /\ rest.op \in ByTeamOps =>
          \A s \in rest.del : WithRow(u, t, k, source)[<<rest.user, s, rest.kind>>] # "manual"
    BY <1>2, <1>6, <1>7, <2>1, <2>2
  <2> QED BY <1>1, <1>2, <1>9, <2>3, CommitUndisturbed
<1>10. CASE Commit(w, WithoutRow(u, t, k), less)
  <2>1. \A x \in AllRows : WithoutRow(u, t, k)[x] \in {grant[x], "none"}
    BY Typed, WithoutRowIs
  <2>2. "overlap" \notin history /\ less.op \in ByTeamOps =>
          \A s \in less.del : WithoutRow(u, t, k)[<<less.user, s, less.kind>>] # "manual"
    BY <1>3, <1>6, <1>7, <2>1
  <2> QED BY <1>1, <1>3, <1>10, <2>2, CommitUndisturbed
<1> QED BY <1>5, <1>8, <1>9, <1>10

LEMMA CommitsUndisturbed ==
  ASSUME IInv, IInv', Undisturbed, NEW w \in Workers,
         \/ Revoke(w) \/ Deactivate(w) \/ Finish(w)
         \/ \E t \in Tenants : MigrateAdd(w, t) \/ MigrateRemove(w, t) \/ Clear(w, t)
  PROVE  Undisturbed'
<1>1. job[w] \in Jobs /\ Sound(job[w], account, known, team) /\ job[w].pc # "idle"
  BY Typed DEF Revoke, Deactivate, Finish, Finished, MigrateAdd, MigrateRemove, Clear, At
<1>2. CASE Revoke(w)
  <2> DEFINE j == [job[w] EXCEPT !.pc = "write", !.del = @ \ {job[w].tenant}, !.tenant = None]
  <2>1. Commit(w, WithoutRow(job[w].user, job[w].tenant, job[w].kind), j) /\ job[w].pc = "revoke"
    BY <1>2 DEF Revoke, At
  <2>2. j \in Jobs /\ j.op = job[w].op /\ j.pc = "write"
    BY <1>1 DEF Jobs
  <2> HIDE DEF j
  <2>3. j.op \notin ByTeamOps
    BY <1>1, <2>1, <2>2 DEF Sound
  <2> QED BY <1>1, <2>1, <2>2, <2>3, CommitUndisturbed
<1>3. CASE Deactivate(w)
  <2> DEFINE j == [job[w] EXCEPT !.pc = "write"]
  <2>1. Commit(w, grant, j) /\ job[w].pc = "invited"
    BY <1>3 DEF Deactivate, At
  <2>2. j \in Jobs /\ j.op = job[w].op /\ j.pc = "write"
    BY <1>1 DEF Jobs
  <2> HIDE DEF j
  <2>3. j.op \notin ByTeamOps
    BY <1>1, <2>1, <2>2 DEF Sound
  <2> QED BY <1>1, <2>1, <2>2, <2>3, CommitUndisturbed
<1>4. CASE Finish(w)
  <2>1. Idle \in Jobs /\ Idle.pc = "idle"
    BY IdleIsJob, IdleHolds
  <2> QED BY <1>1, <1>4, <2>1, CommitUndisturbed DEF Finish
<1>5. ASSUME NEW t \in Tenants, MigrateAdd(w, t) PROVE Undisturbed'
  <2> DEFINE j == [job[w] EXCEPT !.add = @ \ {t}, !.del = {t}]
  <2>1. /\ Go(w, Idle) \/ Commit(w, WithRow(job[w].user, t, job[w].kind, "manual"), j)
        /\ job[w].pc = "migrate"
    BY <1>5 DEF MigrateAdd, At, Abandon
  <2>2. j \in Jobs /\ j.pc = "migrate"
    BY <1>1, <2>1 DEF Jobs
  <2> HIDE DEF j
  <2> QED BY <1>1, <2>1, <2>2, StillUndisturbed, CommitUndisturbed
<1>6. ASSUME NEW t \in Tenants, MigrateRemove(w, t) PROVE Undisturbed'
  <2> DEFINE j == [job[w] EXCEPT !.del = {}]
  <2>1. /\ Commit(w, WithoutRow(job[w].user, t, OtherKind(job[w].kind)), j)
        /\ job[w].pc = "migrate"
    BY <1>6 DEF MigrateRemove, At
  <2>2. j \in Jobs /\ j.pc = "migrate"
    BY <1>1, <2>1 DEF Jobs
  <2> HIDE DEF j
  <2> QED BY <1>1, <2>1, <2>2, CommitUndisturbed
<1>7. ASSUME NEW t \in Tenants, Clear(w, t) PROVE Undisturbed'
  <2> DEFINE j == [job[w] EXCEPT !.del = @ \ {t}]
  <2>1. /\ Commit(w, WithoutRow(job[w].user, t, job[w].kind), j)
        /\ job[w].pc = "clear"
    BY <1>7 DEF Clear, At
  <2>2. j \in Jobs /\ j.pc = "clear"
    BY <1>1, <2>1 DEF Jobs
  <2> HIDE DEF j
  <2> QED BY <1>1, <2>1, <2>2, CommitUndisturbed
<1> QED BY <1>2, <1>3, <1>4, <1>5, <1>6, <1>7

LEMMA PurgeTenantUndisturbed ==
  ASSUME IInv, IInv', Undisturbed, NEW w \in Workers, PurgeTenant(w)
  PROVE  Undisturbed'
<1>1. /\ job[w].pc # "idle" /\ job \in [Workers -> Jobs] /\ account \in Table
      /\ job' = [job EXCEPT ![w] = Idle] /\ UNCHANGED <<scene, history>>
  BY Typed DEF PurgeTenant, At, IInv, TypeOK, bounds
<1>2. job'[w] = Idle /\ \A v \in Workers \ {w} : job'[v] = job[v]
  BY <1>1
<1>3. \A u \in Accounts : account[u] # None =>
        account'[u] # None /\ account'[u].role = account[u].role /\ account'[u].active = account[u].active
  <2> SUFFICES ASSUME NEW u \in Accounts, account[u] # None
               PROVE  /\ account'[u] # None /\ account'[u].role = account[u].role
                      /\ account'[u].active = account[u].active
    OBVIOUS
  <2>1. account[u] \in AccountRows
    BY <1>1 DEF Table
  <2>2. [account[u] EXCEPT !.home = None] \in AccountRows
    BY <2>1 DEF AccountRows
  <2>3. account'[u] = account[u] \/ account'[u] = [account[u] EXCEPT !.home = None]
    BY DEF PurgeTenant
  <2> QED BY <2>1, <2>2, <2>3, AccessAssumption DEF AccountRows
<1>4. HasSuperadmin(account) => HasSuperadmin(account')
  BY <1>3 DEF HasSuperadmin
<1>5. Sparing(job'[w], grant') /\ Staffed(job'[w], account')
  BY <1>2, IdleHolds DEF Sparing, Staffed
<1> QED BY <1>1, <1>2, <1>4, <1>5, OwnStep

LEMMA StepUndisturbed ==
  ASSUME IInv, IInv', Undisturbed, NEW w \in Workers, Step(w)
  PROVE  Undisturbed'
<1>0. job[w].pc # "idle"
  BY StepAlone
<1>1. CASE \/ SyncSnapshot(w) \/ SyncTeamGone(w) \/ SyncMembersDone(w) \/ WriteRefused(w)
           \/ WriteDone(w) \/ AssignDone(w) \/ ClearNext(w)
           \/ \E u \in Accounts : SyncMember(w, u) \/ AssignAccount(w, u)
  BY <1>0, <1>1, SilentSteps, StillUndisturbed DEF Plain
<1>2. CASE SyncLeavers(w) \/ Diff(w) \/ PurgeTenant(w) \/ \E u \in Accounts : SsoRemove(w, u)
  BY <1>2, SyncLeaversUndisturbed, DiffUndisturbed, PurgeTenantUndisturbed, SsoRemoveUndisturbed
<1>3. CASE \/ Revoke(w) \/ Deactivate(w) \/ Finish(w)
           \/ \E t \in Tenants : MigrateAdd(w, t) \/ MigrateRemove(w, t) \/ Clear(w, t)
  BY <1>3, CommitsUndisturbed
<1>4. CASE \E t \in Tenants : WriteAdd(w, t) \/ WriteRemove(w, t)
  BY <1>4, WriteUndisturbed
<1>5. CASE FinishRefused(w)
  <2>1. job'[w] = Idle /\ UNCHANGED <<account, grant>>
    BY <1>5, RefusedEnds
  <2>2. Sparing(job'[w], grant') /\ Staffed(job'[w], account')
    BY <2>1, IdleHolds DEF Sparing, Staffed
  <2> QED BY <1>0, <2>1, <2>2, StepAlone, OwnStep
<1> QED BY <1>1, <1>2, <1>3, <1>4, <1>5 DEF Step

(* An active superadmin that a request leaves alone is there when it       *)
(* commits.                                                                *)
LEMMA OneIsLeft ==
  ASSUME NEW i, NEW acc, NEW v \in Accounts,
         acc[v] # None, acc[v].role = "superadmin", acc[v].active,
         i.pend[v] = None, v \notin i.doomed
  PROVE  HasSuperadmin(acc) /\ HasSuperadmin(NowOf(i, acc))
<1>1. NowOf(i, acc)[v] = acc[v]
  BY DEF NowOf
<1> QED BY <1>1 DEF HasSuperadmin

LEMMA FetchedUndisturbed ==
  ASSUME IInv, IInv', Undisturbed, NEW w \in Workers, NEW g \in Teams,
         Starts(w, "sync", Fetched(g), FALSE), account' = account
  PROVE  Undisturbed'
<1> DEFINE j == Fetched(g)
           i == [j EXCEPT !.op = "sync"]
<1>1. j \in Jobs /\ j.pc = "snapshot" /\ j.pend = Idle.pend /\ j.doomed = {}
  <2>1. j \in Jobs
    BY FetchedIs
  <2> QED BY <2>1, IdleIsJob, IdleHolds DEF Fetched, Jobs
<1>2. Starts(w, "sync", j, FALSE)
  OBVIOUS
<1> HIDE DEF j
<1>3. i.op = "sync" /\ i.pc = "snapshot" /\ i.pend = Idle.pend /\ i.doomed = {}
  BY <1>1 DEF Jobs
<1>4. HasSuperadmin(account) => HasSuperadmin(account') /\ Staffed(i, account')
  <2> HIDE DEF i
  <2> QED BY <1>3, IdleHolds, OneIsLeft DEF HasSuperadmin, Staffed
<1> QED BY <1>2, <1>3, <1>4, StartsUndisturbed

LEMMA LoginUndisturbed ==
  ASSUME IInv, IInv', Undisturbed, NEW w \in Workers, NEW u \in Accounts, Login(w, u)
  PROVE  Undisturbed'
<1> DEFINE row == SsoRow(TeamRole(u), Provider)
           want == Desired(Claims(u))
           j == [Idle EXCEPT !.pc = "diff", !.user = u, !.want = want, !.pend[u] = row]
           i == [j EXCEPT !.op = "login"]
<1>1. Starts(w, "login", j, Claims(u) # TeamsOf(w, u))
  BY DEF Login
<1>2. /\ account[u] # None => account[u].role # "superadmin"
      /\ \A v \in Accounts : v # u => account'[v] = account[v]
  BY Typed DEF Login, Exists, Lawfully, Lawful, Table
<1> HIDE DEF row, want
<1>3. /\ i.pc = "diff" /\ i.op = "login"
      /\ \A v \in Accounts : v # u => i.pend[v] = None /\ v \notin i.doomed
  BY IdleIsJob, IdleHolds DEF Jobs
<1> HIDE DEF j
<1>4. HasSuperadmin(account) => HasSuperadmin(account') /\ Staffed(i, account')
  <2> HIDE DEF i
  <2> QED BY <1>2, <1>3, OneIsLeft DEF HasSuperadmin, Staffed
<1> QED BY <1>1, <1>3, <1>4, StartsUndisturbed

LEMMA AssignUndisturbed ==
  ASSUME IInv, IInv', Undisturbed, NEW w \in Workers, NEW op \in AllOps, NEW us, NEW ts,
         Assign(w, op, us, ts)
  PROVE  Undisturbed'
<1> DEFINE want == [k \in Kinds |-> ts]
           j == [Idle EXCEPT !.pc = "account", !.left = us, !.want = want]
           i == [j EXCEPT !.op = op]
<1>1. Starts(w, op, j, TRUE) /\ account' = account /\ op # "sync"
  BY DEF Assign, access
<1> HIDE DEF want
<1>2. i.pc = "account" /\ i.op = op /\ i.pend = Idle.pend /\ i.doomed = {}
  BY IdleIsJob, IdleHolds DEF Jobs
<1> HIDE DEF j
<1>3. HasSuperadmin(account) => HasSuperadmin(account') /\ Staffed(i, account')
  <2> HIDE DEF i
  <2> QED BY <1>1, <1>2, IdleHolds, OneIsLeft DEF HasSuperadmin, Staffed
<1> QED BY <1>1, <1>2, <1>3, StartsUndisturbed

LEMMA CreateUndisturbed ==
  ASSUME IInv, IInv', Undisturbed, NEW w \in Workers, NEW u \in Accounts, NEW row, NEW ts,
         NEW invited, CreateAccount(w, u, row, ts, invited)
  PROVE  Undisturbed'
<1> DEFINE kind == GrantKind(row.role)
           held == IF invited THEN [row EXCEPT !.active = FALSE] ELSE None
           pc == IF invited THEN "invited" ELSE "write"
           j == [Idle EXCEPT !.pc = pc, !.user = u, !.kind = kind, !.add = ts, !.pend[u] = held]
           i == [j EXCEPT !.op = "create"]
<1>1. Starts(w, "create", j, TRUE) /\ pc # "remove"
  BY DEF CreateAccount
<1>2. account[u] = None /\ \A v \in Accounts : v # u => account'[v] = account[v]
  BY Typed DEF CreateAccount, Fresh, Exists, Table
<1> HIDE DEF kind, held, pc
<1>3. /\ i.pc = pc /\ i.op = "create"
      /\ \A v \in Accounts : v # u => i.pend[v] = None /\ v \notin i.doomed
  BY IdleIsJob, IdleHolds DEF Jobs
<1> HIDE DEF j
<1>4. HasSuperadmin(account) => HasSuperadmin(account') /\ Staffed(i, account')
  <2> HIDE DEF i
  <2> SUFFICES ASSUME NEW v \in Accounts, account[v] # None, account[v].role = "superadmin",
                      account[v].active
               PROVE  HasSuperadmin(account') /\ Staffed(i, account')
    BY DEF HasSuperadmin
  <2>1. v # u /\ account'[v] = account[v] /\ i.pend[v] = None /\ v \notin i.doomed
    BY <1>2, <1>3
  <2>2. HasSuperadmin(account') /\ HasSuperadmin(NowOf(i, account'))
    BY <2>1, OneIsLeft
  <2> QED BY <1>1, <1>3, <2>2 DEF Staffed
<1>5. "create" \notin ByTeamOps
  BY DEF ByTeamOps
<1> QED BY <1>1, <1>3, <1>4, <1>5, StartsUndisturbed

(* A set with more than one element has one besides any given. *)
LEMMA AnotherOne ==
  ASSUME NEW S, NEW u, Cardinality(S) > 1
  PROVE  \E v \in S : v # u
<1>1. CASE S = {}
  BY <1>1, FS_EmptySet
<1>2. CASE S = {u}
  <2>1. Cardinality({u}) = 1
    BY FS_Singleton, Zenon
  <2> QED BY <1>2, <2>1
<1> QED BY <1>1, <1>2

LEMMA RowUndisturbed ==
  ASSUME IInv, IInv', Undisturbed, NEW w \in Workers, NEW op \in AllOps \ ByTeamOps, NEW j,
         Starts(w, op, j, TRUE), account' = account, NEW u \in Accounts,
         [j EXCEPT !.op = op].op = op, [j EXCEPT !.op = op].pc # "remove",
         \A v \in Accounts : v # u =>
           [j EXCEPT !.op = op].pend[v] = None /\ v \notin [j EXCEPT !.op = op].doomed,
         HasSuperadmin(account) => \E v \in Accounts :
           v # u /\ account[v] # None /\ account[v].role = "superadmin" /\ account[v].active
  PROVE  Undisturbed'
<1> DEFINE i == [j EXCEPT !.op = op]
<1>1. /\ i.op = op /\ i.pc # "remove"
      /\ \A v \in Accounts : v # u => i.pend[v] = None /\ v \notin i.doomed
  OBVIOUS
<1>2. HasSuperadmin(account) => HasSuperadmin(account') /\ Staffed(i, account')
  <2> HIDE DEF i
  <2> QED BY <1>1, OneIsLeft DEF Staffed
<1>3. op # "sync" /\ op \notin ByTeamOps
  BY DEF ByTeamOps
<1> QED BY <1>1, <1>2, <1>3, StartsUndisturbed

LEMMA RolesUndisturbed ==
  ASSUME IInv, IInv', Undisturbed, NEW w \in Workers, NEW u \in Accounts,
         \/ Promote(w, u) \/ Demote(w, u) \/ DeleteUser(w, u)
         \/ \E role \in Kinds : SetRole(w, u, role)
  PROVE  Undisturbed'
<1>0. Idle \in Jobs /\ Idle.doomed = {} /\ \A v \in Accounts : Idle.pend[v] = None
  BY IdleIsJob, IdleHolds
<1>1. ASSUME account[u].role # "superadmin"
      PROVE  HasSuperadmin(account) => \E v \in Accounts :
               v # u /\ account[v] # None /\ account[v].role = "superadmin" /\ account[v].active
  BY <1>1 DEF HasSuperadmin
<1>2. ASSUME Cardinality(Active("superadmin")) > 1
      PROVE  \E v \in Accounts :
               v # u /\ account[v] # None /\ account[v].role = "superadmin" /\ account[v].active
  <2>1. \E v \in Active("superadmin") : v # u
    BY <1>2, AnotherOne
  <2> QED BY <2>1 DEF Active, Exists
<1>3. {"promote", "demote", "delete", "role"} \subseteq AllOps \ ByTeamOps
  BY DEF AllOps, ByTeamOps
<1>4. CASE Promote(w, u)
  <2> DEFINE row == [account[u] EXCEPT !.role = "superadmin"]
             rows == Rows(u, "admin")
             j == [Idle EXCEPT !.pc = "clear", !.user = u, !.del = rows, !.pend[u] = row]
  <2>1. Starts(w, "promote", j, TRUE) /\ account' = account /\ account[u].role # "superadmin"
    BY <1>4 DEF Promote, access
  <2> HIDE DEF row, rows
  <2> DEFINE i == [j EXCEPT !.op = "promote"]
  <2>2. /\ i.op = "promote" /\ i.pc # "remove"
        /\ \A v \in Accounts : v # u => i.pend[v] = None /\ v \notin i.doomed
    BY <1>0 DEF Jobs
  <2> HIDE DEF j
  <2> QED BY <1>1, <1>3, <2>1, <2>2, RowUndisturbed
<1>5. CASE Demote(w, u)
  <2> DEFINE row == [account[u] EXCEPT !.role = "admin"]
             j == [Idle EXCEPT !.pc = "commit", !.pend[u] = row]
  <2>1. Starts(w, "demote", j, TRUE) /\ account' = account /\ Cardinality(Active("superadmin")) > 1
    BY <1>5 DEF Demote, access
  <2> HIDE DEF row
  <2> DEFINE i == [j EXCEPT !.op = "demote"]
  <2>2. /\ i.op = "demote" /\ i.pc # "remove"
        /\ \A v \in Accounts : v # u => i.pend[v] = None /\ v \notin i.doomed
    BY <1>0 DEF Jobs
  <2> HIDE DEF j
  <2> QED BY <1>2, <1>3, <2>1, <2>2, RowUndisturbed
<1>6. CASE DeleteUser(w, u)
  <2> DEFINE j == [Idle EXCEPT !.pc = "commit", !.doomed = {u}]
             i == [j EXCEPT !.op = "delete"]
  <2>1. /\ Starts(w, "delete", j, TRUE) /\ account' = account
        /\ account[u].role = "superadmin" => Cardinality(Active("superadmin")) > 1
    BY <1>6 DEF DeleteUser, access
  <2>2. /\ i.op = "delete" /\ i.pc # "remove"
        /\ \A v \in Accounts : v # u => i.pend[v] = None /\ v \notin i.doomed
    BY <1>0 DEF Jobs
  <2> HIDE DEF j
  <2> QED BY <1>1, <1>2, <1>3, <2>1, <2>2, RowUndisturbed
<1>7. ASSUME NEW role \in Kinds, SetRole(w, u, role) PROVE Undisturbed'
  <2> DEFINE old == account[u].role
             row == [account[u] EXCEPT !.role = role]
             moves == IF ~account[u].sso /\ old # role THEN Rows(u, GrantKind(old)) ELSE {}
             kind == GrantKind(role)
             j == [Idle EXCEPT !.pc = "migrate", !.user = u, !.kind = kind,
                               !.pend[u] = row, !.add = moves]
  <2>1. Starts(w, "role", j, TRUE) /\ account' = account /\ account[u].role # "superadmin"
    BY <1>7 DEF SetRole, access
  <2> HIDE DEF row, moves, kind
  <2> DEFINE i == [j EXCEPT !.op = "role"]
  <2>2. /\ i.op = "role" /\ i.pc # "remove"
        /\ \A v \in Accounts : v # u => i.pend[v] = None /\ v \notin i.doomed
    BY <1>0 DEF Jobs
  <2> HIDE DEF j
  <2> QED BY <1>1, <1>3, <2>1, <2>2, RowUndisturbed
<1> QED BY <1>4, <1>5, <1>6, <1>7

LEMMA SsoSyncUndisturbed ==
  ASSUME IInv, IInv', Undisturbed, NEW w \in Workers, NEW t \in Tenants,
         NEW admins \in SUBSET Accounts, NEW auditors \in SUBSET Accounts,
         SsoSync(w, t, admins, auditors)
  PROVE  Undisturbed'
<1> DEFINE desired == admins \union auditors
           role(u) == IF u \in admins THEN "admin" ELSE "auditor"
           new == {u \in desired : ~Exists(u)}
           kept == {u \in desired : Exists(u) /\ account[u].sso /\ account[u].home = t}
           row(u) == IF u \in new THEN SsoRow(role(u), t)
                     ELSE [account[u] EXCEPT !.role = role(u)]
           mine == new \union {u \in Accounts : Exists(u) /\ account[u].sso /\ account[u].home = t}
           leaving == mine \ desired
           implausible == desired = {} \/ 2 * Cardinality(leaving) > Cardinality(mine)
           left == IF implausible THEN {} ELSE leaving
           pend(early) == [u \in Accounts |-> IF u \in kept \ early THEN row(u) ELSE None]
<1>1. PICK early \in SUBSET kept :
        /\ account' = [u \in Accounts |-> IF u \in new \union early THEN row(u) ELSE account[u]]
        /\ Starts(w, "sso", [Idle EXCEPT !.pc = "remove", !.left = left, !.pend = pend(early)], TRUE)
  BY DEF SsoSync
<1>2. /\ \A u \in new : u \in desired /\ account[u] = None
      /\ \A u \in kept : u \in desired /\ account[u] # None /\ account[u].role # "superadmin"
      /\ \A u \in left : u \in Accounts /\ u \notin desired /\ account[u].sso
  BY Typed DEF Exists, Lawfully, Lawful
<1> DEFINE held == pend(early)
           j == [Idle EXCEPT !.pc = "remove", !.left = left, !.pend = held]
           i == [j EXCEPT !.op = "sso"]
<1>3. Starts(w, "sso", j, TRUE)
  BY <1>1
<1>4. \A u \in Accounts : u \notin kept => held[u] = None
  OBVIOUS
<1>5. \A u \in Accounts : u \notin new \union kept => account'[u] = account[u]
  BY <1>1
<1> HIDE DEF row, new, kept, left, held
<1>6. i.op = "sso" /\ i.pc = "remove" /\ i.left = left /\ i.pend = held /\ i.doomed = {}
  BY IdleIsJob, IdleHolds DEF Jobs
<1> HIDE DEF j
<1>7. HasSuperadmin(account) => HasSuperadmin(account') /\ Staffed(i, account')
  <2> HIDE DEF i
  <2> SUFFICES ASSUME NEW v \in Accounts, account[v] # None, account[v].role = "superadmin",
                      account[v].active
               PROVE  HasSuperadmin(account') /\ Staffed(i, account')
    BY DEF HasSuperadmin
  <2>1. account'[v] = account[v] /\ i.pend[v] = None /\ v \notin i.doomed
    BY <1>2, <1>4, <1>5, <1>6
  <2>2. HasSuperadmin(account') /\ HasSuperadmin(NowOf(i, account'))
    BY <2>1, OneIsLeft
  <2>3. \A u \in i.left : account'[u].sso
    BY <1>2, <1>5, <1>6
  <2> QED BY <2>2, <2>3 DEF Staffed
<1> QED BY <1>3, <1>6, <1>7, StartsUndisturbed

LEMMA PurgeUndisturbed ==
  ASSUME IInv, IInv', Undisturbed, NEW w \in Workers, NEW t \in Customers, Purge(w, t)
  PROVE  Undisturbed'
<1> DEFINE j == [Idle EXCEPT !.pc = "tenant", !.tenant = t]
           i == [j EXCEPT !.op = "purge"]
<1>1. Starts(w, "purge", j, TRUE)
  BY DEF Purge
<1>2. \A v \in Accounts : account[v] # None /\ account[v].role = "superadmin" => account'[v] = account[v]
  BY Typed DEF Purge, Homed, Lawfully, Lawful
<1>3. i.op = "purge" /\ i.pc = "tenant" /\ i.pend = Idle.pend /\ i.doomed = {}
  BY IdleIsJob, IdleHolds DEF Jobs
<1> HIDE DEF j
<1>4. HasSuperadmin(account) => HasSuperadmin(account') /\ Staffed(i, account')
  <2> HIDE DEF i
  <2> QED BY <1>2, <1>3, IdleHolds, OneIsLeft DEF HasSuperadmin, Staffed
<1> QED BY <1>1, <1>3, <1>4, StartsUndisturbed

LEMMA EditUndisturbed ==
  ASSUME IInv, IInv', Undisturbed, NEW w \in Workers, NEW g \in Teams, NEW row,
         EditThenSync(w, g, row)
  PROVE  Undisturbed'
<1>1. UNCHANGED <<account, grant>>
  BY DEF EditThenSync, access
<1>2. CASE Starts(w, "sync", Fetched(g), FALSE)
  BY <1>1, <1>2, FetchedUndisturbed
<1>3. CASE history' = history \union {"unsynced"} /\ UNCHANGED <<job, scene>>
  BY <1>1, <1>3, AsideUndisturbed
<1> QED BY <1>2, <1>3 DEF EditThenSync

LEMMA RequestUndisturbed ==
  ASSUME IInv, IInv', Undisturbed, NEW w \in Workers, Request(w)
  PROVE  Undisturbed'
<1>1. ASSUME NEW g \in Teams,
             \/ SyncFetch(w, g)
             \/ \E role \in Kinds : CreateTeam(w, g, role)
             \/ \E ts \in SUBSET Tenants : SetTeamTenants(w, g, ts)
      PROVE  Undisturbed'
  BY <1>1, FetchedUndisturbed, EditUndisturbed DEF SyncFetch, CreateTeam, SetTeamTenants, access
<1>2. ASSUME NEW u \in Accounts,
             \/ Login(w, u) \/ Promote(w, u) \/ Demote(w, u) \/ DeleteUser(w, u)
             \/ \E role \in Kinds : SetRole(w, u, role)
      PROVE  Undisturbed'
  BY <1>2, LoginUndisturbed, RolesUndisturbed
<1>3. ASSUME NEW u \in Accounts,
             \/ \E invited \in BOOLEAN : CreateSuperadmin(w, u, invited)
             \/ \E role \in Kinds, t \in Tenants, invited \in BOOLEAN :
                  CreateLocal(w, u, role, t, invited)
      PROVE  Undisturbed'
  <2>1. \E row, ts, invited : CreateAccount(w, u, row, ts, invited)
    BY <1>3 DEF CreateSuperadmin, CreateLocal
  <2> QED BY <2>1, CreateUndisturbed
<1>4. ASSUME NEW op \in AllOps, NEW us \in SUBSET {u \in Accounts : Exists(u)},
             NEW ts \in SUBSET Tenants, Assign(w, op, us, ts)
      PROVE  Undisturbed'
  BY <1>4, AssignUndisturbed
<1>5. ASSUME NEW t \in Tenants, NEW admins \in SUBSET Accounts, NEW auditors \in SUBSET Accounts,
             SsoSync(w, t, admins, auditors)
      PROVE  Undisturbed'
  BY <1>5, SsoSyncUndisturbed
<1>6. ASSUME NEW t \in Customers, Purge(w, t) PROVE Undisturbed'
  BY <1>6, PurgeUndisturbed
<1> QED BY <1>1, <1>2, <1>3, <1>4, <1>5, <1>6 DEF Request

LEMMA StaysUndisturbed == IInv /\ IInv' /\ Undisturbed /\ [Next]_vars => Undisturbed'
<1> SUFFICES ASSUME IInv, IInv', Undisturbed, [Next]_vars PROVE Undisturbed'
  OBVIOUS
<1>1. CASE UNCHANGED vars
  BY <1>1, AsideUndisturbed DEF vars, access, bounds
<1>2. CASE World
  BY <1>2, WorldAlone, AsideUndisturbed
<1> QED BY <1>1, <1>2, RequestUndisturbed, StepUndisturbed DEF Next

LEMMA StartsOutUndisturbed == Init => Undisturbed
<1> SUFFICES ASSUME Init PROVE Undisturbed
  OBVIOUS
<1>1. \A w \in Workers : job[w] = Idle
  BY DEF Init
<1>2. Alone /\ \A w \in Workers : Sparing(job[w], grant) /\ Staffed(job[w], account)
  BY <1>1, IdleHolds DEF Alone, Sparing, Staffed
<1>3. HasSuperadmin(StartAccount[scene]) => HasSuperadmin(account)
  BY DEF Init
<1> QED BY <1>2, <1>3 DEF Undisturbed

LEMMA AlwaysUndisturbed == Spec => [](IInv /\ Undisturbed)
<1>1. Init => IInv /\ Undisturbed
  BY InitIs, StartsOutUndisturbed
<1>2. IInv /\ Undisturbed /\ [Next]_vars => (IInv /\ Undisturbed)'
  BY Keeps, StaysUndisturbed
<1> QED BY <1>1, <1>2, PTL DEF Spec

(* As long as requests do not overlap an instance that has a superadmin    *)
(* keeps one that can log in, whoever is created, promoted, demoted,       *)
(* deleted or removed by the SSO sync, and also over a crash.              *)
THEOREM ASuperadminIsKept == Spec => []KeepsASuperadmin
<1>1. IInv /\ Undisturbed => KeepsASuperadmin
  BY DEF Undisturbed, KeepsASuperadmin
<1> QED BY <1>1, AlwaysUndisturbed, PTL

(* A row made by hand survives every sync and every SSO login that no other *)
(* request overlaps: what the reconcile takes away, long after it has read  *)
(* the sources, is still a team's, and a leaver that is deleted has no row. *)
THEOREM ManualRowsSurvive == Spec => ManualSurvives
<1>1. ASSUME IInv, Undisturbed, [Next]_vars, NEW w \in Workers,
             "overlap" \notin history, Working(w, {"sync", "login"}),
             NEW u \in Accounts, NEW t \in Tenants, NEW k \in Kinds, grant[<<u, t, k>>] = "manual"
      PROVE  grant'[<<u, t, k>>] = "manual"
  <2>1. /\ job[w].pc # "idle" /\ job[w].op \in ByTeamOps /\ job'[w] # job[w]
        /\ job[w] \in Jobs /\ Sound(job[w], account, known, team)
        /\ Sparing(job[w], grant) /\ <<u, t, k>> \in AllRows
    BY <1>1, Typed DEF Working, ByTeamOps, Undisturbed, AllRows
  <2>2. CASE UNCHANGED grant
    BY <1>1, <2>2
  <2>3. CASE \E j : Go(w, j)
    BY <1>1, <2>3 DEF Go, access
  <2>4. job[w].pc \notin {"revoke", "invited", "migrate", "clear", "tenant"}
    BY <2>1 DEF Sound
  <2>5. CASE Finish(w)
    <3> DEFINE gone == job[w].doomed
    <3>0. grant' = WithoutRowsOf(gone, {}) /\ grant \in Grantings
      BY <1>1, <2>5, Typed DEF Finish, Commit
    <3> HIDE DEF gone
    <3>1. grant'[<<u, t, k>>] = IF u \in gone THEN "none" ELSE grant[<<u, t, k>>]
      BY <3>0, WithoutAccounts
    <3> USE DEF gone
    <3>2. u \in job[w].doomed => grant[<<u, t, k>>] = "none"
      BY <2>1 DEF Sparing, Sound, ByTeamOps
    <3> QED BY <1>1, <3>0, <3>1, <3>2
  <2>6. ASSUME NEW s \in Tenants, WriteAdd(w, s) PROVE grant'[<<u, t, k>>] = "manual"
    <3>1. \/ \E j : Go(w, j)
          \/ \E source \in Sources : grant' = WithRow(job[w].user, s, job[w].kind, source)
      BY <2>6 DEF WriteAdd, Commit, Sources
    <3>2. ASSUME NEW source \in Sources, grant' = WithRow(job[w].user, s, job[w].kind, source)
          PROVE  grant'[<<u, t, k>>] = "manual"
      BY <1>1, <2>1, <3>2, Typed, WithRowIs
    <3> QED BY <2>3, <3>1, <3>2
  <2>7. ASSUME NEW s \in Tenants, WriteRemove(w, s) PROVE grant'[<<u, t, k>>] = "manual"
    <3>1. grant' = WithoutRow(job[w].user, s, job[w].kind)
      BY <2>1, <2>7 DEF WriteRemove, Commit, ByTeam, ByTeamOps
    <3>2. grant'[<<u, t, k>>] = IF <<u, t, k>> = <<job[w].user, s, job[w].kind>> THEN "none"
                                ELSE grant[<<u, t, k>>]
      BY <1>1, <2>1, <3>1, Typed, WithoutRowIs
    <3>3. grant[<<job[w].user, s, job[w].kind>>] # "manual"
      BY <2>1, <2>7 DEF WriteRemove, At, Sparing
    <3> QED BY <1>1, <3>2, <3>3
  <2>8. Step(w) \/ UNCHANGED grant
    BY <1>1, <2>1, GoesOn
  <2>9. CASE Step(w)
    <3>0. CASE FinishRefused(w)
      BY <1>1, <3>0, RefusedEnds
    <3>1. CASE \/ SyncSnapshot(w) \/ SyncTeamGone(w) \/ SyncMembersDone(w) \/ SyncLeavers(w)
               \/ Diff(w) \/ WriteRefused(w) \/ WriteDone(w) \/ AssignDone(w) \/ ClearNext(w)
      BY <1>1, <3>1 DEF SyncSnapshot, SyncTeamGone, SyncMembersDone, SyncLeavers, Diff, WriteRefused,
                  WriteDone, AssignDone, ClearNext, Abandon, Go, access
    <3>2. CASE \E v \in Accounts : SyncMember(w, v) \/ AssignAccount(w, v) \/ SsoRemove(w, v)
      BY <1>1, <3>2 DEF SyncMember, AssignAccount, SsoRemove, Go, access
    <3>3. CASE \/ Revoke(w) \/ Deactivate(w) \/ PurgeTenant(w)
               \/ \E s \in Tenants : MigrateAdd(w, s) \/ MigrateRemove(w, s) \/ Clear(w, s)
      BY <2>4, <3>3 DEF Revoke, Deactivate, PurgeTenant, MigrateAdd, MigrateRemove, Clear, At
    <3> QED BY <2>5, <2>6, <2>7, <2>9, <3>0, <3>1, <3>2, <3>3 DEF Step
  <2> QED BY <2>2, <2>8, <2>9
<1>2. IInv /\ Undisturbed /\ [Next]_vars =>
        \A w \in Workers, u \in Accounts, t \in Tenants, k \in Kinds :
          /\ "overlap" \notin history
          /\ Working(w, {"sync", "login"})
          /\ grant[<<u, t, k>>] = "manual"
          => grant'[<<u, t, k>>] = "manual"
  BY <1>1
<1> QED BY <1>2, AlwaysUndisturbed, PTL DEF Spec, ManualSurvives

-----------------------------------------------------------------------------
(* Nobody is locked out                                                    *)

Open(t, srv) == t = Provider \/ t \in srv

Admins(acc, gr, t) ==
  {u \in Accounts : /\ acc[u] # None /\ acc[u].active /\ acc[u].role = "admin"
                    /\ gr[<<u, t, "admin">>] # "none" \/ HomeAdmin(acc[u], t)}

(* When the job commits, an active tenant that may lose an administrator   *)
(* by it keeps another one; a job that moves rows to the auditors is about *)
(* somebody who is no administrator any more; and a row about to be        *)
(* revoked is not the last administrator's.                                *)
Minding(j, acc, gr, srv) ==
  j.op \in AdminOps /\ j.pc # "idle" =>
    /\ \A t \in Tenants : \A u \in Admins(acc, gr, t) :
         Open(t, srv) /\ (j.op = "sso" => u \in j.doomed) => Admins(NowOf(j, acc), gr, t) # {}
    /\ j.pc = "migrate" /\ j.kind = "auditor" =>
         LET row == NowOf(j, acc)[j.user] IN row # None => row.role # "admin"
    /\ j.pc = "revoke" /\ j.kind = "admin" /\ Open(j.tenant, srv) =>
         \E v \in Admins(NowOf(j, acc), gr, j.tenant) : v # j.user

Mindful ==
  "overlap" \notin history => \A w \in Workers : Minding(job[w], account, grant, serving)

LEMMA AdminsAre ==
  /\ \A acc, t : TenantAdmins(acc, t) = Admins(acc, grant, t)
  /\ \A t : IsActive(t) <=> Open(t, serving)
  /\ \A acc, gr, t : Admins(acc, gr, t) \subseteq Accounts
BY DEF TenantAdmins, Admins, IsActive, Open

LEMMA MindfulStep ==
  ASSUME IInv, Undisturbed, Mindful, NEW w \in Workers, job[w].pc # "idle",
         \A v \in Workers \ {w} : job'[v] = job[v], history \subseteq history',
         "overlap" \notin history /\ Minding(job[w], account, grant, serving) =>
           Minding(job'[w], account', grant', serving')
  PROVE  Mindful'
<1> SUFFICES ASSUME "overlap" \notin history
             PROVE  \A v \in Workers : Minding(job'[v], account', grant', serving')
  BY DEF Mindful
<1>1. \A v \in Workers \ {w} : job'[v].pc = "idle"
  BY DEF Undisturbed, Alone
<1>2. \A v \in Workers \ {w} : Minding(job'[v], account', grant', serving')
  BY <1>1 DEF Minding
<1>3. Minding(job'[w], account', grant', serving')
  BY DEF Mindful
<1> QED BY <1>2, <1>3

LEMMA MindfulStart ==
  ASSUME IInv, Undisturbed, NEW w \in Workers, NEW op, NEW j, NEW unsynced,
         Starts(w, op, j, unsynced), NEW i, i = [j EXCEPT !.op = op],
         Minding(i, account', grant', serving')
  PROVE  Mindful'
<1>1. job \in [Workers -> Jobs]
  BY DEF IInv, TypeOK
<1>2. /\ job'[w] = i /\ \A v \in Workers \ {w} : job'[v] = job[v]
      /\ "overlap" \notin history' => ~Overlaps(w)
  BY <1>1 DEF Starts, Marks
<1> SUFFICES ASSUME "overlap" \notin history'
             PROVE  \A v \in Workers : Minding(job'[v], account', grant', serving')
  BY DEF Mindful
<1>3. \A v \in Workers \ {w} : job'[v].pc = "idle"
  BY <1>2 DEF Overlaps, Others
<1>4. \A v \in Workers \ {w} : Minding(job'[v], account', grant', serving')
  BY <1>3 DEF Minding
<1> QED BY <1>2, <1>4

LEMMA IdleMinds ==
  ASSUME NEW acc, NEW gr, NEW srv
  PROVE  Minding(Idle, acc, gr, srv)
BY IdleHolds DEF Minding

LEMMA PlainMindful ==
  ASSUME IInv, Undisturbed, Mindful, NEW w \in Workers, job[w].pc # "idle", NEW j, Go(w, j),
         j = Idle \/ Plain(j, job[w])
  PROVE  Mindful'
<1>1. job \in [Workers -> Jobs]
  BY DEF IInv, TypeOK
<1>2. /\ job'[w] = j /\ \A v \in Workers \ {w} : job'[v] = job[v]
      /\ UNCHANGED <<account, grant, serving, history>>
  BY <1>1 DEF Go, access, bounds
<1>3. CASE j = Idle
  BY <1>2, <1>3, IdleMinds, MindfulStep
<1>4. CASE Plain(j, job[w])
  <2>1. NowOf(j, account) = NowOf(job[w], account)
    BY <1>4 DEF Plain, Still, NowOf
  <2>2. Minding(job[w], account, grant, serving) => Minding(j, account, grant, serving)
    BY <1>4, <2>1 DEF Minding, Plain, Still
  <2> QED BY <1>2, <2>2, MindfulStep
<1> QED BY <1>3, <1>4

LEMMA CommitMindful ==
  ASSUME IInv, Undisturbed, Mindful, NEW w \in Workers, job[w].pc # "idle", NEW g,
         NEW j \in Jobs, Commit(w, g, j),
         \/ j.pc = "idle"
         \/ /\ j.op = job[w].op /\ j.pc # "revoke"
            /\ j.pc = "migrate" => job[w].pc = "migrate" /\ j.user = job[w].user
                                   /\ j.kind = job[w].kind
  PROVE  Mindful'
<1>1. job \in [Workers -> Jobs]
  BY DEF IInv, TypeOK
<1>2. /\ job'[w] = Keep(j) /\ \A v \in Workers \ {w} : job'[v] = job[v]
      /\ account' = NowOf(job[w], account) /\ grant' = g /\ UNCHANGED <<serving, history>>
  BY <1>1 DEF Commit, bounds, AccountNow, NowOf
<1>3. NowOf(Keep(j), account') = account'
  <2>1. \A u \in Accounts : Keep(j).pend[u] = None /\ u \notin Keep(j).doomed
    BY KeepIsJob DEF Locked
  <2>2. account' \in Table
    BY Typed, <1>2, NowIsTable
  <2> QED BY <2>1, <2>2 DEF NowOf, Table
<1>4. /\ Keep(j).pc = j.pc /\ Keep(j).op = j.op /\ Keep(j).user = j.user /\ Keep(j).kind = j.kind
  BY KeepIsJob
<1>5. Minding(job[w], account, grant, serving) => Minding(job'[w], account', grant', serving')
  <2> HIDE DEF Mindful
  <2> QED BY <1>2, <1>3, <1>4 DEF Minding
<1> QED BY <1>2, <1>5, MindfulStep

(* More than one, and so one besides any given. *)
LEMMA NotTheLast ==
  ASSUME NEW acc, NEW t, NEW u, ~LastAdmin(acc, t)
  PROVE  \E v \in Admins(acc, grant, t) : v # u
<1> DEFINE S == Admins(acc, grant, t)
<1>1. ~(Cardinality(S) <= 1)
  BY AdminsAre DEF LastAdmin
<1> HIDE DEF S
<1>2. S # {} /\ S # {u}
  <2>1. Cardinality({}) = 0 /\ Cardinality({u}) = 1
    BY FS_EmptySet, FS_Singleton, Zenon
  <2> QED BY <1>1, <2>1
<1>3. \E v \in S : v # u
  BY <1>2
<1> QED BY <1>3 DEF S

(* An administrator of an active tenant is one that tenant is asked about. *)
LEMMA AdminWrites ==
  ASSUME NEW u \in Accounts, NEW t \in Tenants, u \in Admins(account, grant, t), IsActive(t)
  PROVE  t \in WriteTenants(u)
BY DEF Admins, WriteTenants, Rows

LEMMA AdminStays ==
  ASSUME NEW acc, NEW acc2, NEW gr, NEW t, NEW u \in Admins(acc, gr, t), acc2[u] = acc[u]
  PROVE  u \in Admins(acc2, gr, t)
BY DEF Admins

LEMMA WriteRemoveMindful ==
  ASSUME IInv, Undisturbed, Mindful, NEW w \in Workers, NEW t \in Tenants, WriteRemove(w, t)
  PROVE  Mindful'
<1> DEFINE less == [job[w] EXCEPT !.del = @ \ {t}]
           rev == [job[w] EXCEPT !.pc = "revoke", !.tenant = t]
<1>1. /\ job[w] \in Jobs /\ Sound(job[w], account, known, team) /\ job[w].pc = "write"
      /\ job \in [Workers -> Jobs] /\ account \in Table
  BY Typed DEF WriteRemove, At, IInv, TypeOK
<1>2. /\ less \in Jobs /\ less.pc = "write" /\ less.op = job[w].op
      /\ rev.pc = "revoke" /\ rev.op = job[w].op /\ rev.pend = job[w].pend
      /\ rev.doomed = job[w].doomed /\ rev.tenant = t /\ rev.user = job[w].user
      /\ rev.kind = job[w].kind
  BY <1>1 DEF Jobs
<1>3. \/ Go(w, Idle)
      \/ Commit(w, WithoutRow(job[w].user, t, job[w].kind), less)
      \/ ~ByTeam(w) /\ ~WouldLockOut(t, job[w].kind) /\ Go(w, rev)
  BY DEF WriteRemove
<1> HIDE DEF less, rev
<1>4. CASE Go(w, Idle)
  BY <1>1, <1>4, PlainMindful
<1>5. CASE Commit(w, WithoutRow(job[w].user, t, job[w].kind), less)
  BY <1>1, <1>2, <1>5, CommitMindful
<1>6. CASE ~ByTeam(w) /\ ~WouldLockOut(t, job[w].kind) /\ Go(w, rev)
  <2>1. /\ job'[w] = rev /\ \A v \in Workers \ {w} : job'[v] = job[v]
        /\ UNCHANGED <<account, grant, serving, history>>
    BY <1>1, <1>6 DEF Go, access, bounds
  <2>2. NowOf(rev, account) = account
    <3>1. \A u \in Accounts : rev.pend[u] = None /\ u \notin rev.doomed
      BY <1>1, <1>2, <1>6 DEF Sound, ByTeam, ByTeamOps
    <3> QED BY <1>1, <3>1 DEF NowOf, Table
  <2>3. job[w].kind = "admin" /\ Open(t, serving) =>
          \E v \in Admins(account, grant, t) : v # job[w].user
    <3> SUFFICES ASSUME job[w].kind = "admin", Open(t, serving)
                 PROVE  \E v \in Admins(account, grant, t) : v # job[w].user
      OBVIOUS
    <3>1. ~LastAdmin(account, t)
      BY <1>6, AdminsAre DEF WouldLockOut
    <3>2. \A me : \E v \in Admins(account, grant, t) : v # me
      BY <3>1, NotTheLast
    <3> QED BY <3>2
  <2>4. Minding(rev, account, grant, serving)
    BY <1>2, <2>2, <2>3 DEF Minding
  <2> QED BY <1>1, <2>1, <2>4, MindfulStep
<1> QED BY <1>3, <1>4, <1>5, <1>6

LEMMA SsoRemoveMindful ==
  ASSUME IInv, IInv', Undisturbed, Mindful, NEW w \in Workers, NEW u \in Accounts, SsoRemove(w, u)
  PROVE  Mindful'
<1> DEFINE j == [job[w] EXCEPT !.left = @ \ {u}]
           i == [job[w] EXCEPT !.left = @ \ {u}, !.doomed = @ \union {u}]
<1>1. /\ job[w] \in Jobs /\ Sound(job[w], account, known, team) /\ job[w].pc = "remove"
      /\ u \in job[w].left /\ job \in [Workers -> Jobs]
  BY Typed DEF SsoRemove, At, IInv, TypeOK
<1>2. \/ Go(w, j)
      \/ Go(w, i) /\ \A t \in WriteTenants(u) : ~LastAdmin(AccountNow(w), t)
  BY DEF SsoRemove, Exists
<1>3. Plain(j, job[w])
  BY <1>1 DEF Plain, Still, Jobs
<1>4. /\ i.pend = job[w].pend /\ i.doomed = job[w].doomed \union {u}
      /\ i.pc = "remove" /\ i.op = job[w].op
  BY <1>1 DEF Jobs
<1> HIDE DEF i, j
<1>5. ASSUME Go(w, i), \A t \in WriteTenants(u) : ~LastAdmin(AccountNow(w), t)
      PROVE  Mindful'
  <2> DEFINE now == NowOf(job[w], account)
             then == NowOf(i, account)
  <2>1. /\ job'[w] = i /\ \A v \in Workers \ {w} : job'[v] = job[v]
        /\ UNCHANGED <<account, grant, serving, history>>
    BY <1>1, <1>5 DEF Go, access, bounds
  <2>2. job[w].pend[u] = None
    BY <1>1 DEF Sound
  <2>3. \A v \in Accounts : v # u => then[v] = now[v]
    BY <1>4 DEF NowOf
  <2>4. u \notin job[w].doomed => now[u] = account[u]
    BY <2>2 DEF NowOf
  <2>5. now = AccountNow(w)
    BY DEF AccountNow, NowOf
  <2>6. u \in job[w].doomed => then = now
    BY <1>4 DEF NowOf
  <2> HIDE DEF now, then
  <2>7. ASSUME NEW t \in Tenants, IsActive(t), u \in Admins(now, grant, t), u \notin job[w].doomed
        PROVE  Admins(then, grant, t) # {}
    <3>1. u \in Admins(account, grant, t)
      BY <2>4, <2>7, AdminStays
    <3>2. ~LastAdmin(now, t)
      BY <1>5, <2>5, <2>7, <3>1, AdminWrites
    <3>3. PICK v \in Admins(now, grant, t) : v # u
      BY <3>2, NotTheLast
    <3>4. v \in Admins(then, grant, t)
      BY <2>3, <3>3, AdminStays, AdminsAre
    <3> QED BY <3>4
  <2>8. ASSUME Minding(job[w], account, grant, serving)
        PROVE  Minding(i, account, grant, serving)
    <3> SUFFICES ASSUME NEW t \in Tenants, NEW v \in Admins(account, grant, t), IsActive(t),
                        i.op \in AdminOps, i.op = "sso" => v \in i.doomed
                 PROVE  Admins(then, grant, t) # {}
      BY <1>4, AdminsAre DEF Minding, then
    <3>1. CASE u \in job[w].doomed
      <4>1. Admins(now, grant, t) # {}
        BY <1>1, <1>4, <2>8, <3>1, AdminsAre DEF Minding, now
      <4> QED BY <2>6, <3>1, <4>1
    <3>2. CASE u \notin job[w].doomed /\ v = u
      <4>1. u \in Admins(now, grant, t)
        BY <2>4, <3>2, AdminStays
      <4> QED BY <2>7, <3>2, <4>1
    <3>3. CASE u \notin job[w].doomed /\ v # u
      <4>1. PICK x \in Admins(now, grant, t) : TRUE
        BY <1>1, <1>4, <2>8, <3>3, AdminsAre DEF Minding, now
      <4>2. CASE x = u
        BY <2>7, <3>3, <4>1, <4>2
      <4>3. CASE x # u
        <5>1. x \in Admins(then, grant, t)
          BY <2>3, <4>1, <4>3, AdminStays, AdminsAre
        <5> QED BY <5>1
      <4> QED BY <4>2, <4>3
    <3> QED BY <3>1, <3>2, <3>3
  <2> QED BY <1>1, <2>1, <2>8, MindfulStep
<1> QED BY <1>1, <1>2, <1>3, <1>5, PlainMindful

LEMMA CommitsMindful ==
  ASSUME IInv, Undisturbed, Mindful, NEW w \in Workers,
         \/ Revoke(w) \/ Deactivate(w) \/ Finish(w)
         \/ \E t \in Tenants : MigrateAdd(w, t) \/ MigrateRemove(w, t) \/ Clear(w, t)
  PROVE  Mindful'
<1>1. job[w] \in Jobs /\ job[w].pc # "idle"
  BY Typed DEF Revoke, Deactivate, Finish, Finished, MigrateAdd, MigrateRemove, Clear, At
<1>2. CASE Revoke(w)
  <2> DEFINE j == [job[w] EXCEPT !.pc = "write", !.del = @ \ {job[w].tenant}, !.tenant = None]
  <2>1. Commit(w, WithoutRow(job[w].user, job[w].tenant, job[w].kind), j)
    BY <1>2 DEF Revoke
  <2>2. j \in Jobs /\ j.op = job[w].op /\ j.pc = "write"
    BY <1>1 DEF Jobs
  <2> HIDE DEF j
  <2> QED BY <1>1, <2>1, <2>2, CommitMindful
<1>3. CASE Deactivate(w)
  <2> DEFINE j == [job[w] EXCEPT !.pc = "write"]
  <2>1. Commit(w, grant, j)
    BY <1>3 DEF Deactivate
  <2>2. j \in Jobs /\ j.op = job[w].op /\ j.pc = "write"
    BY <1>1 DEF Jobs
  <2> HIDE DEF j
  <2> QED BY <1>1, <2>1, <2>2, CommitMindful
<1>4. CASE Finish(w)
  <2>1. Idle \in Jobs /\ Idle.pc = "idle"
    BY IdleIsJob, IdleHolds
  <2> QED BY <1>1, <1>4, <2>1, CommitMindful DEF Finish
<1>5. ASSUME NEW t \in Tenants, MigrateAdd(w, t) PROVE Mindful'
  <2> DEFINE j == [job[w] EXCEPT !.add = @ \ {t}, !.del = {t}]
  <2>1. /\ Go(w, Idle) \/ Commit(w, WithRow(job[w].user, t, job[w].kind, "manual"), j)
        /\ job[w].pc = "migrate"
    BY <1>5 DEF MigrateAdd, At, Abandon
  <2>2. /\ j \in Jobs /\ j.pc = "migrate" /\ j.op = job[w].op /\ j.user = job[w].user
        /\ j.kind = job[w].kind
    BY <1>1, <2>1 DEF Jobs
  <2> HIDE DEF j
  <2> QED BY <1>1, <2>1, <2>2, PlainMindful, CommitMindful
<1>6. ASSUME NEW t \in Tenants, MigrateRemove(w, t) PROVE Mindful'
  <2> DEFINE j == [job[w] EXCEPT !.del = {}]
  <2>1. /\ Commit(w, WithoutRow(job[w].user, t, OtherKind(job[w].kind)), j)
        /\ job[w].pc = "migrate"
    BY <1>6 DEF MigrateRemove, At
  <2>2. /\ j \in Jobs /\ j.pc = "migrate" /\ j.op = job[w].op /\ j.user = job[w].user
        /\ j.kind = job[w].kind
    BY <1>1, <2>1 DEF Jobs
  <2> HIDE DEF j
  <2> QED BY <1>1, <2>1, <2>2, CommitMindful
<1>7. ASSUME NEW t \in Tenants, Clear(w, t) PROVE Mindful'
  <2> DEFINE j == [job[w] EXCEPT !.del = @ \ {t}]
  <2>1. /\ Commit(w, WithoutRow(job[w].user, t, job[w].kind), j)
        /\ job[w].pc = "clear"
    BY <1>7 DEF Clear, At
  <2>2. j \in Jobs /\ j.pc = "clear" /\ j.op = job[w].op
    BY <1>1, <2>1 DEF Jobs
  <2> HIDE DEF j
  <2> QED BY <1>1, <2>1, <2>2, CommitMindful
<1> QED BY <1>2, <1>3, <1>4, <1>5, <1>6, <1>7

LEMMA StepMindful ==
  ASSUME IInv, IInv', Undisturbed, Mindful, NEW w \in Workers, Step(w)
  PROVE  Mindful'
<1>0. job[w].pc # "idle" /\ job[w] \in Jobs /\ Sound(job[w], account, known, team)
      /\ job \in [Workers -> Jobs]
  BY StepAlone, Typed DEF IInv, TypeOK
<1>1. CASE \/ SyncSnapshot(w) \/ SyncTeamGone(w) \/ SyncMembersDone(w) \/ WriteRefused(w)
           \/ WriteDone(w) \/ AssignDone(w) \/ ClearNext(w)
           \/ \E u \in Accounts : SyncMember(w, u) \/ AssignAccount(w, u)
  BY <1>0, <1>1, SilentSteps, PlainMindful
<1>2. CASE \E u \in Accounts : SsoRemove(w, u)
  BY <1>2, SsoRemoveMindful
<1>3. CASE \/ Revoke(w) \/ Deactivate(w) \/ Finish(w)
           \/ \E t \in Tenants : MigrateAdd(w, t) \/ MigrateRemove(w, t) \/ Clear(w, t)
  BY <1>3, CommitsMindful
<1>4. ASSUME NEW t \in Tenants, WriteAdd(w, t) PROVE Mindful'
  <2> DEFINE rest == [job[w] EXCEPT !.add = @ \ {t}]
  <2>1. /\ job[w].pc = "write"
        /\ \/ Go(w, rest)
           \/ \E g : Commit(w, g, rest)
    BY <1>4 DEF WriteAdd, At
  <2>2. rest \in Jobs /\ rest.pc = "write" /\ rest.op = job[w].op /\ Plain(rest, job[w])
    BY <1>0, <2>1 DEF Jobs, Plain, Still
  <2> HIDE DEF rest
  <2> QED BY <1>0, <2>1, <2>2, PlainMindful, CommitMindful
<1>5. CASE \E t \in Tenants : WriteRemove(w, t)
  BY <1>5, WriteRemoveMindful
<1>6. CASE Diff(w) \/ SyncLeavers(w)
  <2>1. job[w].op \in ByTeamOps
    BY <1>0, <1>6 DEF Diff, SyncLeavers, At, Sound, ByTeamOps
  <2>2. job'[w].op = job[w].op /\ \A v \in Workers \ {w} : job'[v] = job[v]
    <3>1. CASE Diff(w)
      BY <1>0, <3>1 DEF Diff, Go, Jobs
    <3>2. CASE SyncLeavers(w)
      <4> DEFINE doomed == {u \in job[w].gone : FullyDeprovisioned(w, u)}
      <4>1. Go(w, [job[w] EXCEPT !.pc = "commit", !.doomed = doomed])
        BY <3>2 DEF SyncLeavers
      <4> HIDE DEF doomed
      <4> QED BY <1>0, <4>1 DEF Go, Jobs
    <3> QED BY <1>6, <3>1, <3>2
  <2>3. history \subseteq history'
    BY StepAlone
  <2>4. Minding(job'[w], account', grant', serving')
    BY <2>1, <2>2 DEF Minding, AdminOps, ByTeamOps
  <2> QED BY <1>0, <2>2, <2>3, <2>4, MindfulStep
<1>7. CASE PurgeTenant(w)
  <2>1. job'[w] = Idle /\ \A v \in Workers \ {w} : job'[v] = job[v]
    BY <1>0, <1>7 DEF PurgeTenant
  <2>2. history \subseteq history'
    BY StepAlone
  <2> QED BY <1>0, <2>1, <2>2, IdleMinds, MindfulStep
<1>8. CASE FinishRefused(w)
  BY <1>0, <1>8, StepAlone, RefusedEnds, IdleMinds, MindfulStep
<1> QED BY <1>1, <1>2, <1>3, <1>4, <1>5, <1>6, <1>7, <1>8 DEF Step

(* The guards: who stays is an administrator, and who goes is not the last. *)
LEMMA OthersRemain ==
  ASSUME NEW u \in Accounts, NEW acc,
         \A v \in Accounts : v # u => acc[v] = account[v],
         \/ acc[u] = account[u]
         \/ account[u].role = "admin" => NoneLockedOut(u),
         NEW t \in Tenants, NEW v \in Admins(account, grant, t), Open(t, serving)
  PROVE  Admins(acc, grant, t) # {}
<1>1. CASE v # u \/ acc[u] = account[u]
  <2>1. v \in Admins(acc, grant, t)
    BY <1>1, AdminStays, AdminsAre
  <2> QED BY <2>1
<1>2. CASE v = u /\ acc[u] # account[u]
  <2>1. account[u].role = "admin"
    BY <1>2 DEF Admins
  <2>2. ~LastAdmin(account, t)
    BY <1>2, <2>1, AdminWrites, AdminsAre DEF NoneLockedOut
  <2>3. PICK x \in Admins(account, grant, t) : x # u
    BY <2>2, NotTheLast
  <2>4. x \in Admins(acc, grant, t)
    BY <2>3, AdminStays, AdminsAre
  <2> QED BY <2>4
<1> QED BY <1>1, <1>2

LEMMA SetRoleMindful ==
  ASSUME IInv, Undisturbed, NEW w \in Workers, NEW u \in Accounts, NEW role \in Kinds,
         SetRole(w, u, role)
  PROVE  Mindful'
<1> DEFINE old == account[u].role
           row == [account[u] EXCEPT !.role = role]
           moves == IF ~account[u].sso /\ old # role THEN Rows(u, GrantKind(old)) ELSE {}
           kind == GrantKind(role)
           j == [Idle EXCEPT !.pc = "migrate", !.user = u, !.kind = kind,
                             !.pend[u] = row, !.add = moves]
           i == [j EXCEPT !.op = "role"]
<1>1. /\ Starts(w, "role", j, TRUE) /\ UNCHANGED <<account, grant, serving>>
      /\ old = "admin" /\ role # "admin" => NoneLockedOut(u)
      /\ account[u] \in AccountRows
  BY Typed DEF SetRole, access, Exists, Table
<1>2. /\ row.role = role /\ row # None
      /\ role = old => row = account[u]
      /\ kind = "auditor" => role # "admin"
  <2>1. row \in AccountRows /\ row.role = role /\ (role = old => row = account[u])
    BY <1>1 DEF AccountRows, Kinds, Roles
  <2>2. kind = "auditor" => role # "admin"
    BY DEF GrantKind
  <2> HIDE DEF row
  <2> QED BY <2>1, <2>2, AccessAssumption
<1> HIDE DEF row, moves, kind
<1>3. /\ i.op = "role" /\ i.pc = "migrate" /\ i.user = u /\ i.kind = kind
      /\ i.pend[u] = row /\ i.doomed = {}
      /\ \A v \in Accounts : v # u => i.pend[v] = None
  BY IdleIsJob, IdleHolds DEF Jobs
<1> HIDE DEF j, i
<1> DEFINE now == NowOf(i, account)
<1>4. now[u] = row /\ \A v \in Accounts : v # u => now[v] = account[v]
  BY <1>2, <1>3 DEF NowOf
<1> HIDE DEF now
<1>5. \/ now[u] = account[u]
      \/ account[u].role = "admin" => NoneLockedOut(u)
  BY <1>1, <1>2, <1>4
<1>6. \A t \in Tenants : \A v \in Admins(account, grant, t) :
        Open(t, serving) => Admins(now, grant, t) # {}
  BY <1>4, <1>5, OthersRemain
<1>7. Minding(i, account', grant', serving')
  BY <1>1, <1>2, <1>3, <1>4, <1>6 DEF Minding, now
<1> QED BY <1>1, <1>7, MindfulStart DEF i

LEMMA DeleteMindful ==
  ASSUME IInv, Undisturbed, NEW w \in Workers, NEW u \in Accounts, DeleteUser(w, u)
  PROVE  Mindful'
<1> DEFINE j == [Idle EXCEPT !.pc = "commit", !.doomed = {u}]
           i == [j EXCEPT !.op = "delete"]
           now == NowOf(i, account)
<1>1. /\ Starts(w, "delete", j, TRUE) /\ UNCHANGED <<account, grant, serving>>
      /\ account[u].role = "admin" => NoneLockedOut(u)
  BY DEF DeleteUser, access
<1>2. /\ i.op = "delete" /\ i.pc = "commit" /\ i.doomed = {u}
      /\ \A v \in Accounts : i.pend[v] = None
  BY IdleIsJob, IdleHolds DEF Jobs
<1> HIDE DEF j, i
<1>3. \A v \in Accounts : v # u => now[v] = account[v]
  BY <1>2 DEF NowOf
<1> HIDE DEF now
<1>4. \A t \in Tenants : \A v \in Admins(account, grant, t) :
        Open(t, serving) => Admins(now, grant, t) # {}
  BY <1>1, <1>3, OthersRemain
<1>5. Minding(i, account', grant', serving')
  BY <1>1, <1>2, <1>4 DEF Minding, now
<1> QED BY <1>1, <1>5, MindfulStart DEF i

(* A request that cannot take an administrator away, or has not begun to. *)
LEMMA HarmlessMindful ==
  ASSUME IInv, Undisturbed, NEW w \in Workers, NEW op, NEW j, NEW unsynced,
         Starts(w, op, j, unsynced), NEW i, i = [j EXCEPT !.op = op], i.op = op,
         \/ op \notin AdminOps
         \/ i.pc \notin {"migrate", "revoke"} /\ op = "sso" /\ i.doomed = {}
         \/ /\ i.pc \notin {"migrate", "revoke"} /\ i.doomed = {}
            /\ i.pend = Idle.pend /\ account' \in Table
  PROVE  Mindful'
<1>1. CASE op \notin AdminOps
  <2>1. Minding(i, account', grant', serving')
    BY <1>1 DEF Minding
  <2> QED BY <2>1, MindfulStart
<1>2. CASE i.pc \notin {"migrate", "revoke"} /\ op = "sso" /\ i.doomed = {}
  <2>1. Minding(i, account', grant', serving')
    BY <1>2 DEF Minding
  <2> QED BY <2>1, MindfulStart
<1>3. CASE i.pc \notin {"migrate", "revoke"} /\ i.doomed = {} /\ i.pend = Idle.pend /\ account' \in Table
  <2>1. NowOf(i, account') = account'
    BY <1>3, IdleHolds DEF NowOf, Table
  <2>2. Minding(i, account', grant', serving')
    BY <1>3, <2>1 DEF Minding
  <2> QED BY <2>2, MindfulStart
<1> QED BY <1>1, <1>2, <1>3

LEMMA StartsAs ==
  ASSUME IInv, IInv', NEW w \in Workers, NEW op, NEW j, NEW unsynced, Starts(w, op, j, unsynced)
  PROVE  job'[w] = [j EXCEPT !.op = op] /\ job'[w].op = op
<1>1. job'[w] = [j EXCEPT !.op = op]
  <2>1. job \in [Workers -> Jobs]
    BY DEF IInv, TypeOK
  <2> QED BY <2>1 DEF Starts
<1>2. job'[w] \in Jobs
  BY DEF IInv, TypeOK
<1>3. "op" \in DOMAIN job'[w]
  BY <1>2 DEF Jobs
<1>4. DOMAIN job'[w] = DOMAIN j
  BY <1>1
<1> QED BY <1>1, <1>3, <1>4

LEMMA RequestMindful ==
  ASSUME IInv, IInv', Undisturbed, Mindful, NEW w \in Workers, Request(w)
  PROVE  Mindful'
<1>0. account' \in Table
  BY DEF IInv, TypeOK, AccessTypeOK, Table
<1>1. ASSUME NEW op, NEW j, NEW unsynced, Starts(w, op, j, unsynced), op \notin AdminOps
      PROVE  Mindful'
  <2>1. [j EXCEPT !.op = op].op = op
    BY <1>1, StartsAs
  <2> QED BY <1>1, <2>1, HarmlessMindful
<1>2. ASSUME NEW g \in Teams, NEW row, EditThenSync(w, g, row)
      PROVE  Mindful'
  <2>1. CASE Starts(w, "sync", Fetched(g), FALSE)
    BY <1>1, <2>1 DEF AdminOps
  <2>2. CASE history' = history \union {"unsynced"} /\ UNCHANGED job
    BY <1>2, <2>2 DEF EditThenSync, access, Mindful
  <2> QED BY <1>2, <2>1, <2>2 DEF EditThenSync
<1>3. ASSUME NEW g \in Teams,
             \/ SyncFetch(w, g)
             \/ \E role \in Kinds : CreateTeam(w, g, role)
             \/ \E ts \in SUBSET Tenants : SetTeamTenants(w, g, ts)
      PROVE  Mindful'
  <2>1. SyncFetch(w, g) => Mindful'
    BY <1>1 DEF SyncFetch, AdminOps
  <2> QED BY <1>2, <1>3, <2>1 DEF CreateTeam, SetTeamTenants
<1>4. ASSUME NEW u \in Accounts, Login(w, u) \/ Promote(w, u) \/ Demote(w, u)
      PROVE  Mindful'
  <2>1. \E op, j, unsynced : Starts(w, op, j, unsynced) /\ op \in {"login", "promote", "demote"}
    BY <1>4 DEF Login, Promote, Demote
  <2> QED BY <1>1, <2>1 DEF AdminOps
<1>5. ASSUME NEW u \in Accounts,
             \/ \E invited \in BOOLEAN : CreateSuperadmin(w, u, invited)
             \/ \E role \in Kinds, t \in Tenants, invited \in BOOLEAN :
                  CreateLocal(w, u, role, t, invited)
      PROVE  Mindful'
  <2>1. \E row, ts, invited : CreateAccount(w, u, row, ts, invited)
    BY <1>5 DEF CreateSuperadmin, CreateLocal
  <2>2. \E j : Starts(w, "create", j, TRUE)
    BY <2>1 DEF CreateAccount
  <2> QED BY <1>1, <2>2 DEF AdminOps
<1>6. ASSUME NEW t \in Customers, Purge(w, t) PROVE Mindful'
  <2>1. \E j : Starts(w, "purge", j, TRUE)
    BY <1>6 DEF Purge
  <2> QED BY <1>1, <2>1 DEF AdminOps
<1>7. ASSUME NEW op \in AllOps, NEW us \in SUBSET {u \in Accounts : Exists(u)},
             NEW ts \in SUBSET Tenants, Assign(w, op, us, ts)
      PROVE  Mindful'
  <2> DEFINE want == [k \in Kinds |-> ts]
             j == [Idle EXCEPT !.pc = "account", !.left = us, !.want = want]
             i == [j EXCEPT !.op = op]
  <2>1. Starts(w, op, j, TRUE)
    BY <1>7 DEF Assign
  <2> HIDE DEF want
  <2>2. i.pc = "account" /\ i.op = op /\ i.pend = Idle.pend /\ i.doomed = {}
    BY IdleIsJob, IdleHolds DEF Jobs
  <2> HIDE DEF j
  <2> QED BY <1>0, <2>1, <2>2, HarmlessMindful
<1>8. ASSUME NEW t \in Tenants, NEW admins \in SUBSET Accounts, NEW auditors \in SUBSET Accounts,
             SsoSync(w, t, admins, auditors)
      PROVE  Mindful'
  <2>1. PICK left, pend : Starts(w, "sso", [Idle EXCEPT !.pc = "remove", !.left = left, !.pend = pend], TRUE)
    BY <1>8 DEF SsoSync
  <2> DEFINE j == [Idle EXCEPT !.pc = "remove", !.left = left, !.pend = pend]
             i == [j EXCEPT !.op = "sso"]
  <2>2. Starts(w, "sso", j, TRUE)
    BY <2>1
  <2>3. i.pc = "remove" /\ i.op = "sso" /\ i.doomed = {}
    BY IdleIsJob, IdleHolds DEF Jobs
  <2> HIDE DEF j
  <2> QED BY <2>2, <2>3, HarmlessMindful
<1>9. ASSUME NEW u \in Accounts,
             DeleteUser(w, u) \/ \E role \in Kinds : SetRole(w, u, role)
      PROVE  Mindful'
  BY <1>9, DeleteMindful, SetRoleMindful
<1> QED BY <1>3, <1>4, <1>5, <1>6, <1>7, <1>8, <1>9 DEF Request

LEMMA WorldMindful ==
  ASSUME IInv, Undisturbed, Mindful, World
  PROVE  Mindful'
<1>0. job \in [Workers -> Jobs]
  BY DEF IInv, TypeOK
<1>1. CASE job' = [w \in Workers |-> Idle]
  BY <1>1, IdleMinds DEF Mindful
<1>2. CASE job' = job /\ serving' = serving
  BY <1>2, WorldAlone DEF Mindful
<1>3. ASSUME NEW t \in Customers, Serve(t) PROVE Mindful'
  <2> SUFFICES ASSUME "overlap" \notin history', NEW w \in Workers
               PROVE  Minding(job'[w], account', grant', serving')
    BY DEF Mindful
  <2>1. job' = job /\ ~Overlaps(None)
    BY <1>3 DEF Serve, Marks
  <2>2. job'[w].pc = "idle"
    BY <2>1, GrantsAssumption DEF Overlaps, Others
  <2> QED BY <2>2 DEF Minding
<1>4. \/ \E t \in Customers : Serve(t)
      \/ job' = [w \in Workers |-> Idle]
      \/ job' = job /\ serving' = serving
  BY DEF World, Crash, UpdateTeam, DeleteTeam, Edit, Membership, access
<1> QED BY <1>1, <1>2, <1>3, <1>4

LEMMA StaysMindful == IInv /\ IInv' /\ Undisturbed /\ Mindful /\ [Next]_vars => Mindful'
<1> SUFFICES ASSUME IInv, IInv', Undisturbed, Mindful, [Next]_vars PROVE Mindful'
  OBVIOUS
<1>1. CASE UNCHANGED vars
  BY <1>1 DEF vars, access, Mindful
<1> QED BY <1>1, WorldMindful, RequestMindful, StepMindful DEF Next

LEMMA AlwaysMindful == Spec => [](IInv /\ Undisturbed /\ Mindful)
<1>1. Init => IInv /\ Undisturbed /\ Mindful
  <2>1. Init => \A w \in Workers : job[w] = Idle
    BY DEF Init
  <2>2. Init => Mindful
    BY <2>1, IdleMinds DEF Mindful
  <2> QED BY <2>2, InitIs, StartsOutUndisturbed
<1>2. IInv /\ Undisturbed /\ Mindful /\ [Next]_vars => (IInv /\ Undisturbed /\ Mindful)'
  BY Keeps, StaysUndisturbed, StaysMindful
<1> QED BY <1>1, <1>2, PTL DEF Spec

LEMMA RowStays ==
  ASSUME NEW acc, NEW gr, NEW gr2, NEW t \in Tenants, NEW x \in Admins(acc, gr, t),
         gr[<<x, t, "admin">>] # "none" => gr2[<<x, t, "admin">>] # "none"
  PROVE  Admins(acc, gr2, t) # {}
<1>1. x \in Admins(acc, gr2, t)
  BY DEF Admins
<1> QED BY <1>1

LEMMA MoreRows ==
  ASSUME grant \in Grantings, NEW acc, NEW t \in Tenants, Admins(acc, grant, t) # {},
         NEW u \in Accounts, NEW s \in Tenants, NEW k \in Kinds, NEW source \in Sources \ {"none"}
  PROVE  Admins(acc, WithRow(u, s, k, source), t) # {}
<1>1. PICK x \in Admins(acc, grant, t) : TRUE
  OBVIOUS
<1>2. x \in Accounts /\ "admin" \in Kinds
  BY <1>1, AdminsAre DEF Kinds
<1>3. grant[<<x, t, "admin">>] # "none" =>
        WithRow(u, s, k, source)[<<x, t, "admin">>] # "none"
  <2>1. <<x, t, "admin">> \in AllRows
    BY <1>2 DEF AllRows
  <2>2. <<x, t, "admin">> = <<u, s, k>> => x = u /\ t = s /\ k = "admin"
    OBVIOUS
  <2> QED BY <1>1, <2>1, <2>2, WithRowIs
<1> QED BY <1>1, <1>3, RowStays

(* A row that goes is no administrator's, or not the last one's. *)
LEMMA LessRows ==
  ASSUME grant \in Grantings, NEW acc, NEW t \in Tenants, Admins(acc, grant, t) # {},
         NEW u \in Accounts, NEW s \in Tenants, NEW k \in Kinds,
         k = "admin" /\ s = t => \E v \in Admins(acc, grant, t) : v # u
  PROVE  Admins(acc, WithoutRow(u, s, k), t) # {}
<1>1. PICK x \in Admins(acc, grant, t) : k = "admin" /\ s = t => x # u
  OBVIOUS
<1>2. x \in Accounts /\ "admin" \in Kinds
  BY <1>1, AdminsAre DEF Kinds
<1>3. grant[<<x, t, "admin">>] # "none" =>
        WithoutRow(u, s, k)[<<x, t, "admin">>] # "none"
  <2>1. <<x, t, "admin">> \in AllRows
    BY <1>2 DEF AllRows
  <2>2. <<x, t, "admin">> = <<u, s, k>> => x = u /\ t = s /\ k = "admin"
    OBVIOUS
  <2> QED BY <1>1, <2>1, <2>2, WithoutRowIs
<1> QED BY <1>1, <1>3, RowStays

(* Requests that do not overlap leave no customer without an administrator *)
(* who can act there: whoever a role change, a revocation, a deletion or   *)
(* the SSO sync takes away, another one stays, at every commit on the way. *)
THEOREM AnAdminIsKept == Spec => KeepsAnAdmin
<1>1. ASSUME IInv, Undisturbed, Mindful, [Next]_vars, NEW w \in Workers, NEW t \in Tenants,
             "overlap" \notin history, Working(w, AdminOps),
             NEW u \in Admins(account, grant, t), Open(t, serving),
             u \notin Admins(account', grant', t),
             job[w].op = "sso" => account'[u] = None
      PROVE  Admins(account', grant', t) # {}
  <2> DEFINE now == NowOf(job[w], account)
  <2>1. /\ job[w].pc # "idle" /\ job[w].op \in AdminOps /\ job[w] \in Jobs
        /\ Sound(job[w], account, known, team) /\ grant \in Grantings
        /\ u \in Accounts /\ account[u] # None
        /\ Minding(job[w], account, grant, serving)
    BY <1>1, Typed, AdminsAre DEF Working, Mindful, Admins
  <2>2. job[w].op \notin ByTeamOps \union {"promote", "purge"}
    BY <2>1 DEF AdminOps, ByTeamOps
  <2>3. Step(w)
    <3>1. ~(UNCHANGED <<account, grant>>)
      BY <1>1
    <3> QED BY <1>1, <2>1, <3>1, GoesOn DEF Working
  <2>4. ASSUME NEW g, NEW j, Commit(w, g, j)
        PROVE  account' = now /\ grant' = g /\ Admins(now, grant, t) # {}
    <3>1. account' = now /\ grant' = g
      BY <2>4 DEF Commit, AccountNow, NowOf
    <3>2. account'[u] = None => u \in job[w].doomed
      BY <2>1, <3>1 DEF NowOf
    <3> HIDE DEF now
    <3>3. Admins(now, grant, t) # {}
      BY <1>1, <2>1, <3>2 DEF Minding, now
    <3> QED BY <3>1, <3>3
  <2>5. (\A j : ~Go(w, j)) /\ ~PurgeTenant(w)
    BY <1>1, <2>1, <2>2 DEF Go, access, PurgeTenant, At, Sound
  <2> HIDE DEF now
  <2>6. CASE Deactivate(w)
    <3>1. \E j : Commit(w, grant, j)
      BY <2>6 DEF Deactivate
    <3> QED BY <2>4, <3>1
  <2>7. CASE Revoke(w)
    <3>1. /\ \E j : Commit(w, WithoutRow(job[w].user, job[w].tenant, job[w].kind), j)
          /\ job[w].pc = "revoke"
      BY <2>7 DEF Revoke, At
    <3>2. job[w].user \in Accounts /\ job[w].tenant \in Tenants /\ job[w].kind \in Kinds
      BY <2>1, <3>1 DEF Sound, Jobs
    <3>3. job[w].kind = "admin" /\ job[w].tenant = t =>
            \E v \in Admins(now, grant, t) : v # job[w].user
      BY <1>1, <2>1, <3>1 DEF Minding, now
    <3> QED BY <2>1, <2>4, <3>1, <3>2, <3>3, LessRows
  <2>8. CASE Finish(w)
    <3> DEFINE gone == job[w].doomed
    <3>1. Commit(w, WithoutRowsOf(gone, {}), Idle)
      BY <2>8 DEF Finish
    <3>2. PICK x \in Admins(now, grant, t) : TRUE
      BY <2>4, <3>1
    <3>3. x \notin gone /\ x \in Accounts /\ "admin" \in Kinds
      BY <3>2 DEF Admins, NowOf, now, Kinds
    <3> HIDE DEF gone
    <3>4. WithoutRowsOf(gone, {})[<<x, t, "admin">>] = grant[<<x, t, "admin">>]
      BY <2>1, <3>3, WithoutAccounts
    <3>5. Admins(now, WithoutRowsOf(gone, {}), t) # {}
      BY <3>2, <3>4, RowStays
    <3> QED BY <2>4, <3>1, <3>5
  <2>9. ASSUME NEW s \in Tenants, WriteAdd(w, s) PROVE Admins(account', grant', t) # {}
    <3>1. /\ job[w].pc = "write"
          /\ \E j : Commit(w, WithRow(job[w].user, s, job[w].kind, "manual"), j)
      BY <2>2, <2>5, <2>9 DEF WriteAdd, At, ByTeam, ByTeamOps
    <3>2. job[w].user \in Accounts /\ job[w].kind \in Kinds /\ "manual" \in Sources \ {"none"}
      BY <2>1, <3>1 DEF Sound, Jobs, Sources
    <3> QED BY <2>1, <2>4, <3>1, <3>2, MoreRows
  <2>10. ASSUME NEW s \in Tenants, WriteRemove(w, s) PROVE FALSE
    BY <2>2, <2>5, <2>10 DEF WriteRemove, ByTeam, ByTeamOps
  <2>11. ASSUME NEW s \in Tenants, MigrateAdd(w, s) PROVE Admins(account', grant', t) # {}
    <3>1. /\ job[w].pc = "migrate"
          /\ \E j : Commit(w, WithRow(job[w].user, s, job[w].kind, "manual"), j)
      BY <2>5, <2>11 DEF MigrateAdd, At, Abandon
    <3>2. job[w].user \in Accounts /\ job[w].kind \in Kinds /\ "manual" \in Sources \ {"none"}
      BY <2>1, <3>1 DEF Sound, Jobs, Sources
    <3> QED BY <2>1, <2>4, <3>1, <3>2, MoreRows
  <2>12. ASSUME NEW s \in Tenants, MigrateRemove(w, s) PROVE Admins(account', grant', t) # {}
    <3>1. /\ job[w].pc = "migrate"
          /\ \E j : Commit(w, WithoutRow(job[w].user, s, OtherKind(job[w].kind)), j)
      BY <2>12 DEF MigrateRemove, At
    <3>2. job[w].user \in Accounts /\ OtherKind(job[w].kind) \in Kinds /\ job[w].kind \in Kinds
      BY <2>1, <3>1 DEF Sound, Jobs, OtherKind, Kinds
    <3>3. PICK x \in Admins(now, grant, t) : TRUE
      BY <2>4, <3>1
    <3>4. OtherKind(job[w].kind) = "admin" => x # job[w].user
      BY <2>1, <3>1, <3>2, <3>3 DEF Minding, OtherKind, Kinds, Admins, now
    <3>5. Admins(now, WithoutRow(job[w].user, s, OtherKind(job[w].kind)), t) # {}
      BY <2>1, <3>2, <3>3, <3>4, LessRows
    <3> QED BY <2>4, <3>1, <3>5
  <2>13. ASSUME NEW s \in Tenants, Clear(w, s) PROVE FALSE
    BY <2>1, <2>2, <2>13 DEF Clear, At, Sound
  <2>14. CASE \/ SyncSnapshot(w) \/ SyncTeamGone(w) \/ SyncMembersDone(w) \/ SyncLeavers(w)
              \/ Diff(w) \/ WriteRefused(w) \/ WriteDone(w) \/ AssignDone(w) \/ ClearNext(w)
    BY <2>5, <2>14 DEF SyncSnapshot, SyncTeamGone, SyncMembersDone, SyncLeavers, Diff, WriteRefused,
                WriteDone, AssignDone, ClearNext, Abandon
  <2>15. CASE \E v \in Accounts : SyncMember(w, v) \/ AssignAccount(w, v) \/ SsoRemove(w, v)
    BY <2>5, <2>15 DEF SyncMember, AssignAccount, SsoRemove
  <2>16. CASE FinishRefused(w)
    BY <1>1, <2>16, RefusedEnds
  <2> QED BY <2>3, <2>5, <2>6, <2>7, <2>8, <2>9, <2>10, <2>11, <2>12, <2>13, <2>14, <2>15, <2>16
          DEF Step
<1>2. IInv /\ Undisturbed /\ Mindful /\ [Next]_vars =>
        \A w \in Workers, t \in Tenants :
          /\ "overlap" \notin history
          /\ Working(w, {"role", "set", "remove", "add", "delete", "sso"})
          =>
          \A u \in TenantAdmins(account, t) :
            /\ IsActive(t) /\ IsActive(t)'
            /\ u \notin TenantAdmins(account, t)'
            /\ job[w].op = "sso" => account'[u] = None
            => TenantAdmins(account, t)' # {}
  <2>1. \A t : TenantAdmins(account, t)' = Admins(account', grant', t)
    BY DEF TenantAdmins, Admins
  <2> QED BY <1>1, <2>1, AdminsAre DEF AdminOps
<1> QED BY <1>2, AlwaysMindful, PTL DEF Spec, KeepsAnAdmin

-----------------------------------------------------------------------------
(* The rows follow the teams                                               *)

\* The teams as a job sees them, the teams somebody is in, and what they want for them.
NowTeam(j, tm) == IF j.snap THEN [tm EXCEPT ![j.team].members = j.fetched] ELSE tm
TeamsIn(tm, u) == {g \in Teams : tm[g] # None /\ u \in tm[g].members}
Opened(tm, u, role) == UNION {tm[g].tenants : g \in {h \in TeamsIn(tm, u) : tm[h].role = role}}
Wanted(tm, u, k) ==
  IF k = "admin" THEN Opened(tm, u, "admin") ELSE Opened(tm, u, "auditor") \ Opened(tm, u, "admin")

Matches(gr, u, k, want) ==
  \A t \in Tenants : /\ gr[<<u, t, k>>] = "group" => t \in want
                     /\ t \in want => gr[<<u, t, k>>] # "none"
Follows(acc, tm, gr, u) ==
  acc[u] # None /\ acc[u].home = Provider =>
    \A k \in Kinds : Matches(gr, u, k, Wanted(tm, u, k))

\* Whom a sync or a login has still to bring in line.
Ahead(j, tm) ==
  CASE j.pc = "snapshot" -> tm[j.team].members \union j.fetched
    [] j.pc = "member" -> j.left
    [] j.pc \in {"diff", "write"} -> j.left \union {j.user}
    [] OTHER -> {}

(* The account a reconcile is at: the table of administrators is done      *)
(* first, and what is to be written is what is missing and what is not     *)
(* wanted any more.                                                        *)
Halfway(j, gr) ==
  /\ j.kind = "auditor" => Matches(gr, j.user, "admin", j.want["admin"])
  /\ j.pc = "write" =>
       /\ j.add \subseteq j.want[j.kind] /\ j.del \intersect j.want[j.kind] = {}
       /\ \A t \in Tenants :
            /\ gr[<<j.user, t, j.kind>>] = "group" => t \in j.want[j.kind] \union j.del
            /\ t \in j.want[j.kind] => gr[<<j.user, t, j.kind>>] # "none" \/ t \in j.add

Reconciling(j, acc, tm, gr) ==
  /\ j.op \in ByTeamOps /\ j.pc \in {"snapshot", "member", "diff", "write", "leavers", "commit"}
  /\ j.op = "login" => j.pc \in {"diff", "write", "commit"} /\ j.left = {} /\ ~j.snap
  /\ j.pc = "snapshot" => ~j.snap /\ tm[j.team] # None
  /\ j.pc \in {"diff", "write"} =>
       /\ NowOf(j, acc)[j.user] # None
       /\ \A k \in Kinds : j.want[k] = Wanted(NowTeam(j, tm), j.user, k)
       /\ Halfway(j, gr)
  /\ \A u \in Accounts \ Ahead(j, tm) : Follows(NowOf(j, acc), NowTeam(j, tm), gr, u)

(* As long as nothing has happened that a sync would have to make good,    *)
(* everybody is in line but those that the one request under way has still *)
(* to look at.                                                             *)
Settling ==
  history = {} =>
    /\ known = Customers /\ serving = Customers
    /\ \A w \in Workers : job[w].pc = "idle" => ~job[w].snap
    /\ (\A w \in Workers : job[w].pc = "idle") => \A u \in Accounts : Follows(account, team, grant, u)
    /\ \A w \in Workers : job[w].pc # "idle" => Reconciling(job[w], account, team, grant)

-----------------------------------------------------------------------------
(* What teams want                                                         *)

LEMMA SameWanted ==
  ASSUME NEW tm, NEW tm2, NEW u,
         \A g \in Teams : /\ g \in TeamsIn(tm, u) <=> g \in TeamsIn(tm2, u)
                          /\ g \in TeamsIn(tm, u) =>
                               tm2[g].role = tm[g].role /\ tm2[g].tenants = tm[g].tenants
  PROVE  \A k : Wanted(tm2, u, k) = Wanted(tm, u, k)
<1>1. TeamsIn(tm, u) \subseteq Teams /\ TeamsIn(tm2, u) \subseteq Teams
  BY DEF TeamsIn
<1>2. \A role : Opened(tm2, u, role) = Opened(tm, u, role)
  BY <1>1 DEF Opened
<1> QED BY <1>2 DEF Wanted

LEMMA DesiredIsWanted ==
  ASSUME NEW gs, NEW tm, NEW u, gs = TeamsIn(tm, u),
         \A g \in gs : tm[g].role = team[g].role /\ tm[g].tenants = team[g].tenants
  PROVE  \A k \in Kinds : Desired(gs)[k] = Wanted(tm, u, k)
<1> DEFINE of(role) == UNION {team[g].tenants : g \in {h \in gs : team[h].role = role}}
<1>1. \A role : Opened(tm, u, role) = of(role)
  BY DEF Opened
<1>2. Desired(gs) = [k \in Kinds |-> IF k = "admin" THEN of("admin")
                                     ELSE of("auditor") \ of("admin")]
  BY DEF Desired
<1> HIDE DEF of
<1> QED BY <1>1, <1>2 DEF Wanted

LEMMA WantedTyped ==
  ASSUME NEW tm \in TeamTable, NEW u, NEW k
  PROVE  Wanted(tm, u, k) \subseteq Tenants
<1>1. \A g \in TeamsIn(tm, u) : tm[g].tenants \subseteq Tenants
  BY DEF TeamsIn, TeamTable, TeamRows
<1> QED BY <1>1 DEF Wanted, Opened

LEMMA InLineIs ==
  ASSUME IInv, NEW u \in Accounts
  PROVE  InLine(u) <=> Follows(account, team, grant, u)
<1>1. SnapshotTeams(u) = TeamsIn(team, u)
  BY DEF SnapshotTeams, TeamsIn
<1>2. \A k \in Kinds : Desired(SnapshotTeams(u))[k] = Wanted(team, u, k)
  BY <1>1, DesiredIsWanted
<1>3. \A k : Wanted(team, u, k) \subseteq Tenants
  BY Typed, WantedTyped
<1> QED BY <1>2, <1>3 DEF InLine, Staff, Exists, IsProvider, Follows, Matches, GroupRows, Rows

(* A job that has written no snapshot sees the teams as they are, and one   *)
(* that has sees them with the members it has fetched.                     *)
LEMMA NowTeamIs ==
  ASSUME IInv, NEW w \in Workers
  PROVE  /\ TeamNow(w) = NowTeam(job[w], team) /\ NowTeam(job[w], team) \in TeamTable
         /\ \A g \in Teams : team[g] # None =>
              /\ NowTeam(job[w], team)[g] # None
              /\ NowTeam(job[w], team)[g].role = team[g].role
              /\ NowTeam(job[w], team)[g].tenants = team[g].tenants
         /\ \A g \in Teams : team[g] = None => NowTeam(job[w], team)[g] = None
<1>1. TeamNow(w) = NowTeam(job[w], team)
  BY DEF TeamNow, NowTeam
<1>2. job[w] \in Jobs /\ team \in TeamTable /\ Sound(job[w], account, known, team)
  BY Typed
<1>3. CASE ~job[w].snap
  BY <1>1, <1>2, <1>3 DEF NowTeam
<1>4. CASE job[w].snap
  <2> DEFINE h == job[w].team
             row == [team[h] EXCEPT !.members = job[w].fetched]
  <2>1. h \in Teams /\ team[h] \in TeamRows /\ team[h] # None
    BY <1>2, <1>4 DEF Sound, TeamTable
  <2>2. row.role = team[h].role /\ row.tenants = team[h].tenants
    BY <2>1 DEF TeamRows
  <2>3. NowTeam(job[w], team) = [team EXCEPT ![h] = row]
    BY <1>4 DEF NowTeam
  <2> HIDE DEF h, row
  <2> QED BY <1>1, <1>2, <2>1, <2>2, <2>3, TeamNowIsTable DEF TeamTable
<1> QED BY <1>3, <1>4

LEMMA TeamsOfWant ==
  ASSUME IInv, NEW w \in Workers, NEW u \in Accounts
  PROVE  \A k \in Kinds : Desired(TeamsOf(w, u))[k] = Wanted(NowTeam(job[w], team), u, k)
<1>1. TeamsOf(w, u) = TeamsIn(NowTeam(job[w], team), u)
  BY NowTeamIs DEF TeamsOf, TeamsIn
<1>2. \A g \in TeamsOf(w, u) : g \in Teams /\ team[g] # None
  BY DEF TeamsOf
<1> QED BY <1>1, <1>2, NowTeamIs, DesiredIsWanted

-----------------------------------------------------------------------------
(* One request goes on                                                     *)

LEMMA OthersSettle ==
  ASSUME IInv, Undisturbed, Settling, NEW w \in Workers, job[w].pc # "idle",
         \A v \in Workers \ {w} : job'[v] = job[v],
         UNCHANGED <<known, serving>>, history \subseteq history',
         history = {} /\ Reconciling(job[w], account, team, grant) =>
           IF job'[w].pc = "idle"
             THEN ~job'[w].snap /\ \A u \in Accounts : Follows(account', team', grant', u)
             ELSE Reconciling(job'[w], account', team', grant')
  PROVE  Settling'
<1>1. history' = {} => history = {}
  OBVIOUS
<1> SUFFICES ASSUME history = {}
             PROVE  /\ known' = Customers /\ serving' = Customers
                    /\ \A v \in Workers : job'[v].pc = "idle" => ~job'[v].snap
                    /\ (\A v \in Workers : job'[v].pc = "idle") =>
                         \A u \in Accounts : Follows(account', team', grant', u)
                    /\ \A v \in Workers : job'[v].pc # "idle" =>
                         Reconciling(job'[v], account', team', grant')
  BY <1>1 DEF Settling
<1>2. \A v \in Workers \ {w} : job'[v] = job[v] /\ job[v].pc = "idle" /\ ~job[v].snap
  BY DEF Undisturbed, Alone, Settling
<1>3. /\ job'[w].pc = "idle" =>
           ~job'[w].snap /\ \A u \in Accounts : Follows(account', team', grant', u)
      /\ job'[w].pc # "idle" => Reconciling(job'[w], account', team', grant')
  BY DEF Settling
<1>4. known = Customers /\ serving = Customers
  BY DEF Settling
<1> QED BY <1>2, <1>3, <1>4

LEMMA GoSettles ==
  ASSUME IInv, Undisturbed, Settling, NEW w \in Workers, job[w].pc # "idle",
         NEW j \in Jobs, Go(w, j), j.pc # "idle",
         history = {} /\ Reconciling(job[w], account, team, grant) =>
           Reconciling(j, account, team, grant)
  PROVE  Settling'
<1>1. job \in [Workers -> Jobs]
  BY DEF IInv, TypeOK
<1>2. /\ job'[w] = j /\ \A v \in Workers \ {w} : job'[v] = job[v]
      /\ UNCHANGED <<account, known, serving, grant, team, history>>
  BY <1>1 DEF Go, access, bounds
<1> QED BY <1>2, OthersSettle

LEMMA SnapshotSettles ==
  ASSUME IInv, Undisturbed, Settling, NEW w \in Workers, SyncSnapshot(w)
  PROVE  Settling'
<1> DEFINE i == job[w]
           g == i.team
           left == team[g].members \union i.fetched
           gone == team[g].members \ i.fetched
           j == [i EXCEPT !.pc = "member", !.snap = TRUE, !.left = left, !.gone = gone]
<1>1. i \in Jobs /\ Sound(i, account, known, team) /\ i.pc = "snapshot" /\ Go(w, j) /\ team[g] # None
  BY Typed DEF SyncSnapshot, At
<1>2. g \in Teams /\ team[g] \in TeamRows /\ i.op = "sync" /\ team \in TeamTable
  BY <1>1, Typed DEF Sound, TeamTable
<1>3. left \in SUBSET Accounts /\ gone \in SUBSET Accounts
  BY <1>1, <1>2 DEF Jobs, TeamRows
<1> HIDE DEF left, gone
<1>4. /\ j \in Jobs /\ j.pc = "member" /\ j.snap = TRUE /\ j.left = left /\ j.op = "sync"
      /\ j.team = g /\ j.fetched = i.fetched /\ j.pend = i.pend /\ j.doomed = i.doomed
  BY <1>1, <1>2, <1>3 DEF Jobs
<1> HIDE DEF j
<1>5. ASSUME Reconciling(i, account, team, grant)
      PROVE  Reconciling(j, account, team, grant)
  <2>1. NowOf(j, account) = NowOf(i, account)
    BY <1>4 DEF NowOf
  <2>2. NowTeam(i, team) = team /\ Ahead(i, team) = left
    BY <1>1, <1>5 DEF Reconciling, NowTeam, Ahead, left
  <2>3. NowTeam(j, team) = [team EXCEPT ![g] = [team[g] EXCEPT !.members = i.fetched]]
    BY <1>4 DEF NowTeam
  <2>4. [team[g] EXCEPT !.members = i.fetched] \in TeamRows
    BY <1>1, <1>2 DEF TeamRows, Jobs
  <2> DEFINE row == [team[g] EXCEPT !.members = i.fetched]
  <2>5. row # None /\ row.members = i.fetched
    BY <1>2, <2>4, GrantsAssumption DEF TeamRows
  <2> HIDE DEF row
  <2>6. ASSUME NEW u \in Accounts \ left
        PROVE  \A k : Wanted(NowTeam(j, team), u, k) = Wanted(team, u, k)
    <3>1. u \notin team[g].members /\ u \notin row.members
      BY <2>5, <2>6 DEF left
    <3>2. NowTeam(j, team) = [team EXCEPT ![g] = row]
      BY <2>3 DEF row
    <3>3. \A h \in Teams : /\ h \in TeamsIn(team, u) <=> h \in TeamsIn(NowTeam(j, team), u)
                           /\ h \in TeamsIn(team, u) => NowTeam(j, team)[h] = team[h]
      BY <1>2, <3>1, <3>2 DEF TeamsIn, TeamTable
    <3> QED BY <3>3, SameWanted
  <2>7. ASSUME NEW u \in Accounts \ left
        PROVE  Follows(NowOf(j, account), NowTeam(j, team), grant, u)
    <3>1. Follows(NowOf(i, account), team, grant, u)
      BY <1>5, <2>2, <2>7 DEF Reconciling
    <3> QED BY <2>1, <2>6, <3>1 DEF Follows
  <2>8. Ahead(j, team) = left
    BY <1>4 DEF Ahead
  <2> QED BY <1>4, <2>7, <2>8 DEF Reconciling, ByTeamOps
<1> QED BY <1>1, <1>4, <1>5, GoSettles

LEMMA MembersDoneSettles ==
  ASSUME IInv, Undisturbed, Settling, NEW w \in Workers, SyncMembersDone(w)
  PROVE  Settling'
<1> DEFINE i == job[w]
           j == [i EXCEPT !.pc = "leavers"]
<1>1. i \in Jobs /\ i.pc = "member" /\ i.left = {} /\ Go(w, j)
  BY Typed DEF SyncMembersDone, At
<1>2. /\ j \in Jobs /\ j.pc = "leavers" /\ j.snap = i.snap /\ j.op = i.op /\ j.team = i.team
      /\ j.fetched = i.fetched /\ j.pend = i.pend /\ j.doomed = i.doomed
  BY <1>1 DEF Jobs
<1> HIDE DEF j
<1>3. ASSUME Reconciling(i, account, team, grant)
      PROVE  Reconciling(j, account, team, grant)
  <2>1. NowOf(j, account) = NowOf(i, account) /\ NowTeam(j, team) = NowTeam(i, team)
    BY <1>2 DEF NowOf, NowTeam
  <2>2. Ahead(i, team) = {} /\ Ahead(j, team) = {}
    BY <1>1, <1>2 DEF Ahead
  <2> QED BY <1>1, <1>2, <1>3, <2>1, <2>2 DEF Reconciling
<1> QED BY <1>1, <1>2, <1>3, GoSettles

LEMMA LeaversSettle ==
  ASSUME IInv, Undisturbed, Settling, NEW w \in Workers, SyncLeavers(w)
  PROVE  Settling'
<1> DEFINE i == job[w]
           doomed == {u \in i.gone : FullyDeprovisioned(w, u)}
           j == [i EXCEPT !.pc = "commit", !.doomed = doomed]
<1>1. i \in Jobs /\ Sound(i, account, known, team) /\ i.pc = "leavers" /\ Go(w, j)
  BY Typed DEF SyncLeavers, At
<1>2. doomed \in SUBSET Accounts /\ i.doomed = {}
  BY <1>1 DEF Jobs, Sound
<1> HIDE DEF doomed
<1>3. /\ j \in Jobs /\ j.pc = "commit" /\ j.snap = i.snap /\ j.op = i.op /\ j.team = i.team
      /\ j.fetched = i.fetched /\ j.pend = i.pend
  BY <1>1, <1>2 DEF Jobs
<1> HIDE DEF j
<1>4. ASSUME Reconciling(i, account, team, grant)
      PROVE  Reconciling(j, account, team, grant)
  <2>1. NowTeam(j, team) = NowTeam(i, team)
    BY <1>3 DEF NowTeam
  <2>2. \A u \in Accounts : NowOf(j, account)[u] \in {None, NowOf(i, account)[u]}
    BY <1>2, <1>3 DEF NowOf
  <2>3. Ahead(i, team) = {} /\ Ahead(j, team) = {}
    BY <1>1, <1>3 DEF Ahead
  <2>4. \A u \in Accounts : Follows(NowOf(i, account), NowTeam(i, team), grant, u)
    BY <1>4, <2>3 DEF Reconciling
  <2>5. \A u \in Accounts : Follows(NowOf(j, account), NowTeam(j, team), grant, u)
    BY <2>1, <2>2, <2>4 DEF Follows
  <2>6. i.op \in ByTeamOps /\ i.op # "login"
    BY <1>1, <1>4 DEF Reconciling
  <2> QED BY <1>3, <2>5, <2>6 DEF Reconciling
<1> QED BY <1>1, <1>3, <1>4, GoSettles

LEMMA MemberSettles ==
  ASSUME IInv, Undisturbed, Settling, NEW w \in Workers, NEW u \in Accounts, SyncMember(w, u)
  PROVE  Settling'
<1> DEFINE i == job[w]
           want == Desired(TeamsOf(w, u))
           left == i.left \ {u}
           j == [i EXCEPT !.left = left]
           l == [j EXCEPT !.pc = "diff", !.user = u, !.kind = "admin", !.want = want]
<1>1. i \in Jobs /\ Sound(i, account, known, team) /\ i.pc = "member" /\ i.op = "sync"
  BY Typed DEF SyncMember, At, Sound
<1>2. want \in [Kinds -> SUBSET Tenants] /\ left \in SUBSET Accounts
  BY <1>1, DesiredTyped DEF TeamsOf, Jobs
<1>3. \A k \in Kinds : want[k] = Wanted(NowTeam(i, team), u, k)
  BY TeamsOfWant
<1>4. IF account[u] # None /\ account[u].home = Provider THEN Go(w, l) ELSE Go(w, j)
  BY DEF SyncMember, Exists, IsProvider
<1>5. NowOf(i, account)[u] = account[u]
  BY <1>1 DEF NowOf, Sound
<1> HIDE DEF want
<1>6. /\ j \in Jobs /\ j.pc = "member" /\ j.snap = i.snap /\ j.op = i.op /\ j.team = i.team
      /\ j.fetched = i.fetched /\ j.pend = i.pend /\ j.doomed = i.doomed /\ j.left = left
  BY <1>1, <1>2 DEF Jobs
<1>7. /\ l \in Jobs /\ l.pc = "diff" /\ l.snap = i.snap /\ l.op = i.op /\ l.team = i.team
      /\ l.fetched = i.fetched /\ l.pend = i.pend /\ l.doomed = i.doomed /\ l.left = left
      /\ l.user = u /\ l.kind = "admin" /\ l.want = want
  BY <1>1, <1>2, <1>6 DEF Jobs, Kinds
<1> HIDE DEF j, l
<1>8. /\ NowOf(j, account) = NowOf(i, account) /\ NowTeam(j, team) = NowTeam(i, team)
      /\ NowOf(l, account) = NowOf(i, account) /\ NowTeam(l, team) = NowTeam(i, team)
  BY <1>6, <1>7 DEF NowOf, NowTeam
<1>9. ASSUME Reconciling(i, account, team, grant), account[u] # None, account[u].home = Provider
      PROVE  Reconciling(l, account, team, grant)
  <2>1. Ahead(i, team) = i.left /\ Ahead(l, team) = i.left \union {u}
    BY <1>1, <1>7 DEF Ahead
  <2>2. \A v \in Accounts \ Ahead(l, team) : Follows(NowOf(l, account), NowTeam(l, team), grant, v)
    BY <1>8, <1>9, <2>1 DEF Reconciling
  <2>3. Halfway(l, grant)
    BY <1>7 DEF Halfway
  <2> QED BY <1>1, <1>3, <1>5, <1>7, <1>8, <1>9, <2>2, <2>3 DEF Reconciling, ByTeamOps
<1>10. ASSUME Reconciling(i, account, team, grant), ~(account[u] # None /\ account[u].home = Provider)
       PROVE  Reconciling(j, account, team, grant)
  <2>1. Ahead(i, team) = i.left /\ Ahead(j, team) = i.left \ {u}
    BY <1>1, <1>6 DEF Ahead
  <2>2. Follows(NowOf(j, account), NowTeam(j, team), grant, u)
    BY <1>5, <1>8, <1>10 DEF Follows
  <2>3. \A v \in Accounts \ Ahead(j, team) : Follows(NowOf(j, account), NowTeam(j, team), grant, v)
    BY <1>8, <1>10, <2>1, <2>2 DEF Reconciling
  <2> QED BY <1>1, <1>6, <2>3 DEF Reconciling, ByTeamOps
<1> QED BY <1>1, <1>4, <1>6, <1>7, <1>9, <1>10, GoSettles

LEMMA DiffSettles ==
  ASSUME IInv, Undisturbed, Settling, NEW w \in Workers, Diff(w)
  PROVE  Settling'
<1> DEFINE i == job[w]
           want == i.want[i.kind]
           add == want \ Rows(i.user, i.kind)
           del == GroupRows(i.user, i.kind) \ want
           j == [i EXCEPT !.pc = "write", !.add = add, !.del = del]
<1>1. i \in Jobs /\ i.pc = "diff" /\ Go(w, j)
  BY Typed DEF Diff, At
<1>2. add \in SUBSET Tenants /\ del \in SUBSET Tenants
  BY <1>1 DEF Jobs, GroupRows
<1>3. \A t \in Tenants : /\ grant[<<i.user, t, i.kind>>] = "group" => t \in want \union del
                         /\ t \in want => grant[<<i.user, t, i.kind>>] # "none" \/ t \in add
  BY DEF Rows, GroupRows
<1>4. add \subseteq want /\ del \intersect want = {}
  OBVIOUS
<1> HIDE DEF add, del
<1>5. /\ j \in Jobs /\ j.pc = "write" /\ j.snap = i.snap /\ j.op = i.op /\ j.team = i.team
      /\ j.fetched = i.fetched /\ j.pend = i.pend /\ j.doomed = i.doomed /\ j.left = i.left
      /\ j.user = i.user /\ j.kind = i.kind /\ j.want = i.want /\ j.add = add /\ j.del = del
  BY <1>1, <1>2 DEF Jobs
<1> HIDE DEF j
<1>6. ASSUME Reconciling(i, account, team, grant)
      PROVE  Reconciling(j, account, team, grant)
  <2>1. NowOf(j, account) = NowOf(i, account) /\ NowTeam(j, team) = NowTeam(i, team)
    BY <1>5 DEF NowOf, NowTeam
  <2>2. Ahead(j, team) = Ahead(i, team)
    BY <1>1, <1>5 DEF Ahead
  <2>3. Halfway(i, grant)
    BY <1>1, <1>6 DEF Reconciling
  <2>4. Halfway(j, grant)
    BY <1>3, <1>4, <1>5, <2>3 DEF Halfway
  <2> QED BY <1>1, <1>5, <1>6, <2>1, <2>2, <2>4 DEF Reconciling
<1> QED BY <1>1, <1>5, <1>6, GoSettles

LEMMA WriteDoneSettles ==
  ASSUME IInv, Undisturbed, Settling, NEW w \in Workers, WriteDone(w), history = {}
  PROVE  Settling'
<1> DEFINE i == job[w]
           none == Idle.want
           a == [i EXCEPT !.pc = "diff", !.kind = "auditor"]
           on == [i EXCEPT !.user = None, !.kind = "admin"]
           b == [on EXCEPT !.pc = "member", !.want = none]
           c == [on EXCEPT !.pc = "commit"]
<1>1. i \in Jobs /\ i.pc = "write" /\ i.add = {} /\ i.del = {} /\ i.kind \in {"admin", "auditor"}
  BY Typed DEF WriteDone, Written, At, Jobs, Kinds
<1>2. Reconciling(i, account, team, grant)
  BY <1>1 DEF Settling
<1>3. i.op \in {"sync", "login"}
  BY <1>2 DEF Reconciling, ByTeamOps
<1>4. /\ i.kind = "admin" => Go(w, a)
      /\ i.kind = "auditor" /\ i.op = "sync" => Go(w, b)
      /\ i.kind = "auditor" /\ i.op = "login" => Go(w, c)
  BY <1>3 DEF WriteDone, ByTeam
<1>5. none \in [Kinds -> SUBSET Tenants]
  BY IdleIsJob DEF Jobs
<1> HIDE DEF none
<1>6. /\ a \in Jobs /\ a.pc = "diff" /\ a.snap = i.snap /\ a.op = i.op /\ a.team = i.team
      /\ a.fetched = i.fetched /\ a.pend = i.pend /\ a.doomed = i.doomed /\ a.left = i.left
      /\ a.user = i.user /\ a.kind = "auditor" /\ a.want = i.want
  BY <1>1 DEF Jobs, Kinds
<1>7. /\ b \in Jobs /\ b.pc = "member" /\ b.snap = i.snap /\ b.op = i.op /\ b.team = i.team
      /\ b.fetched = i.fetched /\ b.pend = i.pend /\ b.doomed = i.doomed /\ b.left = i.left
  BY <1>1, <1>5 DEF Jobs, Kinds
<1>8. /\ c \in Jobs /\ c.pc = "commit" /\ c.snap = i.snap /\ c.op = i.op /\ c.team = i.team
      /\ c.fetched = i.fetched /\ c.pend = i.pend /\ c.doomed = i.doomed /\ c.left = i.left
  BY <1>1 DEF Jobs, Kinds
<1> HIDE DEF a, b, c
<1>9. /\ NowOf(a, account) = NowOf(i, account) /\ NowTeam(a, team) = NowTeam(i, team)
      /\ NowOf(b, account) = NowOf(i, account) /\ NowTeam(b, team) = NowTeam(i, team)
      /\ NowOf(c, account) = NowOf(i, account) /\ NowTeam(c, team) = NowTeam(i, team)
  <2>1. NowOf(a, account) = NowOf(i, account) /\ NowTeam(a, team) = NowTeam(i, team)
    BY <1>6 DEF NowOf, NowTeam
  <2>2. NowOf(b, account) = NowOf(i, account) /\ NowTeam(b, team) = NowTeam(i, team)
    BY <1>7 DEF NowOf, NowTeam
  <2>3. NowOf(c, account) = NowOf(i, account) /\ NowTeam(c, team) = NowTeam(i, team)
    BY <1>8 DEF NowOf, NowTeam
  <2> QED BY <2>1, <2>2, <2>3
<1>10. Halfway(i, grant) /\ \A k \in Kinds : i.want[k] = Wanted(NowTeam(i, team), i.user, k)
  BY <1>1, <1>2 DEF Reconciling
<1>11. Matches(grant, i.user, i.kind, i.want[i.kind])
  BY <1>1, <1>10 DEF Halfway, Matches
<1>12. Ahead(i, team) = i.left \union {i.user}
  BY <1>1 DEF Ahead
<1>13. CASE i.kind = "admin"
  <2>1. Halfway(a, grant)
    BY <1>6, <1>11, <1>13 DEF Halfway
  <2>2. Ahead(a, team) = Ahead(i, team)
    BY <1>6, <1>12 DEF Ahead
  <2>3. Reconciling(a, account, team, grant)
    BY <1>1, <1>2, <1>6, <1>9, <2>1, <2>2 DEF Reconciling
  <2> QED BY <1>1, <1>4, <1>6, <1>13, <2>3, GoSettles
<1>14. CASE i.kind = "auditor"
  <2>1. \A k \in Kinds : Matches(grant, i.user, k, i.want[k])
    BY <1>10, <1>11, <1>14 DEF Halfway, Kinds
  <2>2. Follows(NowOf(i, account), NowTeam(i, team), grant, i.user)
    BY <1>10, <2>1 DEF Follows
  <2>3. \A u \in Accounts \ i.left : Follows(NowOf(i, account), NowTeam(i, team), grant, u)
    BY <1>2, <1>12, <2>2 DEF Reconciling
  <2>4. CASE i.op = "sync"
    <3>1. Ahead(b, team) = i.left
      BY <1>7 DEF Ahead
    <3>2. Reconciling(b, account, team, grant)
      BY <1>3, <1>7, <1>9, <2>3, <2>4, <3>1 DEF Reconciling, ByTeamOps
    <3> QED BY <1>1, <1>4, <1>7, <1>14, <2>4, <3>2, GoSettles
  <2>5. CASE i.op = "login"
    <3>1. i.left = {} /\ ~i.snap
      BY <1>2, <2>5 DEF Reconciling
    <3>2. Ahead(c, team) = {}
      BY <1>8 DEF Ahead
    <3>3. Reconciling(c, account, team, grant)
      BY <1>3, <1>8, <1>9, <2>3, <3>1, <3>2 DEF Reconciling, ByTeamOps
    <3> QED BY <1>1, <1>4, <1>8, <1>14, <2>5, <3>3, GoSettles
  <2> QED BY <1>3, <2>4, <2>5
<1> QED BY <1>1, <1>13, <1>14

(* A commit on the way: what the job saw is there for all to see. *)
LEMMA CommitSettles ==
  ASSUME IInv, Undisturbed, Settling, NEW w \in Workers, NEW g, NEW j \in Jobs, Commit(w, g, j),
         job[w].pc = "write", j.pc = "write", j.op = job[w].op, j.left = job[w].left,
         j.user = job[w].user, j.kind = job[w].kind, j.want = job[w].want, Halfway(j, g),
         \A u \in Accounts, t \in Tenants, k \in Kinds :
           u # job[w].user => g[<<u, t, k>>] = grant[<<u, t, k>>]
  PROVE  Settling'
<1> DEFINE i == job[w]
           n == Keep(j)
<1>1. job \in [Workers -> Jobs]
  BY DEF IInv, TypeOK
<1>2. /\ job'[w] = n /\ \A v \in Workers \ {w} : job'[v] = job[v]
      /\ account' = NowOf(i, account) /\ team' = TeamNow(w) /\ grant' = g
      /\ UNCHANGED <<known, serving, history>>
  BY <1>1 DEF Commit, AccountNow, NowOf
<1>3. team' = NowTeam(i, team)
  BY <1>2, NowTeamIs
<1>4. /\ n.pc = "write" /\ n.op = i.op /\ n.user = i.user /\ n.add = j.add /\ n.kind = i.kind
      /\ n.del = j.del /\ n.snap = FALSE /\ n.left = i.left /\ n.want = i.want
  BY KeepIsJob DEF Keep, Jobs
<1>5. NowOf(n, account') = account'
  <2>1. \A u \in Accounts : n.pend[u] = None /\ u \notin n.doomed
    BY KeepIsJob DEF Locked
  <2>2. account' \in Table
    BY Typed, <1>2, NowIsTable
  <2> HIDE DEF n
  <2> QED BY <2>1, <2>2 DEF NowOf, Table
<1> HIDE DEF n
<1>6. NowTeam(n, team') = team'
  BY <1>4 DEF NowTeam
<1>7. Halfway(n, g)
  BY <1>4 DEF Halfway
<1>8. ASSUME Reconciling(i, account, team, grant)
      PROVE  Reconciling(n, account', team', grant')
  <2>1. Ahead(i, team) = i.left \union {i.user} /\ Ahead(n, team') = i.left \union {i.user}
    BY <1>4 DEF Ahead
  <2>2. ASSUME NEW u \in Accounts \ Ahead(n, team')
        PROVE  Follows(account', team', grant', u)
    <3>1. Follows(account', team', grant, u) /\ u # i.user
      BY <1>2, <1>3, <1>8, <2>1, <2>2 DEF Reconciling
    <3> QED BY <1>2, <3>1 DEF Follows, Matches
  <2>3. /\ account'[n.user] # None
        /\ \A k \in Kinds : n.want[k] = Wanted(team', n.user, k)
    BY <1>2, <1>3, <1>4, <1>8 DEF Reconciling
  <2> QED BY <1>2, <1>4, <1>5, <1>6, <1>7, <1>8, <2>2, <2>3 DEF Reconciling
<1> QED BY <1>2, <1>4, <1>8, OthersSettle

LEMMA AddSettles ==
  ASSUME IInv, Undisturbed, Settling, NEW w \in Workers, NEW t \in Tenants, WriteAdd(w, t),
         history = {}
  PROVE  Settling'
<1> DEFINE i == job[w]
           add == i.add \ {t}
           j == [i EXCEPT !.add = add]
           g == WithRow(i.user, t, i.kind, "group")
<1>1. i \in Jobs /\ Sound(i, account, known, team) /\ i.pc = "write" /\ t \in i.add
      /\ grant \in Grantings
  BY Typed DEF WriteAdd, At
<1>2. Reconciling(i, account, team, grant) /\ serving = Customers
  BY <1>1 DEF Settling
<1>3. ByTeam(w) /\ IsActive(t)
  BY <1>2 DEF Reconciling, ByTeam, ByTeamOps, IsActive, Tenants
<1>4. Commit(w, g, j)
  BY <1>3 DEF WriteAdd
<1>5. i.user \in Accounts /\ i.kind \in Kinds /\ add \in SUBSET Tenants
  BY <1>1 DEF Sound, Jobs
<1> HIDE DEF add
<1>6. /\ j \in Jobs /\ j.pc = "write" /\ j.op = i.op /\ j.left = i.left /\ j.user = i.user
      /\ j.kind = i.kind /\ j.want = i.want /\ j.del = i.del /\ j.add = add
  BY <1>1, <1>5 DEF Jobs
<1> HIDE DEF j
<1>7. \A u \in Accounts, s \in Tenants, k \in Kinds :
        g[<<u, s, k>>] = IF u = i.user /\ s = t /\ k = i.kind /\ grant[<<u, s, k>>] = "none"
                           THEN "group" ELSE grant[<<u, s, k>>]
  <2>1. \A x \in AllRows :
          g[x] = IF x = <<i.user, t, i.kind>> /\ grant[x] = "none" THEN "group" ELSE grant[x]
    BY <1>1, WithRowIs DEF Sources
  <2> HIDE DEF g
  <2>2. ASSUME NEW u \in Accounts, NEW s \in Tenants, NEW k \in Kinds
        PROVE  /\ <<u, s, k>> \in AllRows
               /\ <<u, s, k>> = <<i.user, t, i.kind>> <=> u = i.user /\ s = t /\ k = i.kind
    BY DEF AllRows
  <2> QED BY <2>1, <2>2
<1> HIDE DEF g
<1>8. Halfway(i, grant)
  BY <1>1, <1>2 DEF Reconciling
<1>9. t \in i.want[i.kind]
  BY <1>1, <1>8 DEF Halfway
<1>10. Halfway(j, g)
  <2>1. ASSUME i.kind = "auditor" PROVE Matches(g, i.user, "admin", i.want["admin"])
    BY <1>5, <1>7, <1>8, <2>1 DEF Halfway, Matches, Kinds
  <2>2. add \subseteq i.want[i.kind] /\ i.del \intersect i.want[i.kind] = {}
    BY <1>1, <1>8 DEF Halfway, add
  <2>3. ASSUME NEW s \in Tenants
        PROVE  /\ g[<<i.user, s, i.kind>>] = "group" => s \in i.want[i.kind] \union i.del
               /\ s \in i.want[i.kind] => g[<<i.user, s, i.kind>>] # "none" \/ s \in add
    <3>1. /\ grant[<<i.user, s, i.kind>>] = "group" => s \in i.want[i.kind] \union i.del
          /\ s \in i.want[i.kind] => grant[<<i.user, s, i.kind>>] # "none" \/ s \in i.add
      BY <1>1, <1>8 DEF Halfway
    <3>2. g[<<i.user, s, i.kind>>] = IF s = t /\ grant[<<i.user, s, i.kind>>] = "none"
                                       THEN "group" ELSE grant[<<i.user, s, i.kind>>]
      BY <1>5, <1>7
    <3> QED BY <1>9, <3>1, <3>2 DEF add
  <2> QED BY <1>6, <2>1, <2>2, <2>3 DEF Halfway
<1>11. \A u \in Accounts, s \in Tenants, k \in Kinds :
         u # i.user => g[<<u, s, k>>] = grant[<<u, s, k>>]
  BY <1>7
<1> QED BY <1>1, <1>4, <1>6, <1>10, <1>11, CommitSettles

LEMMA RemoveSettles ==
  ASSUME IInv, Undisturbed, Settling, NEW w \in Workers, NEW t \in Tenants, WriteRemove(w, t),
         history = {}
  PROVE  Settling'
<1> DEFINE i == job[w]
           del == i.del \ {t}
           j == [i EXCEPT !.del = del]
           g == WithoutRow(i.user, t, i.kind)
<1>1. i \in Jobs /\ Sound(i, account, known, team) /\ i.pc = "write" /\ i.add = {} /\ t \in i.del
      /\ grant \in Grantings
  BY Typed DEF WriteRemove, At
<1>2. Reconciling(i, account, team, grant)
  BY <1>1 DEF Settling
<1>3. ByTeam(w)
  BY <1>2 DEF Reconciling, ByTeam, ByTeamOps
<1>4. Commit(w, g, j)
  BY <1>3 DEF WriteRemove
<1>5. i.user \in Accounts /\ i.kind \in Kinds /\ del \in SUBSET Tenants
  BY <1>1 DEF Sound, Jobs
<1> HIDE DEF del
<1>6. /\ j \in Jobs /\ j.pc = "write" /\ j.op = i.op /\ j.left = i.left /\ j.user = i.user
      /\ j.kind = i.kind /\ j.want = i.want /\ j.del = del /\ j.add = {}
  BY <1>1, <1>5 DEF Jobs
<1> HIDE DEF j
<1>7. \A u \in Accounts, s \in Tenants, k \in Kinds :
        g[<<u, s, k>>] = IF u = i.user /\ s = t /\ k = i.kind THEN "none" ELSE grant[<<u, s, k>>]
  <2>1. \A x \in AllRows : g[x] = IF x = <<i.user, t, i.kind>> THEN "none" ELSE grant[x]
    BY <1>1, WithoutRowIs
  <2> HIDE DEF g
  <2>2. ASSUME NEW u \in Accounts, NEW s \in Tenants, NEW k \in Kinds
        PROVE  /\ <<u, s, k>> \in AllRows
               /\ <<u, s, k>> = <<i.user, t, i.kind>> <=> u = i.user /\ s = t /\ k = i.kind
    BY DEF AllRows
  <2> QED BY <2>1, <2>2
<1> HIDE DEF g
<1>8. Halfway(i, grant)
  BY <1>1, <1>2 DEF Reconciling
<1>9. t \notin i.want[i.kind]
  BY <1>1, <1>8 DEF Halfway
<1>10. Halfway(j, g)
  <2>1. ASSUME i.kind = "auditor" PROVE Matches(g, i.user, "admin", i.want["admin"])
    BY <1>5, <1>7, <1>8, <2>1 DEF Halfway, Matches, Kinds
  <2>2. del \intersect i.want[i.kind] = {}
    BY <1>1, <1>8 DEF Halfway, del
  <2>3. ASSUME NEW s \in Tenants
        PROVE  /\ g[<<i.user, s, i.kind>>] = "group" => s \in i.want[i.kind] \union del
               /\ s \in i.want[i.kind] => g[<<i.user, s, i.kind>>] # "none"
    <3>1. /\ grant[<<i.user, s, i.kind>>] = "group" => s \in i.want[i.kind] \union i.del
          /\ s \in i.want[i.kind] => grant[<<i.user, s, i.kind>>] # "none"
      BY <1>1, <1>8 DEF Halfway
    <3>2. g[<<i.user, s, i.kind>>] = IF s = t THEN "none" ELSE grant[<<i.user, s, i.kind>>]
      BY <1>5, <1>7
    <3> QED BY <1>9, <3>1, <3>2 DEF del
  <2> QED BY <1>6, <2>1, <2>2, <2>3 DEF Halfway
<1>11. \A u \in Accounts, s \in Tenants, k \in Kinds :
         u # i.user => g[<<u, s, k>>] = grant[<<u, s, k>>]
  BY <1>7
<1> QED BY <1>1, <1>4, <1>6, <1>10, <1>11, CommitSettles

LEMMA FinishSettles ==
  ASSUME IInv, Undisturbed, Settling, NEW w \in Workers, Finish(w)
  PROVE  Settling'
<1> DEFINE i == job[w]
           gone == i.doomed
<1>1. job \in [Workers -> Jobs] /\ grant \in Grantings /\ i.pc # "idle"
  BY Typed DEF IInv, TypeOK, Finish, Finished, At
<1>2. /\ job'[w] = Keep(Idle) /\ \A v \in Workers \ {w} : job'[v] = job[v]
      /\ account' = NowOf(i, account) /\ team' = TeamNow(w)
      /\ grant' = WithoutRowsOf(gone, {})
      /\ UNCHANGED <<known, serving, history>>
  BY <1>1 DEF Finish, Commit, AccountNow, NowOf
<1>3. team' = NowTeam(i, team)
  BY <1>2, NowTeamIs
<1>4. job'[w].pc = "idle" /\ job'[w].snap = FALSE
  BY <1>2, IdleIsJob, IdleHolds, KeepIsJob
<1>5. ASSUME Reconciling(i, account, team, grant), NEW u \in Accounts
      PROVE  Follows(account', team', grant', u)
  <2>1. Ahead(i, team) = {}
    BY <1>5 DEF Finish, Finished, At, Reconciling, Ahead
  <2>2. Follows(account', team', grant, u)
    BY <1>2, <1>3, <1>5, <2>1 DEF Reconciling
  <2>3. CASE u \in gone
    BY <1>2, <2>3 DEF NowOf, Follows
  <2>4. CASE u \notin gone
    <3> HIDE DEF gone
    <3>1. \A t \in Tenants, k \in Kinds : grant'[<<u, t, k>>] = grant[<<u, t, k>>]
      BY <1>1, <1>2, <2>4, WithoutAccounts
    <3> QED BY <2>2, <3>1 DEF Follows, Matches
  <2> QED BY <2>3, <2>4
<1> QED BY <1>1, <1>2, <1>4, <1>5, OthersSettle

(* Undisturbed, a sync or a login only takes the steps of one: its team and *)
(* its tenants are there, and so is the account it is at.                   *)
LEMMA StepSettles ==
  ASSUME IInv, Undisturbed, Settling, NEW w \in Workers, Step(w)
  PROVE  Settling'
<1>1. job[w].pc # "idle" /\ history \subseteq history'
  BY StepAlone
<1> SUFFICES ASSUME history = {} PROVE Settling'
  BY <1>1 DEF Settling
<1>2. Reconciling(job[w], account, team, grant) /\ known = Customers /\ serving = Customers
  BY <1>1 DEF Settling
<1>3. job[w].pc \in {"snapshot", "member", "diff", "write", "leavers", "commit"}
  BY <1>2 DEF Reconciling
<1>4. CASE SyncSnapshot(w) \/ SyncMembersDone(w) \/ SyncLeavers(w) \/ Diff(w) \/ WriteDone(w)
           \/ Finish(w) \/ \E u \in Accounts : SyncMember(w, u)
  BY <1>4, SnapshotSettles, MembersDoneSettles, LeaversSettle, DiffSettles, WriteDoneSettles,
     FinishSettles, MemberSettles
<1>5. ASSUME NEW t \in Tenants, WriteAdd(w, t) \/ WriteRemove(w, t) PROVE Settling'
  BY <1>5, AddSettles, RemoveSettles
<1>6. ~SyncTeamGone(w)
  BY <1>2 DEF SyncTeamGone, At, Reconciling
<1>7. ~WriteRefused(w)
  <2>1. ASSUME At(w, "write"), NEW t \in job[w].add PROVE AccountNow(w)[job[w].user] # None /\ HasTenant(t)
    <3>1. NowOf(job[w], account)[job[w].user] # None
      BY <1>2, <2>1 DEF At, Reconciling
    <3>2. t \in Tenants
      BY <2>1, Typed DEF Jobs
    <3> QED BY <1>2, <3>1, <3>2 DEF AccountNow, NowOf, HasTenant, Tenants
  <2> QED BY <2>1 DEF WriteRefused
<1>8. ~(\/ Revoke(w) \/ AssignDone(w) \/ Deactivate(w) \/ ClearNext(w) \/ PurgeTenant(w)
        \/ \E u \in Accounts : AssignAccount(w, u) \/ SsoRemove(w, u)
        \/ \E t \in Tenants : MigrateAdd(w, t) \/ MigrateRemove(w, t) \/ Clear(w, t))
  BY <1>3 DEF Revoke, AssignDone, Deactivate, ClearNext, PurgeTenant, AssignAccount, SsoRemove,
              MigrateAdd, MigrateRemove, Clear, At
<1>9. CASE FinishRefused(w)
  BY <1>9 DEF FinishRefused, Settling
<1> QED BY <1>4, <1>5, <1>6, <1>7, <1>8, <1>9 DEF Step

-----------------------------------------------------------------------------
(* A request starts                                                        *)

LEMMA StartSettles ==
  ASSUME IInv, Settling, NEW w \in Workers, NEW op, NEW j, NEW unsynced,
         Starts(w, op, j, unsynced), NEW i, i = [j EXCEPT !.op = op], i.pc # "idle",
         UNCHANGED <<known, serving>>,
         /\ ~unsynced
         /\ \A v \in Workers : job[v].pc = "idle" /\ ~job[v].snap
         /\ \A u \in Accounts : Follows(account, team, grant, u)
         => Reconciling(i, account', team', grant')
  PROVE  Settling'
<1>1. job \in [Workers -> Jobs]
  BY DEF IInv, TypeOK
<1>2. job'[w] = i /\ \A v \in Workers \ {w} : job'[v] = job[v]
  BY <1>1 DEF Starts
<1>3. history' = {} => history = {} /\ ~Overlaps(w) /\ ~unsynced
  BY DEF Starts, Marks
<1> SUFFICES ASSUME history' = {} PROVE Settling'
  BY DEF Settling
<1>4. \A v \in Workers : job[v].pc = "idle"
  BY <1>3 DEF Overlaps, Others, Starts
<1>5. /\ known = Customers /\ serving = Customers
      /\ \A v \in Workers : ~job[v].snap
      /\ \A u \in Accounts : Follows(account, team, grant, u)
  BY <1>3, <1>4 DEF Settling
<1>6. Reconciling(i, account', team', grant')
  BY <1>3, <1>4, <1>5
<1> QED BY <1>2, <1>4, <1>5, <1>6 DEF Settling

\* What only a sync of every team would make good is marked as such.
LEMMA Unsettled ==
  ASSUME NEW w \in Workers, NEW op, NEW j, Starts(w, op, j, TRUE)
  PROVE  Settling'
<1>1. history' # {}
  BY DEF Starts, Marks
<1> QED BY <1>1 DEF Settling

(* A team is fetched that is there; whoever is neither in it nor to be is  *)
(* in line.                                                                *)
LEMMA FetchSettles ==
  ASSUME IInv, Settling, NEW w \in Workers, NEW g \in Teams,
         Starts(w, "sync", Fetched(g), FALSE), UNCHANGED access, team' \in TeamTable,
         team'[g] # None,
         \A u \in Accounts \ team'[g].members : \A k : Wanted(team', u, k) = Wanted(team, u, k)
  PROVE  Settling'
<1> DEFINE j == Fetched(g)
           i == [j EXCEPT !.op = "sync"]
<1>1. j \in Jobs /\ j.pc = "snapshot" /\ j.team = g /\ j.pend = Idle.pend /\ j.doomed = {} /\ ~j.snap
  <2>1. j \in Jobs
    BY FetchedIs
  <2> QED BY <2>1, IdleIsJob, IdleHolds DEF Fetched, Jobs
<1>2. Starts(w, "sync", j, FALSE) /\ UNCHANGED <<account, known, serving, grant>>
  BY DEF access
<1> HIDE DEF j
<1>3. /\ i \in Jobs /\ i.op = "sync" /\ i.pc = "snapshot" /\ i.team = g /\ i.pend = Idle.pend
      /\ i.doomed = {} /\ ~i.snap
  BY <1>1 DEF Jobs, AllOps
<1>4. i = [j EXCEPT !.op = "sync"]
  OBVIOUS
<1> HIDE DEF i
<1>5. NowOf(i, account') = account
  BY <1>2, <1>3, IdleHolds, Typed DEF NowOf, Table
<1>6. NowTeam(i, team') = team' /\ Ahead(i, team') = team'[g].members \union i.fetched
  BY <1>3 DEF NowTeam, Ahead
<1>7. ASSUME \A u \in Accounts : Follows(account, team, grant, u)
      PROVE  Reconciling(i, account', team', grant')
  <2>1. \A u \in Accounts \ Ahead(i, team') : Follows(account, team', grant', u)
    BY <1>2, <1>6, <1>7 DEF Follows
  <2> QED BY <1>3, <1>5, <1>6, <2>1 DEF Reconciling, ByTeamOps
<1> QED BY <1>2, <1>3, <1>4, <1>7, StartSettles

LEMMA EditSettles ==
  ASSUME IInv, Settling, NEW w \in Workers, NEW g \in Teams, NEW row \in TeamRows,
         EditThenSync(w, g, row), team[g] # None => row.members = team[g].members
  PROVE  Settling'
<1>1. team' = [team EXCEPT ![g] = row] /\ UNCHANGED access /\ row # None
  BY GrantsAssumption DEF EditThenSync
<1>2. team \in TeamTable /\ team' \in TeamTable /\ team'[g] = row
  BY <1>1, Typed DEF TeamTable
<1>3. ASSUME NEW u \in Accounts \ row.members
      PROVE  \A k : Wanted(team', u, k) = Wanted(team, u, k)
  <2>1. g \notin TeamsIn(team, u) /\ g \notin TeamsIn(team', u)
    BY <1>2, <1>3 DEF TeamsIn
  <2>2. \A h \in Teams \ {g} : team'[h] = team[h]
    BY <1>1, <1>2 DEF TeamTable
  <2>3. \A h \in Teams : /\ h \in TeamsIn(team, u) <=> h \in TeamsIn(team', u)
                         /\ h \in TeamsIn(team, u) => team'[h] = team[h]
    BY <2>1, <2>2 DEF TeamsIn
  <2> QED BY <2>3, SameWanted
<1>4. CASE Starts(w, "sync", Fetched(g), FALSE)
  BY <1>1, <1>2, <1>3, <1>4, FetchSettles
<1>5. CASE history' = history \union {"unsynced"}
  BY <1>5 DEF Settling
<1> QED BY <1>4, <1>5 DEF EditThenSync

LEMMA LoginSettles ==
  ASSUME IInv, Settling, NEW w \in Workers, NEW u \in Accounts, Login(w, u)
  PROVE  Settling'
<1> DEFINE row == SsoRow(TeamRole(u), Provider)
           want == Desired(Claims(u))
           other == Claims(u) # TeamsOf(w, u)
           j == [Idle EXCEPT !.pc = "diff", !.user = u, !.want = want, !.pend[u] = row]
           i == [j EXCEPT !.op = "login"]
<1>1. Starts(w, "login", j, other) /\ UNCHANGED <<known, serving, grant, team>>
  BY DEF Login
<1>2. \A v \in Accounts : v # u => account'[v] = account[v]
  BY Typed DEF Login, Table
<1>3. row \in AccountRows /\ row # None
  <2>1. TeamRole(u) \in Roles
    BY DEF TeamRole, Roles
  <2>2. row \in AccountRows
    BY <2>1 DEF SsoRow, AccountRows, Tenants
  <2> QED BY <2>2, AccessAssumption
<1>4. want \in [Kinds -> SUBSET Tenants]
  BY DesiredTyped DEF Claims
<1>5. ~other => \A k \in Kinds : want[k] = Wanted(NowTeam(job[w], team), u, k)
  BY TeamsOfWant
<1> HIDE DEF row, want, other
<1>6. j \in Jobs /\ j.pc = "diff" /\ j.user = u /\ j.want = want /\ j.kind = "admin"
      /\ j.pend[u] = row /\ (\A v \in Accounts : v # u => j.pend[v] = None)
      /\ j.doomed = {} /\ j.left = {} /\ j.snap = FALSE
  BY <1>3, <1>4, IdleIsJob, IdleHolds DEF Jobs, Idle
<1>7. Starts(w, "login", j, other)
  BY <1>1
<1> HIDE DEF j
<1>8. /\ i \in Jobs /\ i.op = "login" /\ i.pc = "diff" /\ i.user = u /\ i.want = want /\ i.kind = "admin"
      /\ i.pend[u] = row /\ (\A v \in Accounts : v # u => i.pend[v] = None)
      /\ i.doomed = {} /\ i.left = {} /\ i.snap = FALSE
  BY <1>6 DEF Jobs, AllOps
<1>9. i = [j EXCEPT !.op = "login"]
  OBVIOUS
<1> HIDE DEF i
<1>10. NowOf(i, account')[u] = row /\ \A v \in Accounts : v # u => NowOf(i, account')[v] = account[v]
  BY <1>2, <1>3, <1>8 DEF NowOf
<1>11. ASSUME ~other, \A v \in Workers : job[v].pc = "idle" /\ ~job[v].snap,
              \A v \in Accounts : Follows(account, team, grant, v)
       PROVE  Reconciling(i, account', team', grant')
  <2>1. NowTeam(i, team') = team /\ NowTeam(job[w], team) = team /\ Ahead(i, team') = {u}
    BY <1>1, <1>8, <1>11 DEF NowTeam, Ahead
  <2>2. \A k \in Kinds : i.want[k] = Wanted(NowTeam(i, team'), u, k)
    BY <1>5, <1>8, <1>11, <2>1
  <2>3. Halfway(i, grant')
    BY <1>8 DEF Halfway
  <2>4. ASSUME NEW v \in Accounts \ {u}
        PROVE  Follows(NowOf(i, account'), NowTeam(i, team'), grant', v)
    BY <1>1, <1>10, <1>11, <2>1, <2>4 DEF Follows
  <2> QED BY <1>3, <1>8, <1>10, <2>1, <2>2, <2>3, <2>4 DEF Reconciling, ByTeamOps
<1> QED BY <1>1, <1>7, <1>8, <1>9, <1>11, StartSettles

LEMMA RequestSettles ==
  ASSUME IInv, Settling, NEW w \in Workers, Request(w)
  PROVE  Settling'
<1>1. ASSUME NEW g \in Teams, SyncFetch(w, g) PROVE Settling'
  <2>1. team' = team /\ team' \in TeamTable
    BY <1>1, Typed DEF SyncFetch
  <2> QED BY <1>1, <2>1, FetchSettles DEF SyncFetch
<1>2. ASSUME NEW g \in Teams, NEW role \in Kinds, CreateTeam(w, g, role) PROVE Settling'
  <2>1. [role |-> role, tenants |-> {}, members |-> {}] \in TeamRows
    BY DEF TeamRows
  <2> QED BY <1>2, <2>1, EditSettles DEF CreateTeam
<1>3. ASSUME NEW g \in Teams, NEW ts \in SUBSET Tenants, SetTeamTenants(w, g, ts) PROVE Settling'
  <2>1. team[g] \in TeamRows
    BY <1>3, Typed DEF TeamTable, SetTeamTenants
  <2>2. [team[g] EXCEPT !.tenants = ts] \in TeamRows
        /\ [team[g] EXCEPT !.tenants = ts].members = team[g].members
    BY <2>1 DEF TeamRows
  <2> QED BY <1>3, <2>2, EditSettles DEF SetTeamTenants
<1>4. ASSUME NEW u \in Accounts, Login(w, u) PROVE Settling'
  BY <1>4, LoginSettles
<1>5. CASE \E op, j : Starts(w, op, j, TRUE)
  BY <1>5, Unsettled
<1>6. ASSUME NEW u \in Accounts,
             \/ Promote(w, u) \/ Demote(w, u) \/ DeleteUser(w, u)
             \/ \E role \in Kinds : SetRole(w, u, role)
      PROVE  \E op, j : Starts(w, op, j, TRUE)
  BY <1>6 DEF Promote, Demote, DeleteUser, SetRole
<1>7. ASSUME NEW u \in Accounts,
             \/ \E invited \in BOOLEAN : CreateSuperadmin(w, u, invited)
             \/ \E role \in Kinds, t \in Tenants, invited \in BOOLEAN :
                  CreateLocal(w, u, role, t, invited)
      PROVE  \E op, j : Starts(w, op, j, TRUE)
  <2>1. \E row, ts, invited : CreateAccount(w, u, row, ts, invited)
    BY <1>7 DEF CreateSuperadmin, CreateLocal
  <2> QED BY <2>1 DEF CreateAccount
<1>8. ASSUME NEW op \in AllOps, NEW us \in SUBSET {u \in Accounts : Exists(u)},
             NEW ts \in SUBSET Tenants, Assign(w, op, us, ts)
      PROVE  \E p, j : Starts(w, p, j, TRUE)
  BY <1>8 DEF Assign
<1>9. ASSUME NEW t \in Tenants, NEW admins \in SUBSET Accounts, NEW auditors \in SUBSET Accounts,
             SsoSync(w, t, admins, auditors)
      PROVE  \E op, j : Starts(w, op, j, TRUE)
  <2>1. \E j : Starts(w, "sso", j, TRUE)
    BY <1>9 DEF SsoSync
  <2> QED BY <2>1
<1>10. ASSUME NEW t \in Customers, Purge(w, t) PROVE \E op, j : Starts(w, op, j, TRUE)
  BY <1>10 DEF Purge
<1> QED BY <1>1, <1>2, <1>3, <1>4, <1>5, <1>6, <1>7, <1>8, <1>9, <1>10 DEF Request

LEMMA StaysSettling == IInv /\ Undisturbed /\ Settling /\ [Next]_vars => Settling'
<1> SUFFICES ASSUME IInv, Undisturbed, Settling, [Next]_vars PROVE Settling'
  OBVIOUS
<1>1. CASE UNCHANGED <<account, known, serving, grant, team, job, history>>
  BY <1>1 DEF Settling
<1>2. CASE World
  <2>1. CASE \E g \in Teams, u \in Movers : Membership(g, u)
    BY <1>1, <2>1 DEF Membership, access
  <2>2. CASE \/ \E t \in Customers : Serve(t)
             \/ \E g \in Teams, role \in Kinds : UpdateTeam(g, role)
             \/ \E g \in Teams : DeleteTeam(g)
             \/ Crash
    <3>1. history' # {}
      BY <2>2 DEF Serve, UpdateTeam, DeleteTeam, Edit, Crash
    <3> QED BY <3>1 DEF Settling
  <2> QED BY <1>2, <2>1, <2>2 DEF World
<1>3. CASE UNCHANGED vars
  BY <1>1, <1>3 DEF vars, access
<1> QED BY <1>2, <1>3, RequestSettles, StepSettles DEF Next

\* Rows that are out of line at the start are marked as unsynced.
LEMMA StartsOutSettling == Init => Settling
<1> SUFFICES ASSUME Init, history = {} PROVE Settling
  BY DEF Settling
<1>1. \A w \in Workers : job[w] = Idle
  BY DEF Init
<1>2. \A u \in Accounts : InLine(u)
  BY DEF Init, Marks
<1>3. \A u \in Accounts : Follows(account, team, grant, u)
  BY <1>2, InitIs, InLineIs
<1>4. known = Customers /\ serving = Customers
  BY DEF Init
<1> QED BY <1>1, <1>3, <1>4, IdleHolds DEF Settling

LEMMA AlwaysSettling == Spec => [](IInv /\ Undisturbed /\ Settling)
<1>1. Init => IInv /\ Undisturbed /\ Settling
  BY InitIs, StartsOutUndisturbed, StartsOutSettling
<1>2. IInv /\ Undisturbed /\ Settling /\ [Next]_vars => (IInv /\ Undisturbed /\ Settling)'
  BY Keeps, StaysUndisturbed, StaysSettling
<1> QED BY <1>1, <1>2, PTL DEF Spec

(* The rows of the staff follow the teams: whoever joins, leaves, logs in  *)
(* or is deleted, and whatever tenants a team is given, once the syncs and *)
(* the logins are through nobody of the staff has a team's row that no     *)
(* team wants, and nobody lacks one, as long as nothing has happened that  *)
(* only a sync of every team makes good (group_sync, oidc_callback).       *)
THEOREM SyncsSettle == Spec => []SyncSettles
<1>1. IInv /\ Settling => SyncSettles
  <2> SUFFICES ASSUME IInv, Settling, history = {}, Quiet, NEW u \in Accounts PROVE InLine(u)
    BY DEF SyncSettles
  <2>1. Follows(account, team, grant, u)
    BY DEF Settling, Quiet
  <2> QED BY <2>1, InLineIs
<1> QED BY <1>1, AlwaysSettling, PTL
=============================================================================
