-------------------------------- MODULE SignIn --------------------------------
(***************************************************************************)
(* Signing in to one local account: the password, the lockout after failed *)
(* attempts, the second factor (a TOTP code or a recovery code) and the    *)
(* requests that set the second factor up and take it away.                *)
(*                                                                         *)
(* A request is one worker with a database session of its own (READ        *)
(* COMMITTED).  It reads the account's row, judges what was sent with it,  *)
(* and commits.  The ORM writes the columns whose value differs from the   *)
(* one that was read, so a request that changes nothing in a column leaves *)
(* alone what others have put there, and one that changes it overwrites    *)
(* that.  A request that is refused on what it has read changes nothing    *)
(* and is left out; one that finds fault with what was sent raises, and an *)
(* error drops what had been put on the response, deleted cookies too.     *)
(*                                                                         *)
(* A browser holds a session or, after the password alone, an interim      *)
(* token that is good for the second step and for setting it up.  What     *)
(* becomes of a session is Sessions' business; its row and its tokens come *)
(* in one step here.  SSO accounts have no second factor.                  *)
(***************************************************************************)
EXTENDS FiniteSets, Integers

CONSTANTS
  Browsers,
  Workers,      \* requests under way at the same time
  Required,     \* the values auth.require_2fa takes in the account's home tenant
  TimeSteps,    \* time steps whose codes are presented while they are in the window
  None,
  MaxFailures,  \* login_max_failures
  SetSize,      \* recovery codes in a set
  AtFirst,      \* the account to start with: several alternatives
  MaxSecrets,   \* bound: secrets ever made, the one at the start included
  MaxCodes,     \* bound: recovery codes ever made
  MaxRequests,  \* bound: requests ever made
  MaxEnds       \* bound: locks, interim tokens and sessions that end

Secrets == 1..MaxSecrets
Codes == 1..MaxCodes

\* The columns of app_user this is about.  A lock that is over stays in locked_until
\* until something clears it.
AccountRows ==
  [fails : Nat, lock : {"none", "held", "over"},
   on : BOOLEAN, secret : Secrets \union {None},
   last : TimeSteps \union {None}, codes : SUBSET Codes]

Ops == {"login", "verify", "setup", "enable", "disable", "password"}
Requests == [op : Ops, dev : Browsers, by : {"session", "interim", "none"}, seen : AccountRows]
Uses == [of : [Secrets \X TimeSteps -> Nat], all : Nat]

ASSUME SignInAssumption ==
  /\ None \notin Nat \union TimeSteps \union Requests /\ IsFiniteSet(Workers)
  /\ Required \subseteq BOOLEAN
  /\ MaxFailures \in Nat \ {0} /\ SetSize \in Nat \ {0}
  /\ MaxSecrets \in Nat /\ MaxCodes \in Nat /\ MaxRequests \in Nat /\ MaxEnds \in Nat
ASSUME StartAssumption ==
  /\ AtFirst \subseteq AccountRows
  /\ \A a \in AtFirst :
       /\ a.fails < MaxFailures   \* register_failed_attempt starts again when it gets there
       /\ IF a.on THEN a.secret = 1 /\ a.codes = 1..SetSize
          ELSE a.secret = None /\ a.codes = {}

VARIABLES
  account,   \* the row
  session,   \* browsers with a session
  interim,   \* browsers with an interim token that is still good
  req,       \* what each worker is at
  made,      \* secrets and recovery codes made so far
  spent,     \* what the bounds count
  misses,    \* history: failures since a lock or a success
  proven,    \* history: secrets a code has been shown for
  dead,      \* history: recovery codes that were used or replaced
  uses,      \* history: how often each TOTP code was accepted, and any of them
  crossed    \* history: kinds of requests that have overlapped

history == <<misses, proven, dead, uses, crossed>>
vars == <<account, session, interim, req, made, spent, history>>

TypeOK ==
  /\ account \in AccountRows
  /\ session \subseteq Browsers /\ interim \subseteq Browsers
  /\ req \in [Workers -> Requests \union {None}]
  /\ made \in [secrets : 0..MaxSecrets, codes : 0..MaxCodes]
  /\ spent \in [requests : 0..MaxRequests, ends : 0..MaxEnds]
  /\ misses \in Nat
  /\ proven \subseteq Secrets /\ dead \subseteq Codes
  /\ uses \in Uses
  /\ crossed \subseteq {"enrolment", "recovery"}

-----------------------------------------------------------------------------
(* Reading the account                                                     *)

\* login and two_factor_verify: a secret without totp_enabled is no factor, and the
\* other way round.
HasFactor(a) == a.on /\ a.secret # None
Locked(a) == a.lock = "held"

\* What a request must find to go on.  get_enrolling_user takes the session, and the
\* interim token only without one.
Admits(op, b) ==
  CASE op = "login" -> ~Locked(account)
    [] op = "verify" -> b \in interim /\ HasFactor(account) /\ ~Locked(account)
    [] op = "setup" -> b \in session \union interim /\ ~account.on
    [] op = "enable" -> b \in session \union interim /\ ~account.on /\ account.secret # None
    [] op = "disable" -> b \in session /\ account.on /\ ~Locked(account)
    [] op = "password" -> b \in session /\ ~Locked(account)

Way(op, b) == IF op = "login" THEN "none" ELSE IF b \in session THEN "session" ELSE "interim"

Busy == {w \in Workers : req[w] # None}
UnderWay(op) == {w \in Busy : req[w].op = op}

\* Secrets and codes are not used up by the requests that are still to make them.
Left(op) ==
  /\ op = "setup" => made.secrets + Cardinality(UnderWay("setup")) < MaxSecrets
  /\ op = "enable" => made.codes + SetSize * (Cardinality(UnderWay("enable")) + 1) <= MaxCodes

\* Pairs of requests that disturb one another: the secret is read by one and replaced
\* by the other, or the list of recovery codes is.
Enrolment == {{"enable", "setup"}, {"enable", "disable"}}
Recovery == {{"verify"}, {"verify", "enable"}, {"verify", "disable"}}
Crossings(op) ==
  {"enrolment" : w \in {v \in Busy : {op, req[v].op} \in Enrolment}} \union
  {"recovery" : w \in {v \in Busy : {op, req[v].op} \in Recovery}}

Begin(w, b, op) ==
  /\ req[w] = None /\ spent.requests < MaxRequests
  /\ Admits(op, b) /\ Left(op)
  /\ req' = [req EXCEPT ![w] = [op |-> op, dev |-> b, by |-> Way(op, b), seen |-> account]]
  /\ spent' = [spent EXCEPT !.requests = @ + 1]
  /\ crossed' = crossed \union Crossings(op)
  /\ UNCHANGED <<account, session, interim, made, misses, proven, dead, uses>>

-----------------------------------------------------------------------------
(* Writing it back                                                         *)

(* Mutant: the whole row is written. *)
WrittenMutWhole(seen, new) == new
\* A flush: only the columns that differ from what was loaded.
Written(seen, new) ==
  [c \in DOMAIN account |-> IF new[c] # seen[c] THEN new[c] ELSE account[c]]

(* Mutant: one attempt more. *)
FailedMutOneMore(a) ==
  IF a.fails >= MaxFailures THEN [a EXCEPT !.fails = 0, !.lock = "held"]
  ELSE [a EXCEPT !.fails = @ + 1]
\* register_failed_attempt
Failed(a) ==
  IF a.fails + 1 >= MaxFailures THEN [a EXCEPT !.fails = 0, !.lock = "held"]
  ELSE [a EXCEPT !.fails = @ + 1]

(* Mutant: the column is emptied, not set to 0. *)
ResetMutEmpty(a) == [a EXCEPT !.fails = None, !.lock = "none"]
\* reset_failed_attempts
Reset(a) == [a EXCEPT !.fails = 0, !.lock = "none"]

At(w, op) == req[w] # None /\ req[w].op = op

\* The request commits the row as new, as far as it changes it, and ends.
Ends(w, new) ==
  /\ account' = Written(req[w].seen, new)
  /\ req' = [req EXCEPT ![w] = None]
  /\ UNCHANGED spent

Misses(w) ==
  LET new == Failed(req[w].seen) IN
  /\ Ends(w, new)
  /\ misses' = IF Locked(new) THEN 0 ELSE misses + 1
  /\ UNCHANGED <<session, interim, made, proven, dead, uses, crossed>>

\* The wrong password, at login, for two_factor_disable or as the current one.
WrongPassword(w) ==
  /\ \E op \in {"login", "disable", "password"} : At(w, op)
  /\ Misses(w)

\* login with the right password of an account that has a second factor, or must have
\* one: no session yet.
PasswordAlone(w) ==
  LET r == req[w] IN
  /\ At(w, "login")
  /\ HasFactor(r.seen) \/ TRUE \in Required
  /\ Ends(w, Reset(r.seen)) /\ misses' = 0
  /\ interim' = interim \union {r.dev}
  /\ UNCHANGED <<session, made, proven, dead, uses, crossed>>

\* _complete_login
PasswordSuffices(w) ==
  LET r == req[w] IN
  /\ At(w, "login")
  /\ ~HasFactor(r.seen) /\ FALSE \in Required
  /\ Ends(w, Reset(r.seen)) /\ misses' = 0
  /\ session' = session \union {r.dev}
  /\ UNCHANGED <<interim, made, proven, dead, uses, crossed>>

\* change_password with the current one: the count goes with the new hash.  What becomes
\* of the sessions is left to Sessions.
ChangePassword(w) ==
  /\ At(w, "password")
  /\ Ends(w, Reset(req[w].seen)) /\ misses' = 0
  /\ UNCHANGED <<session, interim, made, proven, dead, uses, crossed>>

-----------------------------------------------------------------------------
(* two_factor_verify                                                       *)

Enters(b) == session' = session \union {b} /\ interim' = interim \ {b}

\* matching_step finds the step, and it is not the one accepted last.
(* Mutant: it does not look at that. *)
FreshMutAny(a, s) == TRUE
Fresh(a, s) == s # a.last

Used(a, s) == uses' = [uses EXCEPT !.of[<<a.secret, s>>] = @ + 1, !.all = @ + 1]

RightCode(w, s) ==
  LET r == req[w] IN
  /\ At(w, "verify") /\ Fresh(r.seen, s)
  /\ Ends(w, [Reset(r.seen) EXCEPT !.last = s]) /\ misses' = 0
  /\ Used(r.seen, s) /\ Enters(r.dev)
  /\ UNCHANGED <<made, proven, dead, crossed>>

(* Mutant: the code stays in the list. *)
WithoutMutKept(a, c) == a
Without(a, c) == [a EXCEPT !.codes = @ \ {c}]

RecoveryCode(w, c) ==
  LET r == req[w] IN
  /\ At(w, "verify") /\ c \in r.seen.codes
  /\ Ends(w, Without(Reset(r.seen), c)) /\ misses' = 0
  /\ dead' = dead \union {c} /\ Enters(r.dev)
  /\ UNCHANGED <<made, proven, uses, crossed>>

\* Also a code that was accepted last.  The cookie stays, whatever the handler deletes.
WrongCode(w) == At(w, "verify") /\ Misses(w)

-----------------------------------------------------------------------------
(* two_factor_setup, two_factor_enable and two_factor_disable              *)

Setup(w) ==
  LET new == made.secrets + 1 IN
  /\ At(w, "setup")
  /\ Ends(w, [req[w].seen EXCEPT !.secret = new, !.on = FALSE])
  /\ made' = [made EXCEPT !.secrets = new]
  /\ UNCHANGED <<session, interim, misses, proven, dead, uses, crossed>>

Enabled(a, s) ==
  [a EXCEPT !.on = TRUE, !.last = s, !.codes = made.codes + 1..made.codes + SetSize]

\* A code for the secret that was read.  Whoever has no session yet gets one.
Enable(w, s) ==
  LET r == req[w] IN
  /\ At(w, "enable")
  /\ Ends(w, Enabled(r.seen, s))
  /\ made' = [made EXCEPT !.codes = @ + SetSize]
  /\ dead' = dead \union 1..made.codes
  /\ proven' = proven \union {r.seen.secret}
  /\ Used(r.seen, s)
  /\ IF r.by = "interim" THEN Enters(r.dev) ELSE UNCHANGED <<session, interim>>
  /\ UNCHANGED <<misses, crossed>>

(* Mutant: the secret goes, the switch stays on. *)
DisabledMutOn(a) == [a EXCEPT !.secret = None, !.codes = {}]
Disabled(a) == [a EXCEPT !.on = FALSE, !.secret = None, !.codes = {}]

\* The password and a code that is good, too.
Disable(w) ==
  LET r == req[w] IN
  /\ At(w, "disable")
  /\ \/ \E s \in TimeSteps :
          /\ r.seen.secret # None /\ Fresh(r.seen, s)
          /\ Ends(w, [Disabled(Reset(r.seen)) EXCEPT !.last = s]) /\ Used(r.seen, s)
     \/ r.seen.codes # {} /\ Ends(w, Disabled(Reset(r.seen))) /\ UNCHANGED uses
  /\ misses' = 0
  /\ dead' = dead \union r.seen.codes
  /\ UNCHANGED <<session, interim, made, proven, crossed>>

\* two_factor_enable and two_factor_disable raise for a wrong code and count nothing, and
\* so does change_password for a weak password; a request that dies before its commit
\* leaves nothing behind.
Refused(w) ==
  /\ req[w] # None
  /\ req' = [req EXCEPT ![w] = None]
  /\ UNCHANGED <<account, session, interim, made, spent, history>>

-----------------------------------------------------------------------------
(* Time passes: a lock and an interim token run out, a session ends.       *)

Ending == spent.ends < MaxEnds /\ spent' = [spent EXCEPT !.ends = @ + 1]

LockEnds ==
  /\ Locked(account) /\ Ending
  /\ account' = [account EXCEPT !.lock = "over"]
  /\ UNCHANGED <<session, interim, req, made, history>>

SessionEnds(b) ==
  /\ b \in session \union interim /\ Ending
  /\ session' = session \ {b} /\ interim' = interim \ {b}
  /\ UNCHANGED <<account, req, made, history>>

-----------------------------------------------------------------------------
Init ==
  /\ account \in AtFirst
  /\ session = {} /\ interim = {}
  /\ req = [w \in Workers |-> None]
  /\ made = [secrets |-> IF account.on THEN 1 ELSE 0,
             codes |-> IF account.on THEN SetSize ELSE 0]
  /\ spent = [requests |-> 0, ends |-> 0]
  /\ misses = account.fails
  /\ proven = IF account.on THEN {account.secret} ELSE {}
  /\ dead = {} /\ crossed = {}
  /\ uses = [of |-> [c \in Secrets \X TimeSteps |-> 0], all |-> 0]

Answer(w) ==
  \/ WrongPassword(w) \/ PasswordAlone(w) \/ PasswordSuffices(w) \/ ChangePassword(w)
  \/ WrongCode(w) \/ Setup(w) \/ Disable(w) \/ Refused(w)
  \/ \E s \in TimeSteps : RightCode(w, s) \/ Enable(w, s)
  \/ \E c \in Codes : RecoveryCode(w, c)

Next ==
  \/ \E w \in Workers, b \in Browsers, op \in Ops : Begin(w, b, op)
  \/ \E w \in Workers : Answer(w)
  \/ LockEnds
  \/ \E b \in Browsers : SessionEnds(b)

Spec == Init /\ [][Next]_vars

-----------------------------------------------------------------------------
(* Properties                                                              *)

(* A lock stands until its time is over (auth.py:327-341, 406-410): no     *)
(* sign-in that was under way when it came takes it back, because a column *)
(* that was empty and stays empty is not written.  The one exception is a  *)
(* sign-in that has read an earlier lock, over by then, and clears it.     *)
LockStands ==
  [][Locked(account) /\ ~Locked(account') =>
       \/ account'.lock = "over"
       \/ \E w \in Workers : req[w] # None /\ req'[w] = None /\ req[w].seen.lock = "over"]_vars

(* Requests that overlap lose counts to one another (security.py:91-100,   *)
(* the count is read and written back), but not many: with two of them at  *)
(* a time the account is locked after 1 + 2 + ... + MaxFailures attempts   *)
(* that failed, with one after MaxFailures.                                *)
LockedInTime ==
  /\ Cardinality(Workers) = 1 => misses < MaxFailures
  /\ Cardinality(Workers) = 2 => 2 * misses < MaxFailures * (MaxFailures + 1)

(* A factor that is switched on has a secret that a code was shown for     *)
(* ("stored, but not yet active", auth.py:973), as long as no request that  *)
(* switches it on overlaps with one that replaces or drops the secret.     *)
OnIsProven ==
  "enrolment" \notin crossed /\ account.on => account.secret \in proven

(* A recovery code that was used, or replaced by a new set, is in no list  *)
(* again (auth.py:430-435, one text column rewritten), as long as nothing  *)
(* that writes the list overlaps with a verification.                      *)
DeadCodesStayDead ==
  "recovery" \notin crossed => account.codes \intersect dead = {}

(* "Every TOTP code is valid only once" (auth.py:412) holds as far as the  *)
(* step of the last one goes: a code is accepted by those who overlap, and *)
(* once more after each code of another step.  two_factor_enable does not  *)
(* look at the last one (auth.py:1004), so this is about accounts whose    *)
(* factor is set up by one request at a time.                              *)
CodeUses ==
  "enrolment" \notin crossed =>
    \A c \in DOMAIN uses.of :
      uses.of[c] <= Cardinality(Workers) * (1 + uses.all - uses.of[c])
=============================================================================
