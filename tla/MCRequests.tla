------------------------------ MODULE MCRequests ------------------------------
(***************************************************************************)
(* Three small instances in one run: signing in to an account (SignIn),    *)
(* the settings of two tenants (Settings) and the calls of one client of   *)
(* Graph (GraphClient).  They share nothing but the workers; a behaviour   *)
(* is one of the first, the second or the third, and the other parts rest  *)
(* in a state they may start in.                                           *)
(***************************************************************************)
EXTENDS SignIn, TLC

CONSTANTS
  Parts, Tenants, Default, Good, Bad, Kept, Types, Along, MaxSettings, MaxFaults,
  People, PageSize, Foreign, Cleartext, MaxPages, MaxAttempts, Margin, Transit, Lifetimes, Waits,
  MaxTime, MaxCalls, MaxChanges

VARIABLES
  part,
  cfg, seeded, files, plan, up, people, lock, job, budget, silent, odd,
  now, configured, token, directory, call, calls, changes

T == INSTANCE Settings WITH Env <- [admin : BOOLEAN, cron : {Kept}], MaxRequests <- MaxSettings
G == INSTANCE GraphClient

ASSUME PartsAssumption == T!SettingsAssumption /\ G!GraphAssumption

\* An account without a second factor, and one that has it.
NoFactor ==
  [fails |-> 0, lock |-> "none", on |-> FALSE, secret |-> None, last |-> None, codes |-> {}]
WithFactor == [NoFactor EXCEPT !.on = TRUE, !.secret = 1, !.codes = 1..SetSize]
EitherAccount == {NoFactor, WithFactor}

AnyInit ==
  /\ part \in Parts
  /\ Init /\ T!Init /\ G!Init
  /\ part # "signin" => account = NoFactor
  /\ part # "graph" => configured

settings == <<cfg, seeded, files, plan, up, people, lock, job, budget, silent, odd>>
graph == <<now, configured, token, directory, call, calls, changes>>
SigningIn == part = "signin" /\ UNCHANGED <<part, settings, graph>>
Setting == part = "settings" /\ UNCHANGED <<part, vars, graph>>
Calling == part = "graph" /\ UNCHANGED <<part, vars, settings>>

AnyNext ==
  \/ \E w \in Workers, b \in Browsers, op \in Ops : SigningIn /\ Begin(w, b, op)
  \/ \E w \in Workers : SigningIn /\ WrongPassword(w)
  \/ \E w \in Workers : SigningIn /\ PasswordAlone(w)
  \/ \E w \in Workers : SigningIn /\ PasswordSuffices(w)
  \/ \E w \in Workers : SigningIn /\ ChangePassword(w)
  \/ \E w \in Workers : SigningIn /\ WrongCode(w)
  \/ \E w \in Workers : SigningIn /\ Setup(w)
  \/ \E w \in Workers : SigningIn /\ Disable(w)
  \/ \E w \in Workers : SigningIn /\ Refused(w)
  \/ \E w \in Workers, s \in TimeSteps : SigningIn /\ RightCode(w, s)
  \/ \E w \in Workers, s \in TimeSteps : SigningIn /\ Enable(w, s)
  \/ \E w \in Workers, c \in Codes : SigningIn /\ RecoveryCode(w, c)
  \/ SigningIn /\ LockEnds
  \/ \E b \in Browsers : SigningIn /\ SessionEnds(b)
  \/ \E w \in Workers : Setting /\ T!Request(w)
  \/ \E w \in Workers : Setting /\ T!Check(w)
  \/ \E w \in Workers : Setting /\ T!Save(w)
  \/ \E w \in Workers : Setting /\ T!Record(w)
  \/ \E w \in Workers : Setting /\ T!Commit(w)
  \/ \E w \in Workers : Setting /\ T!Read(w)
  \/ \E w \in Workers : Setting /\ T!Plan(w)
  \/ \E w \in Workers : Setting /\ T!File(w)
  \/ \E w \in Workers : Setting /\ T!Lock(w)
  \/ \E w \in Workers : Setting /\ T!Create(w)
  \/ \E w \in Workers : Setting /\ T!Dies(w)
  \/ Setting /\ T!Crash
  \/ \E env \in [admin : BOOLEAN, cron : {Kept}] : Setting /\ T!Boot(env)
  \/ \E op \in G!Ops : Calling /\ G!Start(op)
  \/ Calling /\ G!KeptToken
  \/ Calling /\ G!AskForToken
  \/ \E life \in Lifetimes : Calling /\ G!TokenGranted(life)
  \/ Calling /\ G!TokenDenied
  \/ \E link \in G!Links : Calling /\ G!Page(link)
  \/ Calling /\ G!Accepted
  \/ Calling /\ G!Refused
  \/ Calling /\ G!Throttled
  \/ Calling /\ G!Lost
  \/ Calling /\ G!TryAgain
  \/ Calling /\ G!Tick
  \/ \E p \in People : Calling /\ G!JoinOrLeave(p)

AnySpec == AnyInit /\ [][AnyNext]_<<part, vars, settings, graph>>

(* No action and no property tells these apart. *)
Swaps == UNION {Permutations(A) : A \in {Workers, Browsers, Types}}

(* Every part stays in its types (app_user, setting, GraphClient). *)
AllTyped == TypeOK /\ T!TypeOK /\ G!TypeOK

(* Settings: the rule on smtp_tls holds of what is saved (settings_service.py:115). *)
TlsRuleHolds == part = "settings" => T!TlsRuleHolds

(* Settings: the logo a tenant names is on the disk and no other (branding.py:256). *)
LogoIsThere == part = "settings" => T!LogoIsThere

(* Settings: the job runs at the default tenant's time (scheduler.py:58). *)
JobFollowsSchedule == part = "settings" => T!JobFollowsSchedule

(* Settings: no change without its entry, unless the request died (settings.py:121). *)
AuditedOrDied == part = "settings" => T!AuditedOrDied

(* Settings: the open setup makes one superadmin at the most (setup.py:147). *)
OneFounder == part = "settings" => T!OneFounder

(* GraphClient: who sees a token, and how long (client.py:180, 216). *)
TokenInGoodHands == part = "graph" => G!TokenInGoodHands

(* GraphClient: a list is whole, a mail was accepted (client.py:320, 434). *)
AnswersAreTrue == part = "graph" => G!AnswersAreTrue

(* Settings: what set_many has let in, the next start can live with (scheduler.py:37). *)
Restartable == part = "settings" => T!Restartable
=============================================================================
