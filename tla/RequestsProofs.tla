----------------------------- MODULE RequestsProofs -----------------------------
(***************************************************************************)
(* Proofs about the sum of SignIn, Settings and GraphClient in MCRequests: *)
(* every behaviour of the sum is one of each part, in which the others'    *)
(* steps stutter, so that what was proved of a part holds of the sum.      *)
(*                                                                         *)
(* The theorems about a part come in with an instance of the module they   *)
(* are in.  It has names of its own for the operators of that part, and    *)
(* the first lemmas say that they are the same ones.                       *)
(***************************************************************************)
EXTENDS MCRequests, SignInProofs

TP == INSTANCE SettingsProofs
        WITH Env <- [admin : BOOLEAN, cron : {Kept}], MaxRequests <- MaxSettings
GP == INSTANCE GraphClientProofs

-----------------------------------------------------------------------------
(* Settings                                                                *)

LEMMA SettingsConstants == TP!SettingsAssumption
BY PartsAssumption DEF T!SettingsAssumption, TP!SettingsAssumption, T!Crons, TP!Crons,
     T!Jobs, TP!Jobs, T!Ops, TP!Ops, T!Bodies, TP!Bodies, T!NoBody, TP!NoBody, T!Hosts, TP!Hosts,
     T!Ciphers, TP!Ciphers, T!Steps, TP!Steps, T!Aspects, TP!Aspects

LEMMA SettingsInit == ASSUME T!Init PROVE TP!Init
BY DEF T!Init, TP!Init

LEMMA SettingsRequest == ASSUME NEW w \in Workers, T!Request(w) PROVE TP!Next
<1>1. TP!Request(w)
  BY DEF T!Request, TP!Request, T!Begin, TP!Begin, T!Bodies, TP!Bodies, T!NoBody,
       TP!NoBody, T!Ops, TP!Ops, T!Hosts, TP!Hosts, T!Ciphers, TP!Ciphers,
       T!Crons, TP!Crons, T!Touched, TP!Touched, T!Busy, TP!Busy, T!If,
       TP!If, T!Mail, TP!Mail, T!Schedule, TP!Schedule, T!Branding,
       TP!Branding, T!Aspects, TP!Aspects, T!Count, TP!Count, T!Course,
       TP!Course, T!RecordThenSave, TP!RecordThenSave
<1> QED BY <1>1 DEF TP!Next

LEMMA SettingsStep ==
  ASSUME NEW w \in Workers,
         \/ T!Check(w) \/ T!Save(w) \/ T!Record(w) \/ T!Commit(w) \/ T!Read(w) \/ T!Plan(w)
         \/ T!File(w) \/ T!Lock(w) \/ T!Create(w) \/ T!Dies(w)
  PROVE  TP!Next
<1>1. T!Check(w) => TP!Check(w)
  BY DEF T!At, TP!At, T!Goes, TP!Goes, T!Ends, TP!Ends, T!Free, TP!Free, T!Check,
       TP!Check, T!Allowed, TP!Allowed, T!Merge, TP!Merge, T!Refused,
       TP!Refused
<1>2. T!Save(w) => TP!Save(w)
  BY DEF T!At, TP!At, T!Goes, TP!Goes, T!Ends, TP!Ends, T!Free, TP!Free, T!Save,
       TP!Save, T!Saved, TP!Saved, T!Merge, TP!Merge, T!ByHand, TP!ByHand,
       T!If, TP!If, T!Branding, TP!Branding, T!Committed, TP!Committed
<1>3. T!Record(w) => TP!Record(w)
  BY DEF T!At, TP!At, T!Goes, TP!Goes, T!Ends, TP!Ends, T!Free, TP!Free, T!Record,
       TP!Record
<1>4. T!Commit(w) => TP!Commit(w)
  BY DEF T!At, TP!At, T!Goes, TP!Goes, T!Ends, TP!Ends, T!Free, TP!Free, T!Commit,
       TP!Commit, T!Committed, TP!Committed
<1>5. T!Read(w) => TP!Read(w)
  BY DEF T!At, TP!At, T!Goes, TP!Goes, T!Ends, TP!Ends, T!Free, TP!Free, T!Read,
       TP!Read, T!DrivenBy, TP!DrivenBy
<1>6. T!Plan(w) => TP!Plan(w)
  BY DEF T!At, TP!At, T!Goes, TP!Goes, T!Ends, TP!Ends, T!Free, TP!Free, T!Plan,
       TP!Plan
<1>7. T!File(w) => TP!File(w)
  BY DEF T!At, TP!At, T!Goes, TP!Goes, T!Ends, TP!Ends, T!Free, TP!Free, T!File,
       TP!File, T!Directory, TP!Directory
<1>8. T!Lock(w) => TP!Lock(w)
  BY DEF T!At, TP!At, T!Goes, TP!Goes, T!Ends, TP!Ends, T!Free, TP!Free, T!Lock,
       TP!Lock, T!Takes, TP!Takes, T!Count, TP!Count
<1>9. T!Create(w) => TP!Create(w)
  BY DEF T!At, TP!At, T!Goes, TP!Goes, T!Ends, TP!Ends, T!Free, TP!Free, T!Create,
       TP!Create
<1>10. T!Dies(w) => TP!Dies(w)
  BY DEF T!At, TP!At, T!Goes, TP!Goes, T!Ends, TP!Ends, T!Free, TP!Free, T!Dies,
       TP!Dies, T!BrokenOff, TP!BrokenOff, T!Fault, TP!Fault, T!HalfDone, TP!HalfDone, T!Touched,
       TP!Touched, T!If, TP!If, T!Mail, TP!Mail, T!Schedule, TP!Schedule,
       T!Branding, TP!Branding
<1>11. TP!Step(w)
  BY <1>1, <1>2, <1>3, <1>4, <1>5, <1>6, <1>7, <1>8, <1>9, <1>10 DEF TP!Step
<1> QED BY <1>11 DEF TP!Next

LEMMA SettingsCrash == ASSUME T!Crash PROVE TP!Next
<1>1. TP!Crash
  BY DEF T!Crash, TP!Crash, T!BrokenOff, TP!BrokenOff, T!At, TP!At, T!Fault, TP!Fault, T!HalfDone, TP!HalfDone, T!Busy,
       TP!Busy, T!Touched, TP!Touched, T!If, TP!If, T!Mail, TP!Mail,
       T!Schedule, TP!Schedule, T!Branding, TP!Branding
<1> QED BY <1>1 DEF TP!Next

LEMMA SettingsBoot ==
  ASSUME NEW env \in [admin : BOOLEAN, cron : {Kept}], T!Boot(env)
  PROVE  TP!Next
<1>1. TP!Boot(env)
  BY DEF T!Boot, TP!Boot, T!Count, TP!Count
<1> QED BY <1>1 DEF TP!Next

-----------------------------------------------------------------------------
(* GraphClient                                                             *)

LEMMA GraphConstants == GP!GraphAssumption
BY PartsAssumption DEF G!GraphAssumption, GP!GraphAssumption, G!Calls, GP!Calls, G!Ops, GP!Ops, G!Paged, GP!Paged, G!Streamed,
       GP!Streamed, G!Collected, GP!Collected, G!Links, GP!Links, G!Pages,
       GP!Pages, G!Elsewhere, GP!Elsewhere, G!IsFiniteSet, GP!IsFiniteSet

LEMMA GraphInit == ASSUME G!Init PROVE GP!Init
BY DEF G!Init, GP!Init

LEMMA GraphStart == ASSUME NEW op \in G!Ops, G!Start(op) PROVE GP!Next
<1>1. GP!Start(op) /\ op \in GP!Ops
  BY DEF G!Start, GP!Start, G!At, GP!At, G!Ops, GP!Ops, G!Paged, GP!Paged,
       G!Streamed, GP!Streamed, G!Collected, GP!Collected
<1> QED BY <1>1 DEF GP!Next

LEMMA GraphPage == ASSUME NEW link \in G!Links, G!Page(link) PROVE GP!Next
<1>1. link \in GP!Links
  BY DEF G!Links, GP!Links, G!Pages, GP!Pages, G!Elsewhere, GP!Elsewhere
<1>2. link \in GP!NamedNext(call.link)
  BY DEF G!NamedNext, GP!NamedNext, G!Listed, GP!Listed, G!Elsewhere, GP!Elsewhere,
       G!Cardinality, GP!Cardinality, G!Page
<1>3. G!Listed(call.link) = GP!Listed(call.link) /\ (G!Trusted(link) <=> GP!Trusted(link))
  BY DEF G!Listed, GP!Listed, G!Trusted, GP!Trusted, G!Elsewhere, GP!Elsewhere,
       G!Cardinality, GP!Cardinality
<1>4. \A c, answer : G!Ended(c, answer) = GP!Ended(c, answer)
  BY DEF G!Ended, GP!Ended, G!Collected, GP!Collected
<1>5. G!Turned(link) = GP!Turned(link)
  BY <1>3, <1>4 DEF G!Turned, GP!Turned
<1>6. GP!Page(link)
  BY <1>2, <1>5 DEF G!Page, GP!Page, G!At, GP!At, G!Paged, GP!Paged, G!Streamed, GP!Streamed,
       G!Collected, GP!Collected
<1> QED BY <1>1, <1>6 DEF GP!Next

LEMMA GraphStep ==
  ASSUME \/ G!KeptToken \/ G!AskForToken \/ G!TokenDenied
         \/ \E life \in Lifetimes : G!TokenGranted(life)
         \/ G!Accepted \/ G!Refused \/ G!Throttled \/ G!Lost \/ G!TryAgain \/ G!Tick
         \/ \E p \in People : G!JoinOrLeave(p)
  PROVE  GP!Next
<1>1. G!KeptToken => GP!KeptToken
  BY DEF G!KeptToken, GP!KeptToken, G!At, GP!At, G!Fresh, GP!Fresh, G!Sent,
       GP!Sent, G!Says, GP!Says, G!Ended, GP!Ended, G!Collected,
       GP!Collected
<1>2. G!AskForToken => GP!AskForToken
  BY DEF G!AskForToken, GP!AskForToken, G!At, GP!At, G!Fresh, GP!Fresh, G!Says,
       GP!Says, G!Raised, GP!Raised, G!Ended, GP!Ended, G!Collected,
       GP!Collected
<1>3. G!TokenDenied => GP!TokenDenied
  BY DEF G!TokenDenied, GP!TokenDenied, G!At, GP!At, G!Says, GP!Says, G!Raised,
       GP!Raised, G!Ended, GP!Ended, G!Collected, GP!Collected
<1>4. G!Accepted => GP!Accepted
  BY DEF G!Accepted, GP!Accepted, G!At, GP!At, G!Says, GP!Says, G!Ended, GP!Ended,
       G!Collected, GP!Collected
<1>5. G!Refused => GP!Refused
  BY DEF G!Refused, GP!Refused, G!At, GP!At, G!Paged, GP!Paged, G!Streamed,
       GP!Streamed, G!Says, GP!Says, G!Raised, GP!Raised, G!Ended,
       GP!Ended, G!Collected, GP!Collected
<1>6. G!Throttled => GP!Throttled
  BY DEF G!Throttled, GP!Throttled, G!At, GP!At, G!Says, GP!Says, G!Ended,
       GP!Ended, G!Collected, GP!Collected
<1>7. G!Lost => GP!Lost
  BY DEF G!Lost, GP!Lost, G!At, GP!At, G!Says, GP!Says, G!Ended, GP!Ended,
       G!Collected, GP!Collected
<1>8. G!TryAgain => GP!TryAgain
  BY DEF G!TryAgain, GP!TryAgain, G!At, GP!At, G!Says, GP!Says, G!Ended, GP!Ended,
       G!Collected, GP!Collected
<1>9. G!Tick => GP!Tick
  BY DEF G!Tick, GP!Tick, G!At, GP!At
<1>10. \A life : G!TokenGranted(life) => GP!TokenGranted(life)
  BY DEF G!TokenGranted, GP!TokenGranted, G!At, GP!At, G!Sent, GP!Sent, G!Says,
       GP!Says, G!Ended, GP!Ended, G!Collected, GP!Collected
<1>11. \A p : G!JoinOrLeave(p) => GP!JoinOrLeave(p)
  BY DEF G!JoinOrLeave, GP!JoinOrLeave, G!At, GP!At, G!Paged, GP!Paged, G!Streamed,
       GP!Streamed, G!Collected, GP!Collected
<1> QED BY <1>1, <1>2, <1>3, <1>4, <1>5, <1>6, <1>7, <1>8, <1>9, <1>10, <1>11 DEF GP!Next

-----------------------------------------------------------------------------
(* The sum                                                                 *)

LEMMA SumInit == AnyInit => Init /\ TP!Init /\ GP!Init
BY SettingsInit, GraphInit DEF AnyInit

LEMMA SumNext ==
  ASSUME [AnyNext]_<<part, vars, settings, graph>>
  PROVE  [Next]_vars /\ [TP!Next]_settings /\ [GP!Next]_graph
<1>1. CASE UNCHANGED <<part, vars, settings, graph>>
  BY <1>1
<1>2. CASE SigningIn /\ Next
  BY <1>2 DEF SigningIn
<1>3. CASE Setting /\ TP!Next
  BY <1>3 DEF Setting
<1>4. CASE Calling /\ GP!Next
  BY <1>4 DEF Calling
<1>5. \/ SigningIn /\ Next
      \/ Setting /\ TP!Next
      \/ Calling /\ GP!Next
      \/ UNCHANGED <<part, vars, settings, graph>>
  BY SettingsRequest, SettingsStep, SettingsCrash, SettingsBoot,
     GraphStart, GraphPage, GraphStep DEF AnyNext, Next, Answer
<1> QED BY <1>1, <1>2, <1>3, <1>4, <1>5

(* Each part goes through a behaviour of its own.                          *)
LEMMA SumOfParts == AnySpec => Spec /\ TP!Spec /\ GP!Spec
<1>1. AnyInit => Init /\ TP!Init /\ GP!Init
  BY SumInit
<1>2. [AnyNext]_<<part, vars, settings, graph>> =>
        [Next]_vars /\ [TP!Next]_(TP!vars) /\ [GP!Next]_(GP!vars)
  BY SumNext DEF settings, graph, TP!vars, GP!vars
<1> QED BY <1>1, <1>2, PTL DEF AnySpec, Spec, TP!Spec, GP!Spec

(* MCRequests: whatever part a behaviour is about, all three stay typed.   *)
THEOREM PartsTyped == AnySpec => []AllTyped
<1>1. TP!Spec => []TP!TypeOK
  BY SettingsConstants, TP!SettingsTyped
<1>2. GP!Spec => []GP!TypeOK
  BY GraphConstants, GP!GraphTyped
<1>3. TypeOK /\ TP!TypeOK /\ GP!TypeOK => AllTyped
  BY DEF AllTyped, T!TypeOK, TP!TypeOK, T!Values, TP!Values, T!Crons, TP!Crons, T!Hosts,
       TP!Hosts, T!Ciphers, TP!Ciphers, T!Jobs, TP!Jobs, T!Ops, TP!Ops,
       T!Bodies, TP!Bodies, T!NoBody, TP!NoBody, T!Steps, TP!Steps,
       T!Aspects, TP!Aspects,
         G!TypeOK, GP!TypeOK, G!Calls, GP!Calls, G!Ops, GP!Ops, G!Paged, GP!Paged,
       G!Streamed, GP!Streamed, G!Collected, GP!Collected, G!Links,
       GP!Links, G!Pages, GP!Pages, G!Elsewhere, GP!Elsewhere
<1> QED BY <1>1, <1>2, <1>3, SumOfParts, SignInTyped, PTL

(* One founder at the most, however many call the open setup at once       *)
(* (setup.py:82, 147) and whatever dies on the way.                        *)
THEOREM PartsOneFounder == AnySpec => []OneFounder
<1>1. TP!Spec => []TP!OneFounder
  BY SettingsConstants, TP!OneFounderOnly
<1>2. TP!OneFounder => OneFounder
  BY DEF OneFounder, T!OneFounder, TP!OneFounder, T!Count, TP!Count
<1> QED BY <1>1, <1>2, SumOfParts, PTL

(* smtp_tls = "none" goes with an internal host only                       *)
(* (settings_validators.check_smtp_tls_allowed), although host and cipher  *)
(* are changed apart and the check and the write are two statements, until *)
(* two changes of one tenant overlap.  Other values pass the rule, and so  *)
(* the theorem says nothing of what they mean to the sender.               *)
THEOREM PartsTlsRule == AnySpec => []TlsRuleHolds
<1>1. TP!Spec => []TP!TlsRuleHolds
  BY SettingsConstants, TP!TlsRuleKept
<1>2. TP!TlsRuleHolds => TlsRuleHolds
  BY DEF TlsRuleHolds, T!TlsRuleHolds, TP!TlsRuleHolds
<1> QED BY <1>1, <1>2, SumOfParts, PTL

(* A tenant's logo is on the disk and no other file is                     *)
(* (branding._save_upload, _clear_upload), unless requests of the tenant   *)
(* overlapped or one failed between unlink, write and row; and one file at *)
(* the most is there, whatever failed or overlapped.                       *)
THEOREM PartsLogosAreThere == AnySpec => []LogoIsThere
<1>1. TP!Spec => []TP!LogoIsThere
  BY SettingsConstants, TP!LogosAreThere
<1>2. TP!LogoIsThere => LogoIsThere
  BY DEF LogoIsThere, T!LogoIsThere, TP!LogoIsThere, T!InOrder, TP!InOrder, T!UnderWay,
         TP!UnderWay, T!Busy, TP!Busy, T!Touched, TP!Touched, T!If, TP!If, T!Mail, TP!Mail,
         T!Schedule, TP!Schedule, T!Branding, TP!Branding
<1> QED BY <1>1, <1>2, SumOfParts, PTL

(* The one job runs at the default tenant's time                           *)
(* (scheduler._read_default_schedule), whichever tenant has changed a      *)
(* schedule last, unless reschedules overlapped or broke off.              *)
THEOREM PartsJobsFollowSchedule == AnySpec => []JobFollowsSchedule
<1>1. TP!Spec => []TP!JobFollowsSchedule
  BY SettingsConstants, TP!JobsFollowSchedule
<1>2. TP!JobFollowsSchedule => JobFollowsSchedule
  BY DEF JobFollowsSchedule, T!JobFollowsSchedule, TP!JobFollowsSchedule, T!InOrder, TP!InOrder,
         T!UnderWay, TP!UnderWay, T!Busy, TP!Busy, T!Touched, TP!Touched, T!If, TP!If, T!Mail,
         TP!Mail, T!Schedule, TP!Schedule, T!Branding, TP!Branding
<1> QED BY <1>1, <1>2, SumOfParts, PTL

(* A change has its audit entry unless its request died between the two    *)
(* commits (settings.py:121-148); where one commit takes both              *)
(* (settings.py:229-238, 263-271), nothing separates them.                 *)
THEOREM PartsChangesAreAudited == AnySpec => []AuditedOrDied
<1>1. TP!Spec => []TP!AuditedOrDied
  BY SettingsConstants, TP!ChangesAreAudited
<1>2. TP!AuditedOrDied => AuditedOrDied
  BY DEF AuditedOrDied, T!AuditedOrDied, TP!AuditedOrDied
<1> QED BY <1>1, <1>2, SumOfParts, PTL

(* A token is shown to Graph alone and only while it is good (client.py:180, *)
(* 216), whatever answers name and however long the client sleeps.           *)
THEOREM PartsTokensSafe == AnySpec => []TokenInGoodHands
<1>1. GP!Spec => []GP!TokenInGoodHands
  BY GraphConstants, GP!TokensStaySafe
<1>2. GP!TokenInGoodHands => TokenInGoodHands
  BY DEF TokenInGoodHands, G!TokenInGoodHands, GP!TokenInGoodHands, G!At, GP!At, G!Elsewhere, GP!Elsewhere
<1> QED BY <1>1, <1>2, SumOfParts, PTL

(* A list that ends well is whole, and a mail said to be sent was accepted *)
(* (client.py:320, 434), whatever was lost, repeated or changed meanwhile. *)
THEOREM PartsAnswersTrue == AnySpec => []AnswersAreTrue
<1>1. GP!Spec => []GP!AnswersAreTrue
  BY GraphConstants, GP!WhatIsSaidIsTrue
<1>2. GP!AnswersAreTrue => AnswersAreTrue
  BY DEF AnswersAreTrue, G!AnswersAreTrue, GP!AnswersAreTrue, G!At, GP!At,
         G!Paged, GP!Paged, G!Streamed, GP!Streamed, G!Collected, GP!Collected
<1> QED BY <1>1, <1>2, SumOfParts, PTL
=============================================================================
