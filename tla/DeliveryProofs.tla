---------------------------- MODULE DeliveryProofs ----------------------------
(***************************************************************************)
(* Proofs about Delivery, for every set of users, addresses and requests,  *)
(* every configuration and any number of faults.                           *)
(***************************************************************************)
EXTENDS Delivery, FiniteSetTheorems, WellFoundedInduction, TLAPS

-----------------------------------------------------------------------------
(* The arithmetic of ReminderStage, for every list of stages and every     *)
(* number of remaining days.                                               *)

(* A non-empty set of integers bounded from below has a least element: the *)
(* natural numbers are well-founded, and so is their translation by lo.    *)
LEMMA LeastExists ==
  ASSUME NEW S \in SUBSET Int, S # {}, NEW lo \in Int, \A s \in S : lo <= s
  PROVE  /\ Min(S) \in S
         /\ \A s \in S : Min(S) <= s
<1> DEFINE T == {s - lo : s \in S}
<1>1. T \subseteq Nat /\ T # {}
  <2>1. \A s \in S : s - lo \in Nat
    BY SMT
  <2>2. PICK s \in S : TRUE
    OBVIOUS
  <2>3. s - lo \in T
    OBVIOUS
  <2> QED BY <2>1, <2>3
<1>2. PICK t \in T : \A u \in T : ~(<<u, t>> \in OpToRel(<, Nat))
  BY <1>1, NatLessThanWellFounded, WFMin
<1>3. PICK m \in S : t = m - lo
  OBVIOUS
<1>4. \A s \in S : m <= s
  <2> SUFFICES ASSUME NEW s \in S PROVE m <= s
    OBVIOUS
  <2>1. s - lo \in T
    OBVIOUS
  <2>2. ~(s - lo < t)
    BY <1>1, <1>2, <2>1 DEF OpToRel
  <2> QED BY <1>3, <2>2
<1> HIDE DEF T
<1>5. \E x \in S : \A y \in S : x =< y
  BY <1>4
<1> QED BY <1>5 DEF Min

(* The due stage is a stage of the list that is reached and not sent, and   *)
(* no more urgent stage is reached: the most urgent one or nothing.        *)
(* (services/expiry.py due_reminder_stage)                                 *)
THEOREM DueStageIsMostUrgent ==
  ASSUME NEW daysLeft \in Int \union {None}, NEW days \in SUBSET Int, NEW sent,
         DueStage(daysLeft, days, sent) # None
  PROVE  LET s == DueStage(daysLeft, days, sent)
         IN  /\ daysLeft \in Int
             /\ s \in days \ sent
             /\ daysLeft <= s
             /\ \A d \in days : daysLeft <= d => s <= d
<1>1. daysLeft \in Int /\ Reached(daysLeft, days) # {}
  BY DEF DueStage
<1>2. DueStage(daysLeft, days, sent) = TargetStage(daysLeft, days)
  BY DEF DueStage
<1>3. TargetStage(daysLeft, days) \notin sent
  BY DEF DueStage
<1>4. /\ TargetStage(daysLeft, days) \in Reached(daysLeft, days)
      /\ \A d \in Reached(daysLeft, days) : TargetStage(daysLeft, days) <= d
  <2>1. Reached(daysLeft, days) \in SUBSET Int
    BY DEF Reached
  <2>2. \A d \in Reached(daysLeft, days) : daysLeft <= d
    BY DEF Reached
  <2> QED BY <1>1, <2>1, <2>2, LeastExists DEF TargetStage
<1> QED BY <1>1, <1>2, <1>3, <1>4 DEF Reached

(* As a deadline draws near the due stage only becomes more urgent, whatever *)
(* has been sent in between: catching up after a pause goes straight to the  *)
(* stage that fits, and never back.  (due_reminder_stage)                    *)
THEOREM StagesGetMoreUrgent ==
  ASSUME NEW earlier \in Int, NEW later \in Int, later <= earlier,
         NEW days \in SUBSET Int, NEW sent, NEW sentLater,
         DueStage(earlier, days, sent) # None,
         DueStage(later, days, sentLater) # None
  PROVE  DueStage(later, days, sentLater) <= DueStage(earlier, days, sent)
<1> DEFINE before == DueStage(earlier, days, sent)
           after  == DueStage(later, days, sentLater)
<1>1. before \in days /\ before \in Int /\ earlier <= before
  BY DueStageIsMostUrgent
<1>2. \A d \in days : later <= d => after <= d
  BY DueStageIsMostUrgent
<1> HIDE DEF before, after
<1>3. later <= before
  BY <1>1
<1> QED BY <1>1, <1>2, <1>3 DEF before, after

(* A forced send always finds a stage, and one of the list.                *)
LEMMA ForcedStageInList ==
  ASSUME NEW daysLeft \in Int, NEW days \in SUBSET Int,
         NEW last \in days, \A d \in days : d <= last
  PROVE  ForcedStage(daysLeft, days) \in days
<1>1. CASE Reached(daysLeft, days) # {}
  <2>1. Reached(daysLeft, days) \in SUBSET Int
    BY DEF Reached
  <2>2. \A d \in Reached(daysLeft, days) : daysLeft <= d
    BY DEF Reached
  <2>3. Min(Reached(daysLeft, days)) \in Reached(daysLeft, days)
    BY <1>1, <2>1, <2>2, LeastExists
  <2> QED BY <1>1, <2>3 DEF ForcedStage, TargetStage, Reached
<1>2. CASE Reached(daysLeft, days) = {}
  <2>1. \E x \in days : \A y \in days : x >= y
    OBVIOUS
  <2>2. Max(days) \in days
    BY <2>1 DEF Max
  <2> QED BY <1>2, <2>2 DEF ForcedStage
<1> QED BY <1>1, <1>2

-----------------------------------------------------------------------------
(* Types.                                                                  *)

LEMMA Days ==
  /\ None \notin Int
  /\ Validity \in Int
  /\ ChangeDay \subseteq Int /\ Cycle \subseteq Int
  /\ ReminderDays \subseteq Int
  /\ MaxDay \in Nat /\ MaxFaults \in Nat
<1>1. None \notin Int /\ Validity \in Int /\ ReminderDays \subseteq Int
  BY NoneAssumption, SettingsAssumption
<1>2. ChangeDay \subseteq Int
  <2>1. FirstChange \ {None} \subseteq Int
    BY BoundAssumption
  <2>2. ChangeDays \subseteq Int
    BY BoundAssumption
  <2> QED BY <2>1, <2>2 DEF ChangeDay
<1>3. Cycle \subseteq Int
  BY <1>1, <1>2 DEF Cycle
<1> QED BY <1>1, <1>2, <1>3, BoundAssumption

LEMMA Senders == Runner \in Sender /\ Request \subseteq Sender /\ Runner \notin Request
  BY UserAssumption DEF Sender

(* What the sync stores is well-formed.                                    *)
MirrorRow == [never : BOOLEAN, expiry : Cycle \union {None}, daysLeft : Int \union {None}]

LEMMA ExpiryType ==
  ASSUME TypeOK, NEW u \in User, NEW e,
         e = ComputeExpiry(directory[u], Validity, u \in NeverExpires, today)
  PROVE  e \in MirrorRow /\ (e.expiry = None <=> e.daysLeft = None)
<1> DEFINE changed == directory[u]
<1>1. today \in Int /\ changed \in ChangeDay \union {None}
  BY DEF TypeOK
<1>2. CASE u \in NeverExpires \/ Validity = None \/ Validity <= 0
  BY <1>2 DEF ComputeExpiry, MirrorRow
<1>3. CASE ~(u \in NeverExpires \/ Validity = None \/ Validity <= 0) /\ changed = None
  BY <1>3 DEF ComputeExpiry, MirrorRow
<1>4. CASE ~(u \in NeverExpires \/ Validity = None \/ Validity <= 0) /\ changed # None
  <2>1. changed \in ChangeDay /\ changed + Validity \in Cycle
    BY <1>1, <1>4 DEF Cycle
  <2> HIDE DEF changed
  <2>2. changed + Validity \in Int /\ (changed + Validity) - today \in Int
    <3>1. changed \in Int /\ Validity \in Int
      BY <2>1, Days
    <3> QED BY <1>1, <3>1
  <2>3. e = [never |-> FALSE, expiry |-> changed + Validity,
             daysLeft |-> (changed + Validity) - today]
    BY <1>4 DEF ComputeExpiry, changed
  <2>4. changed + Validity # None /\ (changed + Validity) - today # None
    BY <2>2, Days
  <2>5. e \in MirrorRow
    <3>1. ASSUME NEW x \in Cycle, NEW d \in Int
          PROVE  [never |-> FALSE, expiry |-> x, daysLeft |-> d] \in MirrorRow
      BY DEF MirrorRow
    <3> QED BY <2>1, <2>2, <2>3, <3>1
  <2> QED BY <2>3, <2>4, <2>5
<1> QED BY <1>2, <1>3, <1>4

(* The stage a run or a forced send takes is one of the list.              *)
LEMMA StageType ==
  ASSUME TypeOK, NEW u \in User, mirror[u].expiry # None
  PROVE  /\ mirror[u].expiry \in Cycle /\ mirror[u].daysLeft \in Int
         /\ StageFor(u) # None => StageFor(u) \in ReminderDays
         /\ ForcedStage(mirror[u].daysLeft, ReminderDays) \in ReminderDays
<1>1. mirror[u].expiry \in Cycle /\ mirror[u].daysLeft \in Int
  BY DEF TypeOK
<1>2. StageFor(u) # None => StageFor(u) \in ReminderDays
  BY <1>1, Days, DueStageIsMostUrgent DEF StageFor
<1>3. ForcedStage(mirror[u].daysLeft, ReminderDays) \in ReminderDays
  <2>1. PICK last \in ReminderDays : \A d \in ReminderDays : d <= last
    BY SettingsAssumption
  <2> QED BY <1>1, <2>1, Days, ForcedStageInList
<1> QED BY <1>1, <1>2, <1>3

LEMMA AttemptType ==
  ASSUME NEW u \in User, NEW c \in Cycle, NEW s \in ReminderDays
  PROVE  Attempt(u, c, s) \in Attempting
BY UserAssumption DEF Attempt, Attempting, Key

-----------------------------------------------------------------------------
LEMMA TypeInit == Init => TypeOK
<1> SUFFICES ASSUME Init PROVE TypeOK
  OBVIOUS
<1>1. 0 \in 0..MaxDay /\ 0 \in 0..MaxFaults
  BY Days
<1>2. directory \in [User -> ChangeDay \union {None}]
  BY DEF Init, ChangeDay
<1>3. run \in [pc : {"idle", "synced", "trimmed", "loop"}, dry : BOOLEAN,
               excluded : SUBSET User, left : SUBSET User,
               chosen : SUBSET User, told : SUBSET User]
  BY DEF Init, NoRun
<1>4. log \in [Key -> [status : {"none", "sent", "failed"}, day : 0..MaxDay]]
  BY <1>1 DEF Init, NoRow
<1> QED BY <1>1, <1>2, <1>3, <1>4 DEF Init, TypeOK, NotSynced

(* One address of an attempt, in types and in full.                        *)
LEMMA SendEffect ==
  ASSUME TypeOK, NEW p \in Sender, NEW a \in Addr, NEW n \in 0..Attempts,
         NEW ok \in BOOLEAN, Send(p, a, n, ok)
  PROVE  /\ att[p] \in Attempting /\ att[p].key \in Key
         /\ att' = [att EXCEPT ![p] =
              [key  |-> att[p].key,
               left |-> att[p].left \ {a},
               out  |-> IF n > 0 THEN att[p].out \union {a} ELSE att[p].out,
               ok   |-> att[p].ok \/ ok]]
         /\ att' = [att EXCEPT ![p] = att'[p]]
         /\ att'[p] \in Attempting
<1>1. att \in [Sender -> Attempting \union {None}]
  BY DEF TypeOK
<1>2. att[p] # None
  BY DEF Send
<1>3. att[p] \in Attempting /\ att[p].key \in Key
  BY <1>1, <1>2 DEF Attempting
<1> DEFINE B == [key  |-> att[p].key,
               left |-> att[p].left \ {a},
               out  |-> IF n > 0 THEN att[p].out \union {a} ELSE att[p].out,
               ok   |-> att[p].ok \/ ok]
<1>4. att' = [att EXCEPT ![p] = B]
  BY Zenon DEF Send
<1>5. B \in Attempting
  BY <1>3 DEF Attempting
<1> HIDE DEF B
<1>6. att'[p] \in Attempting
  BY <1>1, <1>4, <1>5
<1>7. att' = [att EXCEPT ![p] = att'[p]]
  BY <1>1, <1>4
<1> QED BY <1>3, <1>4, <1>6, <1>7 DEF B

LEMMA ForgetType ==
  ASSUME TypeOK, NEW p \in Sender, Forget(p)
  PROVE  waived' \in [Key -> Nat]
<1>1. CASE p = Runner /\ att[p] # None /\ att[p].out # {}
  <2>1. waived' = [waived EXCEPT ![att[p].key] = @ + 1]
    BY <1>1 DEF Forget
  <2>2. att[p].key \in Key
    BY <1>1 DEF TypeOK, Attempting
  <2> QED BY <2>1, <2>2 DEF TypeOK
<1>2. CASE ~(p = Runner /\ att[p] # None /\ att[p].out # {})
  BY <1>2 DEF Forget, TypeOK
<1> QED BY <1>1, <1>2

LEMMA TypeStep == TypeOK /\ [Next]_vars => TypeOK'
<1> SUFFICES ASSUME TypeOK, [Next]_vars PROVE TypeOK'
  OBVIOUS
<1> USE Days
<1>1. CASE Tick
  BY <1>1 DEF Tick, TypeOK
<1>2. ASSUME NEW u \in User, ChangePassword(u) PROVE TypeOK'
  <2>1. today \in ChangeDay
    BY <1>2 DEF ChangePassword, ChangeDay, TypeOK
  <2> QED BY <1>2, <2>1 DEF ChangePassword, TypeOK
<1>3. ASSUME NEW u \in Toggled, SetExcluded(u) PROVE TypeOK'
  BY <1>3, BoundAssumption DEF SetExcluded, TypeOK
<1>4. ASSUME NEW dry \in DryRun, NEW reached \in SUBSET User, RunStart(dry, reached)
      PROVE TypeOK'
  <2>1. \A u \in User : mirror'[u] \in [never : BOOLEAN, expiry : Cycle \union {None},
                                         daysLeft : Int \union {None}]
                        /\ (mirror'[u].expiry = None <=> mirror'[u].daysLeft = None)
    <3> SUFFICES ASSUME NEW u \in User
                 PROVE  /\ mirror'[u] \in [never : BOOLEAN, expiry : Cycle \union {None},
                                             daysLeft : Int \union {None}]
                        /\ (mirror'[u].expiry = None <=> mirror'[u].daysLeft = None)
      OBVIOUS
    <3>1. directory[u] \in ChangeDay \union {None} /\ today \in Int
      BY DEF TypeOK
    <3>2. CASE u \in reached
      <4>1. mirror'[u] = ComputeExpiry(directory[u], Validity, u \in NeverExpires, today)
        BY <1>4, <3>2 DEF RunStart
      <4> QED BY <4>1, ExpiryType DEF MirrorRow
    <3>3. CASE u \notin reached
      BY <1>4, <3>3 DEF RunStart, TypeOK
    <3> QED BY <3>2, <3>3
  <2>2. mirror' \in [User -> [never : BOOLEAN, expiry : Cycle \union {None},
                              daysLeft : Int \union {None}]]
    BY <1>4, <2>1 DEF RunStart
  <2>3. run' \in [pc : {"idle", "synced", "trimmed", "loop"}, dry : BOOLEAN,
                  excluded : SUBSET User, left : SUBSET User,
                  chosen : SUBSET User, told : SUBSET User]
    BY <1>4, BoundAssumption DEF RunStart, NoRun
  <2> QED BY <1>4, <2>1, <2>2, <2>3 DEF RunStart, TypeOK, world
<1>5. CASE RunTrim
  <2>1. log' \in [Key -> [status : {"none", "sent", "failed"}, day : 0..MaxDay]]
    BY <1>5 DEF RunTrim, TypeOK, NoRow
  <2>2. waived' \in [Key -> Nat]
    BY <1>5 DEF RunTrim, TypeOK
  <2>3. run' \in [pc : {"idle", "synced", "trimmed", "loop"}, dry : BOOLEAN,
                  excluded : SUBSET User, left : SUBSET User,
                  chosen : SUBSET User, told : SUBSET User]
    BY <1>5 DEF RunTrim, TypeOK
  <2> QED BY <1>5, <2>1, <2>2, <2>3 DEF RunTrim, TypeOK, world
<1>6. ASSUME NEW resolved \in SUBSET GroupRules, RunSelect(resolved) PROVE TypeOK'
  <2>1. Candidates \subseteq User /\ UserRules \union resolved \subseteq User
    BY UserAssumption DEF Candidates
  <2>2. run' \in [pc : {"idle", "synced", "trimmed", "loop"}, dry : BOOLEAN,
                  excluded : SUBSET User, left : SUBSET User,
                  chosen : SUBSET User, told : SUBSET User]
    BY <1>6, <2>1 DEF RunSelect, TypeOK
  <2> QED BY <1>6, <2>2 DEF RunSelect, TypeOK, world
<1>7. ASSUME NEW u \in User, RunSkip(u) PROVE TypeOK'
  BY <1>7 DEF RunSkip, TypeOK, world
<1>8. ASSUME NEW u \in User, RunTake(u) PROVE TypeOK'
  <2>1. Attempt(u, mirror[u].expiry, StageFor(u)) \in Attempting
    <3>1. mirror[u].expiry # None
      BY <1>8 DEF RunTake, StageFor, DueStage, TypeOK
    <3> QED BY <1>8, <3>1, StageType, AttemptType DEF RunTake
  <2> QED BY <1>8, <2>1 DEF RunTake, TypeOK, world
<1>9. CASE RunEnd
  BY <1>9 DEF RunEnd, TypeOK, world, NoRun
<1>10. ASSUME NEW r \in Request, NEW users \in SUBSET User, RequestForce(r, users)
       PROVE TypeOK'
  BY <1>10 DEF RequestForce, TypeOK, world
<1>11. ASSUME NEW r \in Request, NEW u \in User, ForceSkip(r, u) PROVE TypeOK'
  BY <1>11 DEF ForceSkip, TypeOK, world
<1>12. ASSUME NEW r \in Request, NEW u \in User, ForceTake(r, u) PROVE TypeOK'
  <2>1. Attempt(u, mirror[u].expiry, ForcedStage(mirror[u].daysLeft, ReminderDays))
          \in Attempting
    BY <1>12, StageType, AttemptType DEF ForceTake
  <2> QED BY <1>12, <2>1 DEF ForceTake, TypeOK, world
<1>13. ASSUME NEW r \in Request, NEW k \in Key, RequestRetry(r, k) PROVE TypeOK'
  <2>1. Attempt(k[1], k[2], k[3]) \in Attempting
    BY AttemptType DEF Key
  <2> QED BY <1>13, <2>1 DEF RequestRetry, TypeOK, world
<1>14. ASSUME NEW p \in Sender, NEW a \in Addr, NEW n \in 0..Attempts, NEW ok \in BOOLEAN,
              Send(p, a, n, ok)
       PROVE TypeOK'
  <2>1. /\ att[p] \in Attempting /\ att[p].key \in Key
        /\ att' \in [Sender -> Attempting \union {None}]
    <3>1. /\ att[p] \in Attempting /\ att[p].key \in Key
          /\ att' = [att EXCEPT ![p] = att'[p]]
          /\ att'[p] \in Attempting
      BY <1>14, SendEffect
    <3>2. att \in [Sender -> Attempting \union {None}]
      BY DEF TypeOK
    <3> QED BY <3>1, <3>2
  <2>2. faults' \in 0..MaxFaults
    BY <1>14 DEF Send, TypeOK
  <2>3. handed' \subseteq Key
    BY <1>14, <2>1 DEF Send, TypeOK
  <2>4. CASE p = Runner /\ n > 0
    <3>1. n \in Nat /\ n - 1 \in Nat
      BY <2>4, SettingsAssumption
    <3>2. waived' \in [Key -> Nat]
      <4>1. waived' = [waived EXCEPT ![att[p].key] = @ + (n - 1)]
        BY <1>14, <2>4 DEF Send
      <4>2. waived \in [Key -> Nat] /\ waived[att[p].key] + (n - 1) \in Nat
        BY <2>1, <3>1 DEF TypeOK
      <4> QED BY <2>1, <4>1, <4>2
    <3>3. mailed' \in [Key -> [Addr -> Nat]]
      <4>1. mailed \in [Key -> [Addr -> Nat]]
        BY DEF TypeOK
      <4>2. mailed[att[p].key] \in [Addr -> Nat] /\ mailed[att[p].key][a] + n \in Nat
        BY <2>1, <3>1, <4>1
      <4>3. mailed' = [mailed EXCEPT ![att[p].key][a] = @ + n]
        BY <1>14, <2>4 DEF Send
      <4> QED BY <2>1, <4>1, <4>2, <4>3
    <3>4. att[p].key[1] \in User
      BY <2>1 DEF Key
    <3>5. run' \in [pc : {"idle", "synced", "trimmed", "loop"}, dry : BOOLEAN,
                    excluded : SUBSET User, left : SUBSET User,
                    chosen : SUBSET User, told : SUBSET User]
      <4>1. run' = [run EXCEPT !.told = @ \union {att[p].key[1]}]
        BY <1>14, <2>4 DEF Send
      <4> QED BY <3>4, <4>1 DEF TypeOK
    <3> QED BY <1>14, <2>1, <2>2, <2>3, <3>2, <3>3, <3>5 DEF Send, TypeOK, world
  <2>5. CASE ~(p = Runner /\ n > 0)
    BY <1>14, <2>1, <2>2, <2>3, <2>5 DEF Send, TypeOK, world
  <2> QED BY <2>4, <2>5
<1>15. ASSUME NEW p \in Sender, Record(p) PROVE TypeOK'
  <2>1. att[p].key \in Key
    BY <1>15 DEF Record, TypeOK, Attempting
  <2>2. log' \in [Key -> [status : {"none", "sent", "failed"}, day : 0..MaxDay]]
    BY <1>15 DEF Record, Upsert, Row, TypeOK
  <2>3. waived' \in [Key -> Nat]
    BY <1>15, <2>1 DEF Record, TypeOK
  <2> QED BY <1>15, <2>2, <2>3 DEF Record, TypeOK, world
<1>16. ASSUME NEW p \in Sender, DbError(p) PROVE TypeOK'
  <2>1. waived' \in [Key -> Nat]
    BY <1>16, ForgetType DEF DbError
  <2>2. run' \in [pc : {"idle", "synced", "trimmed", "loop"}, dry : BOOLEAN,
                  excluded : SUBSET User, left : SUBSET User,
                  chosen : SUBSET User, told : SUBSET User]
    BY <1>16 DEF DbError, NoRun, TypeOK
  <2> QED BY <1>16, <2>1, <2>2 DEF DbError, TypeOK, world
<1>17. CASE Crash
  <2>1. waived' \in [Key -> Nat]
    BY <1>17, Senders, ForgetType DEF Crash
  <2>2. run' \in [pc : {"idle", "synced", "trimmed", "loop"}, dry : BOOLEAN,
                  excluded : SUBSET User, left : SUBSET User,
                  chosen : SUBSET User, told : SUBSET User]
    BY <1>17 DEF Crash, NoRun
  <2> QED BY <1>17, <2>1, <2>2 DEF Crash, TypeOK, world
<1>18. CASE UNCHANGED vars
  BY <1>18 DEF vars, TypeOK
<1> QED BY <1>1, <1>2, <1>3, <1>4, <1>5, <1>6, <1>7, <1>8, <1>9, <1>10, <1>11, <1>12,
           <1>13, <1>14, <1>15, <1>16, <1>17, <1>18 DEF Next

(* Every reachable state has the types it should have; in particular a run  *)
(* and a forced send only ever record a stage of the configured list.      *)
THEOREM TypeCorrect == Spec => []TypeOK
<1>1. Init => TypeOK BY TypeInit
<1>2. TypeOK /\ [Next]_vars => TypeOK' BY TypeStep
<1> QED BY <1>1, <1>2, PTL DEF Spec
-----------------------------------------------------------------------------
(* Balanced is inductive.  It is what links the mails that are out to the  *)
(* row that will remember them: a mail of the run is paid for by the       *)
(* attempt until its row is written, and by the row "sent" from then on.   *)

(* Credit is zero or one.                                                  *)
LEMMA CreditType ==
  ASSUME NEW k \in Key, NEW a \in Addr
  PROVE  Credit(k, a) \in {0, 1}
BY DEF Credit

(* What does not touch the books leaves them balanced.                     *)
LEMMA BooksUntouched ==
  ASSUME Balanced, UNCHANGED <<log, mailed, handed, waived, att>>,
         att[Runner] # None => run'.pc = "loop"
  PROVE  Balanced'
BY DEF Balanced, Credit, SentMeansHandedOver

(* What an operator starts to send changes no credit.                      *)
LEMMA OperatorAttempt ==
  ASSUME TypeOK, Balanced, NEW r \in Request, NEW u \in User, NEW c \in Cycle,
         NEW s \in ReminderDays, att' = [att EXCEPT ![r] = Attempt(u, c, s)],
         UNCHANGED <<log, run, mailed, handed, waived>>
  PROVE  Balanced'
<1>1. att'[Runner] = att[Runner]
  BY Senders DEF TypeOK
<1>2. \A k \in Key, a \in Addr : mailed'[k][a] <= waived'[k] + Credit(k, a)'
  BY <1>1 DEF Balanced, Credit
<1>3. \A p \in Sender : att'[p] # None =>
        /\ att'[p].left \intersect att'[p].out = {}
        /\ att'[p].ok => att'[p].out # {}
        /\ att'[p].out # {} => att'[p].key \in handed'
  BY Senders DEF TypeOK, Balanced, Attempt
<1> QED BY <1>1, <1>2, <1>3 DEF Balanced, SentMeansHandedOver

(* A run that takes up a user owes nothing for the stage it picked: the     *)
(* history does not hold it as sent.                                       *)
LEMMA TakeBalanced ==
  ASSUME TypeOK, Balanced, NEW u \in User, RunTake(u)
  PROVE  Balanced'
<1> DEFINE key == <<u, mirror[u].expiry, StageFor(u)>>
<1>1. mirror[u].expiry # None
  BY DEF RunTake, StageFor, DueStage, TypeOK
<1>2. mirror[u].expiry \in Cycle /\ mirror[u].daysLeft \in Int /\ StageFor(u) \in ReminderDays
  BY <1>1, StageType DEF RunTake
<1>3. StageFor(u) \notin SentStages(u, mirror[u].expiry)
  BY <1>2, Days, DueStageIsMostUrgent DEF RunTake, StageFor
<1>4. log[key].status # "sent"
  BY <1>2, <1>3 DEF SentStages
<1>5. att'[Runner] = [key |-> key, left |-> Recipients[u], out |-> {}, ok |-> FALSE]
  BY Senders DEF RunTake, TypeOK, Attempt
<1>6. \A p \in Sender : p # Runner => att'[p] = att[p]
  BY DEF RunTake, TypeOK
<1>7. /\ att[Runner] = None /\ run'.pc = "loop" /\ att'[Runner] # None
      /\ UNCHANGED <<log, mailed, handed, waived>>
  <2>1. att'[Runner] \in Attempting
    BY <1>2, <1>5, AttemptType DEF Attempt
  <2>2. run'.pc = run.pc
    BY DEF RunTake, TypeOK
  <2> QED BY <2>1, <2>2, AttemptAssumption DEF RunTake
<1> HIDE DEF key
<1>8. \A k \in Key, a \in Addr : mailed'[k][a] <= waived'[k] + Credit(k, a)'
  <2> SUFFICES ASSUME NEW k \in Key, NEW a \in Addr
               PROVE  mailed[k][a] <= waived[k] + Credit(k, a)'
    BY <1>7
  <2>1. Credit(k, a)' = Credit(k, a)
    BY <1>4, <1>5, <1>7 DEF Credit
  <2> QED BY <2>1 DEF Balanced
<1>9. \A p \in Sender : att'[p] # None =>
        /\ att'[p].left \intersect att'[p].out = {}
        /\ att'[p].ok => att'[p].out # {}
        /\ att'[p].out # {} => att'[p].key \in handed'
  BY <1>5, <1>6, <1>7 DEF Balanced
<1> QED BY <1>7, <1>8, <1>9 DEF Balanced, SentMeansHandedOver

(* A mail of a run is either the first of its attempt to that address, or a *)
(* repetition, which is waived.                                            *)
LEMMA SendBalanced ==
  ASSUME TypeOK, Balanced, NEW p \in Sender, NEW a \in Addr, NEW n \in 0..Attempts,
         NEW ok \in BOOLEAN, Send(p, a, n, ok)
  PROVE  /\ Balanced'
         /\ p = Runner /\ n > 0 => mailed[att[p].key][a] <= waived[att[p].key]
<1> DEFINE k0 == att[p].key
           out1 == IF n > 0 THEN att[p].out \union {a} ELSE att[p].out
<1>1. /\ att[p] # None /\ a \in att[p].left /\ (ok => n > 0)
      /\ UNCHANGED log
      /\ handed' = IF n > 0 THEN handed \union {k0} ELSE handed
  BY DEF Send
<1>2. k0 \in Key /\ att[p] \in Attempting
  BY SendEffect
<1>3. /\ att'[p].key = k0 /\ att'[p].left = att[p].left \ {a}
      /\ att'[p].out = out1 /\ att'[p].ok = (att[p].ok \/ ok)
      /\ att'[p] # None
      /\ \A q \in Sender : q # p => att'[q] = att[q]
  <2>1. att' = [att EXCEPT ![p] = [key |-> k0, left |-> att[p].left \ {a},
                                  out |-> out1, ok |-> att[p].ok \/ ok]]
    BY SendEffect
  <2>2. att'[p] = [key |-> k0, left |-> att[p].left \ {a},
                   out |-> out1, ok |-> att[p].ok \/ ok]
    BY <2>1 DEF TypeOK
  <2>3. att'[p] # None
    BY SendEffect, AttemptAssumption
  <2> QED BY <2>1, <2>2, <2>3 DEF TypeOK
<1> HIDE DEF k0, out1
<1>4. \A q \in Sender : att'[q] # None =>
        /\ att'[q].left \intersect att'[q].out = {}
        /\ att'[q].ok => att'[q].out # {}
        /\ att'[q].out # {} => att'[q].key \in handed'
  <2> SUFFICES ASSUME NEW q \in Sender, att'[q] # None
               PROVE  /\ att'[q].left \intersect att'[q].out = {}
                      /\ att'[q].ok => att'[q].out # {}
                      /\ att'[q].out # {} => att'[q].key \in handed'
    OBVIOUS
  <2>1. CASE q # p
    BY <1>1, <1>3, <2>1 DEF Balanced
  <2>2. CASE q = p
    <3>1. /\ att[p].left \intersect att[p].out = {}
          /\ att[p].ok => att[p].out # {}
          /\ att[p].out # {} => k0 \in handed
      BY <1>1 DEF Balanced, k0
    <3>2. (att[p].left \ {a}) \intersect out1 = {}
      BY <3>1 DEF out1
    <3>3. att[p].ok \/ ok => out1 # {}
      BY <1>1, <3>1 DEF out1
    <3>4. out1 # {} => k0 \in handed'
      BY <1>1, <3>1 DEF out1
    <3> QED BY <1>3, <2>2, <3>2, <3>3, <3>4
  <2> QED BY <2>1, <2>2
<1>5. SentMeansHandedOver'
  BY <1>1 DEF Balanced, SentMeansHandedOver
<1>6. att'[Runner] # None => run'.pc = "loop"
  <2>1. run'.pc = run.pc
    BY DEF Send, TypeOK
  <2> QED BY <1>1, <1>3, <2>1, Senders DEF Balanced
<1>7. CASE p = Runner /\ n > 0
  <2>1. /\ mailed' = [mailed EXCEPT ![k0][a] = @ + n]
        /\ waived' = [waived EXCEPT ![k0] = @ + (n - 1)]
    BY <1>7 DEF Send, k0
  <2>2. n \in Nat /\ n > 0 /\ mailed \in [Key -> [Addr -> Nat]] /\ waived \in [Key -> Nat]
    BY <1>7, SettingsAssumption DEF TypeOK
  <2>3. a \notin att[p].out
    BY <1>1 DEF Balanced
  <2>4. Credit(k0, a) = 0
    BY <1>1, <1>7, <2>3 DEF Credit, k0
  <2>5. mailed[k0][a] <= waived[k0]
    BY <1>2, <2>2, <2>4 DEF Balanced
  <2>6. ASSUME NEW k \in Key, NEW b \in Addr
        PROVE  mailed'[k][b] <= waived'[k] + Credit(k, b)'
    <3>1. /\ mailed[k][b] \in Nat /\ waived[k] \in Nat
          /\ mailed[k][b] <= waived[k] + Credit(k, b)
      BY <2>2 DEF Balanced
    <3>2. CASE k = k0 /\ b = a
      <4>1. Credit(k, b)' = 1
        BY <1>3, <1>7, <3>2 DEF Credit, out1
      <4>2. mailed'[k][b] = mailed[k][b] + n /\ waived'[k] = waived[k] + (n - 1)
        BY <1>2, <2>1, <2>2, <3>2
      <4> QED BY <2>2, <2>5, <3>1, <3>2, <4>1, <4>2
    <3>3. CASE k = k0 /\ b # a
      <4>1. Credit(k, b)' = Credit(k, b) /\ Credit(k, b) \in {0, 1}
        BY <1>1, <1>3, <1>7, <3>3 DEF Credit, out1, k0
      <4>2. mailed'[k][b] = mailed[k][b] /\ waived'[k] = waived[k] + (n - 1)
        BY <1>2, <2>1, <2>2, <3>3
      <4> QED BY <2>2, <3>1, <4>1, <4>2
    <3>4. CASE k # k0
      <4>1. Credit(k, b)' = Credit(k, b)
        BY <1>1, <1>3, <1>7, <3>4 DEF Credit, k0
      <4>2. mailed'[k][b] = mailed[k][b] /\ waived'[k] = waived[k]
        BY <1>2, <2>1, <2>2, <3>4
      <4> QED BY <3>1, <4>1, <4>2
    <3> QED BY <3>2, <3>3, <3>4
  <2> QED BY <1>4, <1>5, <1>6, <2>5, <2>6 DEF Balanced, k0
<1>8. CASE ~(p = Runner /\ n > 0)
  <2>1. UNCHANGED <<mailed, waived>>
    BY <1>8 DEF Send
  <2>2. \A k \in Key, b \in Addr : Credit(k, b)' = Credit(k, b)
    BY <1>1, <1>3, <1>8, Senders DEF Credit, out1, k0
  <2> QED BY <1>4, <1>5, <1>6, <1>8, <2>1, <2>2 DEF Balanced
<1> QED BY <1>7, <1>8

(* The row that closes an attempt takes over its credit, or waives it.     *)
LEMMA RecordBalanced ==
  ASSUME TypeOK, Balanced, NEW p \in Sender, Record(p)
  PROVE  /\ Balanced'
         /\ \A k \in Key : waived'[k] \in {waived[k], waived[k] + 1}
<1> DEFINE k0 == att[p].key
           failed == IF p = Runner THEN att[p].out # {} ELSE log[k0].status = "sent"
<1>1. /\ att[p] # None /\ att[p] \in Attempting /\ k0 \in Key
      /\ att[p].ok => k0 \in handed
      /\ UNCHANGED <<mailed, handed, run>>
  BY DEF Record, TypeOK, Attempting, Balanced
<1>2. waived' = [waived EXCEPT ![k0] = IF ~att[p].ok /\ failed THEN @ + 1 ELSE @]
  BY Zenon DEF Record
<1>3. /\ log' = [log EXCEPT ![k0] = Row(p)]
      /\ Row(p).status = IF att[p].ok THEN "sent" ELSE "failed"
  BY DEF Record, Upsert, Row
<1>4. /\ log'[k0].status = IF att[p].ok THEN "sent" ELSE "failed"
      /\ \A k \in Key : k # k0 => log'[k] = log[k] /\ waived'[k] = waived[k]
      /\ waived'[k0] = IF ~att[p].ok /\ failed THEN waived[k0] + 1 ELSE waived[k0]
      /\ \A k \in Key : waived[k] \in Nat
  BY <1>1, <1>2, <1>3 DEF TypeOK
<1>5. att'[p] = None /\ \A q \in Sender : q # p => att'[q] = att[q]
  BY DEF Record, TypeOK
<1>6. \A k \in Key : waived'[k] \in {waived[k], waived[k] + 1}
  BY <1>4
<1>7. SentMeansHandedOver'
  BY <1>1, <1>4 DEF Balanced, SentMeansHandedOver
<1>8. ASSUME NEW k \in Key, NEW a \in Addr
      PROVE  mailed'[k][a] <= waived'[k] + Credit(k, a)'
  <2>1. /\ mailed[k][a] \in Nat /\ waived[k] \in Nat
        /\ mailed[k][a] <= waived[k] + Credit(k, a)
        /\ Credit(k, a) \in {0, 1} /\ Credit(k, a)' \in {0, 1}
    BY CreditType DEF TypeOK, Balanced, Credit
  <2>2. Credit(k, a) <= (waived'[k] - waived[k]) + Credit(k, a)'
    <3>1. CASE k # k0
      <4>1. Credit(k, a)' = Credit(k, a)
        BY <1>4, <1>5, <3>1, Senders DEF Credit
      <4> QED BY <1>4, <2>1, <3>1, <4>1
    <3>2. CASE k = k0 /\ p = Runner
      <4>1. Credit(k, a) = (IF a \in att[p].out THEN 1 ELSE 0)
        BY <1>1, <3>2 DEF Credit
      <4>2. Credit(k, a)' = (IF att[p].ok THEN 1 ELSE 0)
        BY <1>4, <1>5, <3>2 DEF Credit
      <4>3. CASE att[p].ok
        BY <1>4, <2>1, <3>2, <4>2, <4>3
      <4>4. CASE ~att[p].ok /\ a \in att[p].out
        BY <1>4, <2>1, <3>2, <4>2, <4>4
      <4>5. CASE ~att[p].ok /\ a \notin att[p].out
        BY <1>4, <1>6, <2>1, <4>1, <4>5
      <4> QED BY <4>3, <4>4, <4>5
    <3>3. CASE k = k0 /\ p # Runner
      <4>1. CASE att[Runner] # None /\ att[Runner].key = k
        <5>1. Credit(k, a)' = Credit(k, a)
          BY <1>5, <3>3, <4>1, Senders DEF Credit
        <5> QED BY <1>6, <2>1, <5>1
      <4>2. CASE ~(att[Runner] # None /\ att[Runner].key = k)
        <5>1. /\ Credit(k, a) = (IF log[k].status = "sent" THEN 1 ELSE 0)
              /\ Credit(k, a)' = (IF att[p].ok THEN 1 ELSE 0)
          BY <1>4, <1>5, <3>3, <4>2, Senders DEF Credit
        <5>2. CASE att[p].ok
          BY <1>4, <2>1, <3>3, <5>1, <5>2
        <5>3. CASE ~att[p].ok
          BY <1>4, <2>1, <3>3, <5>1, <5>3
        <5> QED BY <5>2, <5>3
      <4> QED BY <4>1, <4>2
    <3> QED BY <3>1, <3>2, <3>3
  <2>3. mailed'[k][a] = mailed[k][a] /\ waived'[k] \in Nat
    BY <1>1, <1>6, <2>1
  <2> QED BY <2>1, <2>2, <2>3
<1>9. \A q \in Sender : att'[q] # None =>
        /\ att'[q].left \intersect att'[q].out = {}
        /\ att'[q].ok => att'[q].out # {}
        /\ att'[q].out # {} => att'[q].key \in handed'
  BY <1>1, <1>5 DEF Balanced
<1>10. att'[Runner] # None => run'.pc = "loop"
  BY <1>1, <1>5, Senders DEF Balanced
<1> QED BY <1>6, <1>7, <1>8, <1>9, <1>10 DEF Balanced

(* A crash or a failed statement drops an attempt: what it owed is waived. *)
LEMMA ForgetBalanced ==
  ASSUME TypeOK, Balanced, NEW p \in Sender, Forget(p),
         UNCHANGED <<log, mailed, handed>>,
         att'[Runner] = (IF p = Runner THEN None ELSE att[Runner]),
         \A q \in Sender : att'[q] \in {None, att[q]},
         run' = (IF p = Runner THEN NoRun ELSE run)
  PROVE  /\ Balanced'
         /\ \A k \in Key : waived'[k] \in {waived[k], waived[k] + 1}
<1> DEFINE owes == p = Runner /\ att[p] # None /\ att[p].out # {}
<1>1. \A k \in Key : /\ waived[k] \in Nat
                     /\ waived'[k] = IF owes /\ k = att[p].key THEN waived[k] + 1
                                      ELSE waived[k]
  BY DEF Forget, TypeOK, Attempting
<1>2. ASSUME NEW k \in Key, NEW a \in Addr
      PROVE  mailed'[k][a] <= waived'[k] + Credit(k, a)'
  <2>1. /\ mailed[k][a] \in Nat /\ waived[k] \in Nat
        /\ mailed[k][a] <= waived[k] + Credit(k, a)
        /\ Credit(k, a) \in {0, 1} /\ Credit(k, a)' \in {0, 1}
    BY CreditType DEF TypeOK, Balanced, Credit
  <2>2. CASE p = Runner
    <3>1. CASE att[Runner] # None /\ att[Runner].key = k /\ a \in att[Runner].out
      BY <1>1, <2>1, <2>2, <3>1
    <3>2. CASE att[Runner] # None /\ att[Runner].key = k /\ a \notin att[Runner].out
      <4>1. Credit(k, a) = 0
        BY <3>2 DEF Credit
      <4> QED BY <1>1, <2>1, <4>1
    <3>3. CASE ~(att[Runner] # None /\ att[Runner].key = k)
      <4>1. Credit(k, a)' = Credit(k, a)
        BY <2>2, <3>3 DEF Credit
      <4> QED BY <1>1, <2>1, <4>1
    <3> QED BY <3>1, <3>2, <3>3
  <2>3. CASE p # Runner
    <3>1. Credit(k, a)' = Credit(k, a)
      BY <2>3 DEF Credit
    <3> QED BY <1>1, <2>1, <2>3, <3>1
  <2> QED BY <2>2, <2>3
<1>3. \A q \in Sender : att'[q] # None =>
        /\ att'[q].left \intersect att'[q].out = {}
        /\ att'[q].ok => att'[q].out # {}
        /\ att'[q].out # {} => att'[q].key \in handed'
  BY DEF Balanced
<1>4. att'[Runner] # None => run'.pc = "loop"
  BY DEF Balanced
<1>5. SentMeansHandedOver'
  BY DEF Balanced, SentMeansHandedOver
<1>6. \A k \in Key : waived'[k] \in {waived[k], waived[k] + 1}
  BY <1>1
<1> QED BY <1>2, <1>3, <1>4, <1>5, <1>6 DEF Balanced

(* Trimming happens while no run is sending: each row "sent" it removes     *)
(* stood for the credit of its key.                                        *)
LEMMA TrimBalanced ==
  ASSUME TypeOK, Balanced, RunTrim
  PROVE  /\ Balanced'
         /\ \A k \in Key : waived'[k] \in {waived[k], waived[k] + 1}
<1>1. /\ att[Runner] = None /\ UNCHANGED <<att, mailed, handed>>
  BY DEF RunTrim, Balanced
<1>2. \A k \in Key :
        /\ waived[k] \in Nat
        /\ \/ log'[k] = log[k] /\ waived'[k] = waived[k]
           \/ /\ log'[k].status # "sent"
              /\ waived'[k] = IF log[k].status = "sent" THEN waived[k] + 1 ELSE waived[k]
  BY DEF RunTrim, TypeOK, NoRow
<1>3. ASSUME NEW k \in Key, NEW a \in Addr
      PROVE  mailed'[k][a] <= waived'[k] + Credit(k, a)'
  <2>1. /\ mailed[k][a] \in Nat /\ waived[k] \in Nat
        /\ mailed[k][a] <= waived[k] + Credit(k, a)
    BY DEF TypeOK, Balanced
  <2>2. /\ Credit(k, a)  = (IF log[k].status = "sent" THEN 1 ELSE 0)
        /\ Credit(k, a)' = (IF log'[k].status = "sent" THEN 1 ELSE 0)
    BY <1>1 DEF Credit
  <2> QED BY <1>1, <1>2, <2>1, <2>2
<1>4. \A k \in Key : waived'[k] \in {waived[k], waived[k] + 1}
  BY <1>2
<1>5. SentMeansHandedOver'
  BY <1>1, <1>2 DEF Balanced, SentMeansHandedOver
<1> QED BY <1>1, <1>3, <1>4, <1>5 DEF Balanced

LEMMA DropsBalanced ==
  ASSUME TypeOK, Balanced, Crash \/ \E p \in Sender : DbError(p)
  PROVE  /\ Balanced'
         /\ \A k \in Key : waived'[k] \in {waived[k], waived[k] + 1}
<1>1. ASSUME NEW p \in Sender, DbError(p)
      PROVE  /\ Balanced'
             /\ \A k \in Key : waived'[k] \in {waived[k], waived[k] + 1}
  <2>1. /\ Forget(p) /\ UNCHANGED <<log, mailed, handed>>
        /\ run' = (IF p = Runner THEN NoRun ELSE run)
        /\ att'[Runner] = (IF p = Runner THEN None ELSE att[Runner])
        /\ \A q \in Sender : att'[q] \in {None, att[q]}
    BY <1>1, Senders DEF DbError, TypeOK
  <2> QED BY <2>1, ForgetBalanced
<1>2. CASE Crash
  <2>1. /\ Forget(Runner) /\ UNCHANGED <<log, mailed, handed>>
        /\ run' = NoRun /\ att'[Runner] = None
        /\ \A q \in Sender : att'[q] \in {None, att[q]}
    BY <1>2, Senders DEF Crash
  <2> QED BY <2>1, Senders, ForgetBalanced
<1> QED BY <1>1, <1>2

-----------------------------------------------------------------------------
LEMMA BalancedInit == Init => Balanced
<1> SUFFICES ASSUME Init PROVE Balanced
  OBVIOUS
<1>1. att = [p \in Sender |-> None] /\ att[Runner] = None
  BY Senders DEF Init
<1>2. \A k \in Key : log[k].status = "none" /\ waived[k] = 0
  BY DEF Init, NoRow
<1>3. \A k \in Key, a \in Addr : mailed[k][a] = 0 /\ Credit(k, a) = 0
  BY <1>1, <1>2 DEF Init, Credit
<1> QED BY <1>1, <1>2, <1>3 DEF Balanced, SentMeansHandedOver

LEMMA BalancedStep == TypeOK /\ Balanced /\ [Next]_vars => Balanced'
<1> SUFFICES ASSUME TypeOK, Balanced, [Next]_vars PROVE Balanced'
  OBVIOUS
<1>1. CASE Tick \/ (\E u \in User : ChangePassword(u)) \/ (\E u \in Toggled : SetExcluded(u))
  BY <1>1, BooksUntouched DEF Tick, ChangePassword, SetExcluded, Balanced
<1>2. CASE \E dry \in DryRun, reached \in SUBSET User : RunStart(dry, reached)
  BY <1>2, BooksUntouched DEF RunStart, Balanced
<1>3. CASE \/ \E resolved \in SUBSET GroupRules : RunSelect(resolved)
           \/ \E u \in User : RunSkip(u)
           \/ RunEnd
  BY <1>3, BooksUntouched DEF RunSelect, RunSkip, RunEnd, Balanced, TypeOK
<1>4. CASE RunTrim
  BY <1>4, TrimBalanced
<1>5. ASSUME NEW u \in User, RunTake(u) PROVE Balanced'
  BY <1>5, TakeBalanced
<1>6. CASE \/ \E r \in Request, users \in SUBSET User : RequestForce(r, users)
           \/ \E r \in Request, u \in User : ForceSkip(r, u)
  BY <1>6, BooksUntouched DEF RequestForce, ForceSkip, Balanced
<1>7. ASSUME NEW r \in Request, NEW u \in User, ForceTake(r, u) PROVE Balanced'
  <2>1. /\ mirror[u].expiry \in Cycle
        /\ ForcedStage(mirror[u].daysLeft, ReminderDays) \in ReminderDays
    BY <1>7, StageType DEF ForceTake
  <2> QED BY <1>7, <2>1, OperatorAttempt DEF ForceTake
<1>8. ASSUME NEW r \in Request, NEW k \in Key, RequestRetry(r, k) PROVE Balanced'
  <2>1. k[1] \in User /\ k[2] \in Cycle /\ k[3] \in ReminderDays
    BY DEF Key
  <2> QED BY <1>8, <2>1, OperatorAttempt DEF RequestRetry
<1>9. ASSUME NEW p \in Sender, NEW a \in Addr, NEW n \in 0..Attempts, NEW ok \in BOOLEAN,
             Send(p, a, n, ok)
      PROVE  Balanced'
  BY <1>9, SendBalanced
<1>10. ASSUME NEW p \in Sender, Record(p) PROVE Balanced'
  BY <1>10, RecordBalanced
<1>11. ASSUME NEW p \in Sender, DbError(p) PROVE Balanced'
  BY <1>11, DropsBalanced
<1>12. CASE Crash
  BY <1>12, DropsBalanced
<1>13. CASE UNCHANGED vars
  BY <1>13, BooksUntouched DEF vars, Balanced
<1> QED BY <1>1, <1>2, <1>3, <1>4, <1>5, <1>6, <1>7, <1>8, <1>9, <1>10, <1>11, <1>12,
           <1>13 DEF Next

(* The mails that are out and the history agree in every reachable state,   *)
(* with Credit accounting for the attempt in between.                      *)
THEOREM BooksBalance == Spec => []Balanced
<1>1. Init => Balanced BY BalancedInit
<1>2. TypeOK /\ Balanced /\ [Next]_vars => Balanced' BY BalancedStep
<1> QED BY <1>1, <1>2, TypeCorrect, PTL DEF Spec

(* One mail per address, user, expiry cycle and stage, plus one for every   *)
(* event that makes the history forget or lose a mail - for any number of  *)
(* users, operators, crashes and lost answers.                             *)
THEOREM RunMailsStayBounded == Spec => []RunMailsBounded
<1>1. TypeOK /\ Balanced => RunMailsBounded
  BY CreditType DEF TypeOK, Balanced, RunMailsBounded
<1> QED BY <1>1, TypeCorrect, BooksBalance, PTL

(* The history never says "sent" of a mail nobody handed to the transport.  *)
THEOREM HistoryIsHonest == Spec => []SentMeansHandedOver
<1>1. Balanced => SentMeansHandedOver
  BY DEF Balanced
<1> QED BY <1>1, BooksBalance, PTL

-----------------------------------------------------------------------------
(* Refinement. *)

LEMMA PromiseStep ==
  TypeOK /\ TypeOK' /\ Balanced /\ [Next]_vars => [Promise!Next]_<<mailed, waived>>
<1> SUFFICES ASSUME TypeOK, TypeOK', Balanced, [Next]_vars
             PROVE  [Promise!Next]_<<mailed, waived>>
  OBVIOUS
<1>1. ASSUME UNCHANGED mailed, \A k \in Key : waived'[k] \in {waived[k], waived[k] + 1}
      PROVE  Promise!Next
  BY <1>1 DEF TypeOK, Promise!Next, Promise!Waive
<1>2. CASE UNCHANGED <<mailed, waived>>
  BY <1>2
<1>3. CASE RunTrim
  BY <1>1, <1>3, TrimBalanced DEF RunTrim
<1>4. ASSUME NEW p \in Sender, NEW a \in Addr, NEW n \in 0..Attempts, NEW ok \in BOOLEAN,
             Send(p, a, n, ok)
      PROVE  [Promise!Next]_<<mailed, waived>>
  <2>1. CASE p = Runner /\ n > 0
    <3>1. att[p].key \in Key /\ n \in 1..Attempts
      BY <1>4, <2>1, SendEffect, SettingsAssumption
    <3>2. mailed[att[p].key][a] <= waived[att[p].key]
      BY <1>4, <2>1, SendBalanced
    <3>3. /\ mailed' = [mailed EXCEPT ![att[p].key][a] = @ + n]
          /\ waived' = [waived EXCEPT ![att[p].key] = @ + (n - 1)]
      BY <1>4, <2>1 DEF Send
    <3>4. Promise!Mail(att[p].key, a)
      BY <3>1, <3>2, <3>3 DEF Promise!Mail
    <3> QED BY <3>1, <3>4 DEF Promise!Next
  <2>2. CASE ~(p = Runner /\ n > 0)
    BY <1>4, <2>2 DEF Send
  <2> QED BY <2>1, <2>2
<1>5. ASSUME NEW p \in Sender, Record(p) PROVE Promise!Next
  BY <1>1, <1>5, RecordBalanced DEF Record
<1>6. ASSUME NEW p \in Sender, DbError(p) PROVE Promise!Next
  BY <1>1, <1>6, DropsBalanced DEF DbError
<1>7. CASE Crash
  BY <1>1, <1>7, DropsBalanced DEF Crash
<1> QED
  BY <1>2, <1>3, <1>4, <1>5, <1>6, <1>7
  DEF Next, vars, Tick, ChangePassword, SetExcluded, RunStart, RunSelect, RunSkip, RunTake,
      RunEnd, RequestForce, ForceSkip, ForceTake, RequestRetry

(* The runs implement the abstract promise of ReminderPromise.             *)
THEOREM RunsKeepPromise == Spec => KeepsPromise
<1>1. Init => Promise!Init
  BY DEF Init, Promise!Init
<1>2. TypeOK /\ TypeOK' /\ Balanced /\ [Next]_vars => [Promise!Next]_<<mailed, waived>>
  BY PromiseStep
<1> QED BY <1>1, <1>2, TypeCorrect, BooksBalance, PTL DEF Spec, KeepsPromise, Promise!Spec

-----------------------------------------------------------------------------
(* What one run does to the users it selected.                             *)

Due(u) == DueStage(mirror[u].daysLeft, ReminderDays, {})
DueOf(us) == {u \in us : Due(u) # None}
Reminder(u) == <<u, mirror[u].expiry, Due(u)>>

(* The mirror lags behind the calendar, and what has been mailed was due   *)
(* by a mirror that is no further than today's.                            *)
OnTime ==
  /\ \A u \in User : mirror[u].expiry # None => mirror[u].expiry - today <= mirror[u].daysLeft
  /\ \A u \in User, c \in Cycle, s \in ReminderDays, a \in Addr :
       mailed[<<u, c, s>>][a] > 0 =>
         /\ c - today <= s
         /\ mirror[u].expiry = c => mirror[u].daysLeft <= s

(* The brake has counted everybody a run may mail, the mail it is sending  *)
(* is one of these reminders, and who is done has a row.                   *)
Serving ==
  /\ run.pc # "loop" => att[Runner] = None /\ run.told = {}
  /\ run.dry => att[Runner] = None /\ run.told = {}
  /\ run.pc = "loop" =>
       /\ run.left \subseteq run.chosen
       /\ \A u \in run.chosen : mirror[u].expiry # None
       /\ ~run.dry /\ NotifyCap > 0 => Cardinality(DueOf(run.chosen)) <= NotifyCap
       /\ run.told \subseteq DueOf(run.chosen)
       /\ att[Runner] # None =>
            \E u \in DueOf(run.chosen) : att[Runner].key = Reminder(u)
       /\ ~run.dry =>
            \A u \in DueOf(run.chosen) \ (run.left \union run.excluded) :
              Recipients[u] # {} =>
                \/ log[Reminder(u)].status # "none"
                \/ att[Runner] # None /\ att[Runner].key = Reminder(u)

LEMMA DueIs ==
  ASSUME TypeOK, NEW u \in User, Due(u) # None
  PROVE  /\ Due(u) \in ReminderDays /\ mirror[u].daysLeft \in Int /\ mirror[u].expiry \in Cycle
         /\ mirror[u].daysLeft <= Due(u)
         /\ \A d \in ReminderDays : mirror[u].daysLeft <= d => Due(u) <= d
         /\ Reminder(u) \in Key
<1>1. mirror[u].daysLeft \in Int \union {None} /\ mirror[u].expiry \in Cycle \union {None}
      /\ (mirror[u].expiry = None <=> mirror[u].daysLeft = None)
  BY DEF TypeOK
<1>2. /\ mirror[u].daysLeft \in Int /\ Due(u) \in ReminderDays
      /\ mirror[u].daysLeft <= Due(u)
      /\ \A d \in ReminderDays : mirror[u].daysLeft <= d => Due(u) <= d
  BY <1>1, Days, DueStageIsMostUrgent DEF Due
<1>3. mirror[u].expiry \in Cycle
  BY <1>1, <1>2, Days
<1> QED BY <1>2, <1>3 DEF Reminder, Key

(* What a run sends is the reminder that is due; it passes over nobody but *)
(* the excluded, the unreachable and who has had it.                       *)
LEMMA StageIs ==
  ASSUME TypeOK, NEW u \in User
  PROVE  /\ StageFor(u) # None => StageFor(u) = Due(u) /\ Due(u) # None
         /\ StageFor(u) = None /\ u \notin run.excluded /\ Recipients[u] # {} /\ Due(u) # None =>
              log[Reminder(u)].status = "sent"
<1>1. StageFor(u) # None => StageFor(u) = Due(u) /\ Due(u) # None
  BY DEF StageFor, DueStage, Due
<1>2. ASSUME StageFor(u) = None, u \notin run.excluded, Recipients[u] # {}, Due(u) # None
      PROVE  log[Reminder(u)].status = "sent"
  <2>1. Due(u) \in SentStages(u, mirror[u].expiry)
    BY <1>2 DEF StageFor, DueStage, Due
  <2> QED BY <2>1 DEF SentStages, Reminder
<1> QED BY <1>1, <1>2

(* Whatever leaves the run, its attempt and the mirror alone, and removes  *)
(* no row.                                                                 *)
LEMMA AsideServes ==
  ASSUME TypeOK, Serving, UNCHANGED <<run, mirror>>, att'[Runner] = att[Runner],
         \A k \in Key : log[k].status # "none" => log'[k].status # "none"
  PROVE  Serving'
<1>1. \A u : Due(u)' = Due(u) /\ Reminder(u)' = Reminder(u)
  BY DEF Due, Reminder
<1>2. \A us : DueOf(us)' = DueOf(us)
  BY <1>1 DEF DueOf
<1>3. \A u \in DueOf(run.chosen) : log[Reminder(u)].status # "none" => log'[Reminder(u)].status # "none"
  BY DueIs DEF DueOf, TypeOK
<1> HIDE DEF Due, Reminder, DueOf
<1> QED BY <1>1, <1>2, <1>3 DEF Serving

LEMMA AsideOnTime ==
  ASSUME TypeOK, TypeOK', OnTime, UNCHANGED <<mirror, mailed>>, today <= today'
  PROVE  OnTime'
<1>1. ASSUME NEW u \in User, mirror[u].expiry # None
      PROVE  mirror[u].expiry - today' <= mirror[u].daysLeft
  <2>1. today \in Int /\ today' \in Int
    BY DEF TypeOK
  <2>2. mirror[u].expiry \in Int /\ mirror[u].daysLeft \in Int
    <3>1. /\ mirror[u].expiry \in Cycle \union {None} /\ mirror[u].daysLeft \in Int \union {None}
          /\ mirror[u].expiry = None <=> mirror[u].daysLeft = None
      BY DEF TypeOK
    <3> QED BY <1>1, <3>1, Days
  <2> QED BY <1>1, <2>1, <2>2 DEF OnTime
<1>2. ASSUME NEW u \in User, NEW c \in Cycle, NEW s \in ReminderDays, NEW a \in Addr,
             mailed[<<u, c, s>>][a] > 0
      PROVE  c - today' <= s
  <2>1. c \in Int /\ s \in Int /\ today \in Int /\ today' \in Int
    BY Days DEF TypeOK
  <2> QED BY <1>2, <2>1 DEF OnTime
<1> QED BY <1>1, <1>2 DEF OnTime

LEMMA StartServes ==
  ASSUME TypeOK, TypeOK', OnTime, Serving, NEW dry \in DryRun, NEW reached \in SUBSET User,
         RunStart(dry, reached)
  PROVE  OnTime' /\ Serving'
<1>1. /\ run' = [NoRun EXCEPT !.pc = "synced", !.dry = dry] /\ att[Runner] = None
      /\ UNCHANGED <<today, mailed, att>>
  BY DEF RunStart, Serving, world
<1>2. run'.pc = "synced" /\ run'.told = {}
  BY <1>1 DEF NoRun
<1>3. Serving'
  BY <1>1, <1>2 DEF Serving
<1>4. ASSUME NEW u \in User
      PROVE  \/ mirror'[u] = mirror[u]
             \/ mirror'[u].expiry = None
             \/ mirror'[u].expiry - today = mirror'[u].daysLeft
  <2>1. CASE u \notin reached
    BY <2>1 DEF RunStart
  <2>2. CASE u \in reached
    <3>1. mirror'[u] = ComputeExpiry(directory[u], Validity, u \in NeverExpires, today)
      BY <2>2 DEF RunStart
    <3> QED BY <3>1 DEF ComputeExpiry
  <2> QED BY <2>1, <2>2
<1>5. ASSUME NEW u \in User, mirror'[u].expiry # None
      PROVE  /\ mirror'[u].expiry - today <= mirror'[u].daysLeft
             /\ \A c \in Cycle, s \in ReminderDays, a \in Addr :
                  mailed[<<u, c, s>>][a] > 0 /\ mirror'[u].expiry = c => mirror'[u].daysLeft <= s
  <2>1. mirror'[u].expiry \in Cycle /\ mirror'[u].daysLeft \in Int /\ today \in Int
    <3>1. /\ mirror'[u].expiry \in Cycle \union {None} /\ mirror'[u].daysLeft \in Int \union {None}
          /\ mirror'[u].expiry = None <=> mirror'[u].daysLeft = None
          /\ today \in Int
      BY DEF TypeOK
    <3> QED BY <1>5, <3>1, Days
  <2>2. CASE mirror'[u] = mirror[u]
    BY <1>5, <2>2 DEF OnTime
  <2>3. CASE mirror'[u].expiry - today = mirror'[u].daysLeft
    BY <2>1, <2>3, Days DEF OnTime
  <2> QED BY <1>4, <1>5, <2>2, <2>3
<1>6. OnTime'
  <2>1. ASSUME NEW u \in User, NEW c \in Cycle, NEW s \in ReminderDays, NEW a \in Addr,
               mailed'[<<u, c, s>>][a] > 0
        PROVE  c - today' <= s /\ (mirror'[u].expiry = c => mirror'[u].daysLeft <= s)
    <3>1. mailed[<<u, c, s>>][a] > 0 /\ c # None
      BY <1>1, <2>1, Days
    <3> QED BY <1>1, <1>5, <3>1 DEF OnTime
  <2> QED BY <1>1, <1>5, <2>1 DEF OnTime
<1> QED BY <1>3, <1>6

LEMMA SelectServes ==
  ASSUME TypeOK, Serving, NEW resolved \in SUBSET GroupRules, RunSelect(resolved)
  PROVE  Serving'
<1> DEFINE blocked == MassSendBlocked(DueEstimate, Cardinality(Candidates), NotifyRatio, NotifyCap)
           users == IF blocked /\ ~run.dry THEN {} ELSE Candidates
<1>1. /\ run' = [run EXCEPT !.pc = "loop", !.left = users, !.chosen = users,
                            !.excluded = UserRules \union resolved]
      /\ run.pc = "trimmed" /\ att[Runner] = None /\ run.told = {}
      /\ UNCHANGED <<mirror, log, att>>
  BY DEF RunSelect, Serving
<1>2. \A u \in users : mirror[u].expiry # None
  BY DEF Candidates
<1>3. ~run.dry /\ NotifyCap > 0 => Cardinality(DueOf(users)) <= NotifyCap
  <2> SUFFICES ASSUME ~run.dry, NotifyCap > 0 PROVE Cardinality(DueOf(users)) <= NotifyCap
    OBVIOUS
  <2>0. NotifyCap \in Nat
    BY SettingsAssumption
  <2>1. CASE blocked
    <3>1. DueOf(users) = {}
      BY <2>1 DEF DueOf
    <3> QED BY <2>0, <3>1, FS_EmptySet
  <2>2. CASE ~blocked
    <3>1. users = Candidates /\ DueEstimate = Cardinality(DueOf(users))
      BY <2>2 DEF DueEstimate, DueOf, Due
    <3>2. IsFiniteSet(Candidates) /\ IsFiniteSet(DueOf(users))
      BY <3>1, UserAssumption, FS_Subset DEF Candidates, DueOf
    <3>3. CASE Cardinality(Candidates) = 0
      <4>1. Candidates = {}
        BY <3>2, <3>3, FS_EmptySet
      <4>2. DueOf(users) = {}
        BY <3>1, <4>1 DEF DueOf
      <4> QED BY <2>0, <4>2, FS_EmptySet
    <3>4. CASE Cardinality(Candidates) # 0
      <4>1. DueEstimate \in Nat
        BY <3>1, <3>2, FS_CardinalityType
      <4>2. DueEstimate = 0 \/ ~(DueEstimate > NotifyCap)
        BY <2>2, <3>4 DEF MassSendBlocked
      <4> QED BY <2>0, <3>1, <4>1, <4>2
    <3> QED BY <3>3, <3>4
  <2> QED BY <2>1, <2>2
<1> HIDE DEF users
<1>4. /\ run'.pc = "loop" /\ run'.left = users /\ run'.chosen = users /\ run'.told = {}
      /\ run'.dry = run.dry
  BY <1>1 DEF TypeOK
<1>5. \A us : DueOf(us)' = DueOf(us)
  BY <1>1 DEF DueOf, Due
<1>6. \A u \in DueOf(users) : u \in users
  BY DEF DueOf
<1> HIDE DEF DueOf
<1> QED BY <1>1, <1>2, <1>3, <1>4, <1>5, <1>6 DEF Serving

LEMMA SkipServes ==
  ASSUME TypeOK, Serving, NEW u \in User, RunSkip(u)
  PROVE  Serving'
<1>1. /\ run' = [run EXCEPT !.left = @ \ {u}] /\ run.pc = "loop" /\ att[Runner] = None
      /\ StageFor(u) = None \/ run.dry
      /\ UNCHANGED <<mirror, log, att>>
  BY DEF RunSkip
<1>2. /\ run'.pc = "loop" /\ run'.left = run.left \ {u} /\ run'.chosen = run.chosen
      /\ run'.told = run.told /\ run'.dry = run.dry /\ run'.excluded = run.excluded
  BY <1>1 DEF TypeOK
<1>3. (\A us : DueOf(us)' = DueOf(us)) /\ \A v : Reminder(v)' = Reminder(v)
  BY <1>1 DEF DueOf, Due, Reminder
<1>4. ~run.dry /\ u \in DueOf(run.chosen) /\ u \notin run.excluded /\ Recipients[u] # {} =>
        log[Reminder(u)].status # "none"
  BY <1>1, StageIs DEF DueOf
<1> HIDE DEF DueOf, Reminder
<1> QED BY <1>1, <1>2, <1>3, <1>4 DEF Serving

LEMMA TakeServes ==
  ASSUME TypeOK, Serving, NEW u \in User, RunTake(u)
  PROVE  Serving'
<1>1. /\ run' = [run EXCEPT !.left = @ \ {u}] /\ run.pc = "loop" /\ att[Runner] = None
      /\ StageFor(u) # None /\ ~run.dry /\ u \in run.left
      /\ att' = [att EXCEPT ![Runner] = Attempt(u, mirror[u].expiry, StageFor(u))]
      /\ UNCHANGED <<mirror, log>>
  BY DEF RunTake
<1>2. /\ run'.pc = "loop" /\ run'.left = run.left \ {u} /\ run'.chosen = run.chosen
      /\ run'.told = run.told /\ run'.dry = run.dry /\ run'.excluded = run.excluded
  BY <1>1 DEF TypeOK
<1>3. (\A us : DueOf(us)' = DueOf(us)) /\ \A v : Reminder(v)' = Reminder(v)
  BY <1>1 DEF DueOf, Due, Reminder
<1>4. att'[Runner].key = Reminder(u) /\ att'[Runner] # None
  <2>1. StageFor(u) = Due(u) /\ Due(u) # None
    BY <1>1, StageIs
  <2>2. att'[Runner] = Attempt(u, mirror[u].expiry, Due(u))
    BY <1>1, <2>1, Senders DEF TypeOK
  <2>3. Attempt(u, mirror[u].expiry, Due(u)) \in Attempting
    BY <2>1, DueIs, AttemptType
  <2>4. Attempt(u, mirror[u].expiry, Due(u)).key = Reminder(u)
    BY DEF Attempt, Reminder
  <2> HIDE DEF Reminder, Due
  <2> QED BY <2>2, <2>3, <2>4, AttemptAssumption
<1>5. u \in DueOf(run.chosen)
  BY <1>1, StageIs DEF Serving, DueOf
<1> HIDE DEF DueOf, Reminder
<1> QED BY <1>1, <1>2, <1>3, <1>4, <1>5 DEF Serving

LEMMA OverServes ==
  ASSUME run' = NoRun, att'[Runner] = None
  PROVE  Serving'
<1>1. run'.pc = "idle" /\ run'.told = {} /\ ~run'.dry
  BY DEF NoRun
<1> QED BY <1>1 DEF Serving

(* One address: only a run's mail counts, and it is the reminder that is   *)
(* due to a user the brake has counted.                                    *)
LEMMA SendServes ==
  ASSUME TypeOK, TypeOK', Balanced, OnTime, Serving,
         NEW p \in Sender, NEW a \in Addr, NEW n \in 0..Attempts, NEW ok \in BOOLEAN,
         Send(p, a, n, ok)
  PROVE  /\ OnTime' /\ Serving'
         /\ mailed' # mailed => \E u \in User :
              /\ Due(u) # None
              /\ \A k \in Key, b \in Addr : mailed'[k][b] > mailed[k][b] => k = Reminder(u)
<1>1. /\ att[p] \in Attempting /\ att[p].key \in Key /\ att[p] # None
      /\ att' = [att EXCEPT ![p] = att'[p]] /\ att'[p] \in Attempting
      /\ att'[p].key = att[p].key
      /\ UNCHANGED <<today, mirror, log>>
  <2>1. /\ att[p] \in Attempting /\ att[p].key \in Key
        /\ att' = [att EXCEPT ![p] = att'[p]] /\ att'[p] \in Attempting
    BY SendEffect
  <2>2. att'[p].key = att[p].key
    <3> DEFINE B == [key  |-> att[p].key,
                     left |-> att[p].left \ {a},
                     out  |-> IF n > 0 THEN att[p].out \union {a} ELSE att[p].out,
                     ok   |-> att[p].ok \/ ok]
    <3>1. att' = [att EXCEPT ![p] = B]
      BY SendEffect
    <3>2. B.key = att[p].key
      OBVIOUS
    <3> HIDE DEF B
    <3> QED BY <3>1, <3>2 DEF TypeOK
  <2> QED BY <2>1, <2>2 DEF Send, world
<1>2. CASE p # Runner \/ n = 0
  <2>1. UNCHANGED <<mailed, run>>
    BY <1>2 DEF Send
  <2>2. OnTime'
    <3>1. today <= today'
      BY <1>1 DEF TypeOK
    <3> QED BY <1>1, <2>1, <3>1, AsideOnTime
  <2>3. CASE p # Runner
    <3>1. att'[Runner] = att[Runner]
      BY <1>1, <2>3, Senders DEF TypeOK
    <3> QED BY <1>1, <2>1, <2>2, <3>1, AsideServes
  <2>4. CASE p = Runner
    <3>1. (\A us : DueOf(us)' = DueOf(us)) /\ \A v : Reminder(v)' = Reminder(v)
      BY <1>1 DEF DueOf, Due, Reminder
    <3>2. att'[Runner] # None /\ att'[Runner].key = att[Runner].key /\ att[Runner] # None
      BY <1>1, <2>4, AttemptAssumption
    <3> HIDE DEF DueOf, Reminder
    <3>3. Serving'
      BY <1>1, <2>1, <3>1, <3>2 DEF Serving
    <3> QED BY <2>1, <2>2, <3>3
  <2> QED BY <2>3, <2>4
<1>3. CASE p = Runner /\ n > 0
  <2>1. run.pc = "loop" /\ ~run.dry
    BY <1>1, <1>3 DEF Serving
  <2>2. PICK u \in DueOf(run.chosen) : att[p].key = Reminder(u)
    BY <1>1, <1>3, <2>1 DEF Serving
  <2>3. u \in User /\ Due(u) # None
    BY <2>2 DEF DueOf, TypeOK
  <2>4. /\ mailed' = [mailed EXCEPT ![Reminder(u)][a] = @ + n]
        /\ run' = [run EXCEPT !.told = @ \union {u}]
    <3>1. Reminder(u)[1] = u
      BY DEF Reminder
    <3> HIDE DEF Reminder
    <3> QED BY <1>3, <2>2, <3>1 DEF Send
  <2>5. \A k \in Key, b \in Addr : k # Reminder(u) => mailed'[k][b] = mailed[k][b]
    BY <2>4 DEF TypeOK
  <2>6. \A k \in Key, b \in Addr : mailed'[k][b] > mailed[k][b] => k = Reminder(u)
    <3> SUFFICES ASSUME NEW k \in Key, NEW b \in Addr, mailed'[k][b] > mailed[k][b],
                        k # Reminder(u)
                 PROVE  FALSE
      OBVIOUS
    <3>1. mailed'[k][b] = mailed[k][b] /\ mailed[k][b] \in Nat
      BY <2>5 DEF TypeOK
    <3> HIDE DEF Reminder
    <3> QED BY <3>1
  <2>7. OnTime'
    <3>1. ASSUME NEW v \in User, NEW c \in Cycle, NEW s \in ReminderDays, NEW b \in Addr,
                 mailed'[<<v, c, s>>][b] > 0
          PROVE  c - today <= s /\ (mirror[v].expiry = c => mirror[v].daysLeft <= s)
      <4>1. <<v, c, s>> \in Key
        BY DEF Key
      <4>2. CASE <<v, c, s>> = Reminder(u)
        <5>1. v = u /\ c = mirror[u].expiry /\ s = Due(u)
          BY <4>2 DEF Reminder
        <5>2. mirror[u].daysLeft <= Due(u) /\ Due(u) \in Int /\ mirror[u].daysLeft \in Int
              /\ mirror[u].expiry \in Int /\ today \in Int /\ mirror[u].expiry # None
          <6>1. today \in Int
            BY DEF TypeOK
          <6>2. mirror[u].daysLeft <= Due(u) /\ Due(u) \in ReminderDays /\ mirror[u].daysLeft \in Int
                /\ mirror[u].expiry \in Cycle
            BY <2>3, DueIs
          <6> HIDE DEF Due
          <6> QED BY <6>1, <6>2, Days
        <5>3. mirror[u].expiry - today <= mirror[u].daysLeft
          BY <2>3, <5>2 DEF OnTime
        <5> HIDE DEF Due
        <5> QED BY <5>1, <5>2, <5>3
      <4>3. CASE <<v, c, s>> # Reminder(u)
        <5>1. mailed[<<v, c, s>>][b] > 0
          BY <2>5, <3>1, <4>1, <4>3
        <5> QED BY <5>1 DEF OnTime
      <4> QED BY <4>2, <4>3
    <3> QED BY <1>1, <3>1 DEF OnTime
  <2>8. Serving'
    <3>1. (\A us : DueOf(us)' = DueOf(us)) /\ \A v : Reminder(v)' = Reminder(v)
      BY <1>1 DEF DueOf, Due, Reminder
    <3>2. att'[Runner] # None /\ att'[Runner].key = att[Runner].key /\ att[Runner] # None
      BY <1>1, <1>3, AttemptAssumption
    <3>3. /\ run'.pc = "loop" /\ run'.left = run.left /\ run'.chosen = run.chosen
          /\ run'.told = run.told \union {u} /\ run'.dry = run.dry /\ run'.excluded = run.excluded
      BY <2>1, <2>4 DEF TypeOK
    <3> HIDE DEF DueOf, Reminder
    <3> QED BY <1>1, <2>1, <2>2, <3>1, <3>2, <3>3 DEF Serving
  <2> QED BY <2>3, <2>6, <2>7, <2>8
<1> QED BY <1>2, <1>3

LEMMA RecordServes ==
  ASSUME TypeOK, Serving, NEW p \in Sender, Record(p)
  PROVE  Serving'
<1>1. /\ att[p].key \in Key /\ att' = [att EXCEPT ![p] = None]
      /\ log' = [log EXCEPT ![att[p].key] = Row(p)] /\ Row(p).status # "none"
      /\ UNCHANGED <<mirror, run>>
  BY DEF Record, TypeOK, Attempting, Upsert, Row
<1>2. \A k \in Key : /\ log[k].status # "none" => log'[k].status # "none"
                     /\ k = att[p].key => log'[k].status # "none"
  BY <1>1 DEF TypeOK
<1>3. CASE p # Runner
  <2>1. att'[Runner] = att[Runner]
    BY <1>1, <1>3, Senders DEF TypeOK
  <2> QED BY <1>1, <1>2, <2>1, AsideServes
<1>4. CASE p = Runner
  <2>1. (\A us : DueOf(us)' = DueOf(us)) /\ \A v : Reminder(v)' = Reminder(v)
    BY <1>1 DEF DueOf, Due, Reminder
  <2>2. att'[Runner] = None
    BY <1>1, <1>4, Senders DEF TypeOK
  <2>3. \A u \in DueOf(run.chosen) : Reminder(u) \in Key
    BY DueIs DEF DueOf, TypeOK
  <2> HIDE DEF DueOf, Reminder
  <2> QED BY <1>1, <1>2, <1>4, <2>1, <2>2, <2>3 DEF Serving
<1> QED BY <1>3, <1>4

LEMMA ServesInit == Init => OnTime /\ Serving
<1> SUFFICES ASSUME Init PROVE OnTime /\ Serving
  OBVIOUS
<1>1. att[Runner] = None /\ run.pc = "idle" /\ run.told = {}
  BY Senders DEF Init, NoRun
<1>2. (\A u \in User : mirror[u].expiry = None) /\ \A k \in Key, a \in Addr : ~(mailed[k][a] > 0)
  BY DEF Init, NotSynced
<1> QED BY <1>1, <1>2 DEF OnTime, Serving, Key

LEMMA ServesStep ==
  TypeOK /\ TypeOK' /\ Balanced /\ OnTime /\ Serving /\ [Next]_vars => OnTime' /\ Serving'
<1> SUFFICES ASSUME TypeOK, TypeOK', Balanced, OnTime, Serving, [Next]_vars
             PROVE  OnTime' /\ Serving'
  OBVIOUS
<1>0. today \in Int /\ att \in [Sender -> Attempting \union {None}]
  BY DEF TypeOK
<1>1. ASSUME UNCHANGED <<mirror, mailed>>, today <= today' PROVE OnTime'
  BY <1>1, AsideOnTime
<1>2. CASE UNCHANGED vars \/ Tick \/ (\E u \in User : ChangePassword(u))
           \/ (\E u \in Toggled : SetExcluded(u))
           \/ (\E r \in Request, users \in SUBSET User : RequestForce(r, users))
           \/ (\E r \in Request, u \in User : ForceSkip(r, u))
  <2>1. UNCHANGED <<mirror, mailed, run, log, att>> /\ today <= today'
    BY <1>0, <1>2 DEF vars, Tick, ChangePassword, SetExcluded, RequestForce, ForceSkip, world
  <2> QED BY <1>1, <2>1, AsideServes
<1>3. CASE (\E r \in Request, u \in User : ForceTake(r, u))
           \/ (\E r \in Request, k \in Key : RequestRetry(r, k))
  <2>1. UNCHANGED <<mirror, mailed, run, log>> /\ today <= today' /\ att'[Runner] = att[Runner]
    BY <1>0, <1>3, Senders DEF ForceTake, RequestRetry, world
  <2> QED BY <1>1, <2>1, AsideServes
<1>4. CASE \E dry \in DryRun, reached \in SUBSET User : RunStart(dry, reached)
  BY <1>4, StartServes
<1>5. CASE RunTrim
  <2>1. UNCHANGED <<mirror, mailed>> /\ today <= today' /\ run' = [run EXCEPT !.pc = "trimmed"]
        /\ run.pc = "synced" /\ att' = att
    BY <1>0, <1>5 DEF RunTrim, world
  <2>2. run'.pc = "trimmed" /\ run'.told = run.told
    BY <2>1 DEF TypeOK
  <2> QED BY <1>1, <2>1, <2>2 DEF Serving
<1>6. CASE \E resolved \in SUBSET GroupRules : RunSelect(resolved)
  <2>1. UNCHANGED <<mirror, mailed>> /\ today <= today'
    BY <1>0, <1>6 DEF RunSelect, world
  <2> QED BY <1>1, <1>6, <2>1, SelectServes
<1>7. CASE \E u \in User : RunSkip(u) \/ RunTake(u)
  <2>1. UNCHANGED <<mirror, mailed>> /\ today <= today'
    BY <1>0, <1>7 DEF RunSkip, RunTake, world
  <2> QED BY <1>1, <1>7, <2>1, SkipServes, TakeServes
<1>8. CASE RunEnd
  <2>1. UNCHANGED <<mirror, mailed, att>> /\ today <= today' /\ run' = NoRun /\ att[Runner] = None
    BY <1>0, <1>8 DEF RunEnd, world
  <2> QED BY <1>1, <2>1, OverServes
<1>9. CASE \E p \in Sender, a \in Addr, n \in 0..Attempts, ok \in BOOLEAN : Send(p, a, n, ok)
  BY <1>9, SendServes
<1>10. ASSUME NEW p \in Sender, Record(p) PROVE OnTime' /\ Serving'
  <2>1. UNCHANGED <<mirror, mailed>> /\ today <= today'
    BY <1>0, <1>10 DEF Record, world
  <2> QED BY <1>1, <1>10, <2>1, RecordServes
<1>11. ASSUME NEW p \in Sender, DbError(p) PROVE OnTime' /\ Serving'
  <2>1. UNCHANGED <<mirror, mailed, log>> /\ today <= today' /\ att' = [att EXCEPT ![p] = None]
        /\ run' = (IF p = Runner THEN NoRun ELSE run)
    BY <1>0, <1>11 DEF DbError, world
  <2>2. CASE p = Runner
    BY <1>0, <1>1, <2>1, <2>2, Senders, OverServes
  <2>3. CASE p # Runner
    BY <1>0, <1>1, <2>1, <2>3, Senders, AsideServes
  <2> QED BY <2>2, <2>3
<1>12. CASE Crash
  <2>1. UNCHANGED <<mirror, mailed>> /\ today <= today' /\ att'[Runner] = None /\ run' = NoRun
    BY <1>0, <1>12, Senders DEF Crash, world
  <2> QED BY <1>1, <2>1, OverServes
<1> QED BY <1>2, <1>3, <1>4, <1>5, <1>6, <1>7, <1>8, <1>9, <1>10, <1>11, <1>12 DEF Next

LEMMA AlwaysServes == Spec => [](TypeOK /\ Balanced /\ OnTime /\ Serving)
<1>1. Init => OnTime /\ Serving
  BY ServesInit
<1>2. TypeOK /\ TypeOK' /\ Balanced /\ OnTime /\ Serving /\ [Next]_vars => OnTime' /\ Serving'
  BY ServesStep
<1> QED BY <1>1, <1>2, TypeCorrect, BooksBalance, PTL DEF Spec

(* However the directory, the rules, the history and the recipients change *)
(* while a run goes through its users one by one: it mails no more of them *)
(* than max_notify_count, and a dry run mails nobody.                      *)
THEOREM RunsStayWithinBrake == Spec => []RunWithinBrake
<1>1. TypeOK /\ Serving => RunWithinBrake
  <2> SUFFICES ASSUME TypeOK, Serving PROVE RunWithinBrake
    OBVIOUS
  <2>1. ASSUME NotifyCap > 0 PROVE Cardinality(run.told) <= NotifyCap
    <3>0. NotifyCap \in Nat
      BY SettingsAssumption
    <3>1. CASE run.told = {}
      BY <3>0, <3>1, FS_EmptySet
    <3>2. CASE run.told # {}
      <4>1. /\ run.told \subseteq DueOf(run.chosen)
            /\ Cardinality(DueOf(run.chosen)) <= NotifyCap
        BY <2>1, <3>2 DEF Serving
      <4>2. IsFiniteSet(DueOf(run.chosen))
        BY UserAssumption, FS_Subset DEF DueOf, TypeOK
      <4>3. IsFiniteSet(run.told) /\ Cardinality(run.told) <= Cardinality(DueOf(run.chosen))
        BY <4>1, <4>2, FS_Subset
      <4>4. Cardinality(run.told) \in Nat /\ Cardinality(DueOf(run.chosen)) \in Nat
        BY <4>2, <4>3, FS_CardinalityType
      <4> QED BY <3>0, <4>1, <4>3, <4>4
    <3> QED BY <3>1, <3>2
  <2> QED BY <2>1 DEF RunWithinBrake, Serving
<1> QED BY <1>1, AlwaysServes, PTL

(* Within one cycle the runs never send a stage after a more urgent one,   *)
(* whatever was missed, lost or put back in between and however stale the  *)
(* mirror they look at.                                                    *)
THEOREM RunsGetMoreUrgent == Spec => NeverLessUrgent
<1>1. ASSUME TypeOK, TypeOK', Balanced, OnTime, Serving, [Next]_vars,
             NEW u \in User, NEW c \in Cycle, NEW s \in ReminderDays, NEW a \in Addr,
             mailed'[<<u, c, s>>][a] > mailed[<<u, c, s>>][a],
             NEW t \in ReminderDays, NEW b \in Addr, t < s
      PROVE  mailed[<<u, c, t>>][b] = 0
  <2>1. <<u, c, s>> \in Key /\ <<u, c, t>> \in Key
    BY DEF Key
  <2>2. mailed \in [Key -> [Addr -> Nat]]
    BY <1>1 DEF TypeOK
  <2>3. mailed' # mailed
    BY <1>1, <2>1, <2>2
  <2>4. \E p \in Sender, d \in Addr, n \in 0..Attempts, ok \in BOOLEAN : Send(p, d, n, ok)
    BY <1>1, <2>3 DEF Next, vars, Tick, ChangePassword, SetExcluded, RunStart, RunTrim, RunSelect,
        RunSkip, RunTake, RunEnd, RequestForce, ForceSkip, ForceTake, RequestRetry, Record,
        DbError, Crash
  <2>5. PICK v \in User :
          /\ Due(v) # None
          /\ \A k \in Key, d \in Addr : mailed'[k][d] > mailed[k][d] => k = Reminder(v)
    BY <1>1, <2>3, <2>4, SendServes
  <2>6. u = v /\ c = mirror[u].expiry /\ s = Due(u)
    <3>1. <<u, c, s>> = Reminder(v)
      BY <1>1, <2>1, <2>5
    <3> QED BY <3>1 DEF Reminder
  <2>7. \A d \in ReminderDays : mirror[u].daysLeft <= d => s <= d
    BY <1>1, <2>5, <2>6, DueIs
  <2>8. ~(mailed[<<u, c, t>>][b] > 0)
    <3>1. t \in Int /\ s \in Int
      BY Days
    <3> QED BY <1>1, <2>6, <2>7, <3>1 DEF OnTime
  <2> QED BY <2>1, <2>2, <2>8
<1>2. TypeOK /\ TypeOK' /\ Balanced /\ OnTime /\ Serving /\ [Next]_vars =>
        \A u \in User, c \in Cycle, s \in ReminderDays, a \in Addr :
          mailed'[<<u, c, s>>][a] > mailed[<<u, c, s>>][a]
            => \A t \in ReminderDays, b \in Addr :
                 t < s => mailed[<<u, c, t>>][b] = 0
  BY <1>1
<1> QED BY <1>2, AlwaysServes, TypeCorrect, PTL DEF Spec, NeverLessUrgent

(* A run that is not cut off has a row for everybody it found due, unless  *)
(* a rule excludes them or nobody can be reached - no operator can make    *)
(* one disappear between the send and the end of the run.                  *)
THEOREM FinishedRunsLeaveTraces == Spec => FinishedRunLeavesTrace
<1>1. ASSUME TypeOK, Serving, [Next]_vars, run.pc = "loop", run'.pc = "idle", faults' = faults,
             ~run.dry, NEW u \in run.chosen \ run.excluded, Due(u) # None, Recipients[u] # {}
      PROVE  log[Reminder(u)].status # "none"
  <2>1. RunEnd
    <3>1. run' # run /\ run.pc # "idle"
      BY <1>1
    <3>2. \A u1 \in User : ~RunSkip(u1) /\ ~RunTake(u1)
      BY <1>1 DEF RunSkip, RunTake, TypeOK
    <3>3. \A p \in Sender, a \in Addr, n \in 0..Attempts, ok \in BOOLEAN : ~Send(p, a, n, ok)
      BY <1>1, <3>1 DEF Send, TypeOK
    <3>4. \A p \in Sender : ~DbError(p)
      BY <1>1 DEF DbError, TypeOK
    <3>5. ~Crash
      BY <1>1 DEF Crash, TypeOK
    <3> QED BY <1>1, <3>1, <3>2, <3>3, <3>4, <3>5
            DEF Next, vars, Tick, ChangePassword, SetExcluded, RunStart, RunTrim, RunSelect,
            RequestForce, ForceSkip, ForceTake, RequestRetry, Record
  <2>2. run.left = {} /\ att[Runner] = None
    BY <2>1 DEF RunEnd
  <2>3. u \in DueOf(run.chosen)
    BY <1>1 DEF DueOf
  <2> HIDE DEF Reminder, DueOf
  <2> QED BY <1>1, <2>2, <2>3 DEF Serving
<1>2. TypeOK /\ Serving /\ [Next]_vars =>
        (run.pc = "loop" /\ run'.pc = "idle" /\ faults' = faults /\ ~run.dry
          => \A u \in run.chosen \ run.excluded :
               LET s == DueStage(mirror[u].daysLeft, ReminderDays, {})
               IN  s # None /\ Recipients[u] # {}
                     => log[<<u, mirror[u].expiry, s>>].status # "none")
  BY <1>1 DEF Due, Reminder
<1> QED BY <1>2, AlwaysServes, PTL DEF Spec, FinishedRunLeavesTrace
=============================================================================
