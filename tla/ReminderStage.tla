---------------------------- MODULE ReminderStage ----------------------------
(***************************************************************************)
(* The pure arithmetic of PwNotify: when a password expires, which         *)
(* reminder stage is due, which stage a forced send takes, and the two     *)
(* brakes that stop a suspiciously large send or a suspiciously large      *)
(* deletion (services/expiry.py, runner.py, retention.py).                 *)
(*                                                                         *)
(* A calendar date is an integer day.  The list reminder_days is only ever *)
(* searched for members and minima, so it is a set here.                   *)
(***************************************************************************)
EXTENDS Integers, FiniteSetsExt

CONSTANTS
  None,       \* Python's None: no date, no stage
  SendFloor,  \* runner._MASS_SEND_MIN_COUNT: fewer due users never trip the ratio
  PurgeFloor  \* retention._MIN_COUNT: fewer rows never trip the purge brake

ASSUME NoneAssumption  == None \notin Int
ASSUME FloorAssumption == SendFloor \in Nat /\ PurgeFloor \in Nat

-----------------------------------------------------------------------------
(* What the sync stores about one account.  A policy that disables expiry, *)
(* a missing validity or one that is not positive means "never"; a missing *)
(* date of change means "unknown", which is not the same thing.            *)
ComputeExpiry(changed, validity, disabled, now) ==
  IF disabled \/ validity = None \/ validity <= 0
  THEN [never |-> TRUE, expiry |-> None, daysLeft |-> None]
  ELSE IF changed = None
  THEN [never |-> FALSE, expiry |-> None, daysLeft |-> None]
  ELSE [never |-> FALSE, expiry |-> changed + validity,
        daysLeft |-> (changed + validity) - now]

(* The stages whose threshold the remaining days have reached. *)
Reached(daysLeft, days) == {d \in days : daysLeft <= d}

(* The stage that fits the remaining days: the smallest reached one. *)
TargetStage(daysLeft, days) == Min(Reached(daysLeft, days))

(* Mutant: the next stage not sent yet, instead of nothing. *)
DueStageMutNext(daysLeft, days, sent) ==
  IF daysLeft = None \/ Reached(daysLeft, days) \ sent = {}
  THEN None ELSE Min(Reached(daysLeft, days) \ sent)

DueStage(daysLeft, days, sent) ==
  IF \/ daysLeft = None
     \/ Reached(daysLeft, days) = {}
     \/ TargetStage(daysLeft, days) \in sent
  THEN None
  ELSE TargetStage(daysLeft, days)

(* Mutant: 0 when no stage is reached yet. *)
ForcedStageMutZero(daysLeft, days) ==
  IF Reached(daysLeft, days) # {} THEN TargetStage(daysLeft, days) ELSE 0

(* A manual send ignores what was sent: the stage that fits now, or the    *)
(* earliest stage when none is reached yet.                                *)
ForcedStage(daysLeft, days) ==
  IF Reached(daysLeft, days) # {} THEN TargetStage(daysLeft, days)
  ELSE IF days # {} THEN Max(days) ELSE 0

-----------------------------------------------------------------------------
(* Mutant: the absolute cap only above the floor of the ratio brake. *)
MassSendBlockedMutFloor(due, checked, ratio, cap) ==
  /\ due >= SendFloor
  /\ checked # 0
  /\ \/ cap > 0 /\ due > cap
     \/ ratio[1] > 0 /\ due * ratio[2] > checked * ratio[1]

(* A ratio is a pair <<numerator, denominator>>; 0 switches a brake off.    *)
MassSendBlocked(due, checked, ratio, cap) ==
  /\ due # 0
  /\ checked # 0
  /\ \/ cap > 0 /\ due > cap
     \/ /\ ratio[1] > 0
        /\ due >= SendFloor
        /\ due * ratio[2] > checked * ratio[1]

(* More than half of the rows at once is a fault, not people leaving. *)
PurgeBlocked(toDelete, total) ==
  /\ toDelete > 0
  /\ total > 0
  /\ toDelete >= PurgeFloor
  /\ 2 * toDelete > total
=============================================================================
