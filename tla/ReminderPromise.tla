---------------------------- MODULE ReminderPromise ----------------------------
(***************************************************************************)
(* What the scheduled runs promise to a user's mailboxes, without a word   *)
(* about how: for one reminder (a user, an expiry cycle and a stage) the   *)
(* first mail to an address is free, and every further mail to the same    *)
(* address uses up a waiver.  With no waiver ever issued this is the       *)
(* README's "sent once per user + stage + expiry cycle".                   *)
(***************************************************************************)
EXTENDS Integers

CONSTANTS Key,      \* reminders
          Addr,     \* mail addresses
          Attempts  \* tries of one mail

VARIABLES copies,  \* mails a run put out, per reminder and address
          waivers  \* waivers issued, per reminder

Init ==
  /\ copies = [k \in Key |-> [a \in Addr |-> 0]]
  /\ waivers = [k \in Key |-> 0]

(* One mail, tried until an answer arrives: each repetition brings its own *)
(* waiver, and the mail itself needs one that is unused, or none at all if  *)
(* it is the first.                                                        *)
Mail(k, a) ==
  \E n \in 1..Attempts :
    /\ copies[k][a] <= waivers[k]
    /\ copies' = [copies EXCEPT ![k][a] = @ + n]
    /\ waivers' = [waivers EXCEPT ![k] = @ + (n - 1)]

Waive ==
  /\ waivers' \in [Key -> Nat]
  /\ \A k \in Key : waivers'[k] \in {waivers[k], waivers[k] + 1}
  /\ UNCHANGED copies

Next == Waive \/ \E k \in Key, a \in Addr : Mail(k, a)

Spec == Init /\ [][Next]_<<copies, waivers>>
=============================================================================
