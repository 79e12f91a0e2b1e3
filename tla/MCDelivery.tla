------------------------------ MODULE MCDelivery ------------------------------
(* Instances of Delivery for TLC. *)
EXTENDS Delivery, TLC

CONSTANTS u1, u2, a1, a2, r1

(* One user with two addresses (recipient strategy "both"). *)
OneUser == u1 :> {a1, a2}

(* One user with one address. *)
OneMailbox == u1 :> {a1}

(* Two users, one address each. *)
TwoUsers == u1 :> {a1} @@ u2 :> {a1}

(* A ratio brake at one half, and none. *)
Half    == <<1, 2>>
NoRatio == <<0, 1>>

(* The last password change lies one day back. *)
Yesterday == {-1}

(* It lies two days back, so that the password expires today, or none. *)
Staggered == {-2, 0}

(* No action and no property tells one address of a user from another. *)
Addresses == Permutations(Addr)
=============================================================================
