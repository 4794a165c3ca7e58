----------------------------- MODULE MCPasswords -----------------------------
(***************************************************************************)
(* Passwords for model checking.  The count of failed logins and the       *)
(* password are columns that only AdminSets writes together: behaviours    *)
(* with many failures are explored without changes of the password, and    *)
(* those with changes are shorter.                                         *)
(***************************************************************************)
EXTENDS Passwords

CONSTANTS
  MaxMixed,      \* bound: requests and acts in a behaviour that changes the password
  MaxFailures    \* bound: failed logins in such a behaviour

ASSUME MixedNat == MaxMixed \in Nat /\ MaxFailures \in Nat

Failures(n) == attempts > n \/ guesses > n
Changing == how # "initial" \/ epoch > 0 \/ reset # NoLink

Bounded == Changing => begun <= MaxMixed /\ ~Failures(MaxFailures)

MCNext == Next /\ Bounded'

MCSpec == Init /\ [][MCNext]_vars
=============================================================================
