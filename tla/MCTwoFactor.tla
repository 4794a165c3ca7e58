----------------------------- MODULE MCTwoFactor -----------------------------
(***************************************************************************)
(* TwoFactor for model checking.  The count of wrong codes meets the       *)
(* enrolment only where it is forgotten: behaviours with many wrong codes  *)
(* are explored without changes of the factor, and those with changes are  *)
(* shorter.                                                                *)
(***************************************************************************)
EXTENDS TwoFactor

CONSTANTS
  MaxMixed,      \* bound: requests and acts in a behaviour that changes the factor
  MaxFailures    \* bound: wrong codes in such a behaviour

ASSUME MixedNat == MaxMixed \in Nat /\ MaxFailures \in Nat

Failures(n) == attempts > n
Changing == ~enabled \/ secret # 1 \/ enforced \/ \E c \in codes : c.id # 1

Bounded == Changing => begun <= MaxMixed /\ ~Failures(MaxFailures)

MCNext == Next /\ Bounded'

MCSpec == Init /\ [][MCNext]_vars
=============================================================================
