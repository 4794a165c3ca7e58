------------------------------ MODULE MCAccounts -------------------------------
(* Accounts and the filter its queries go through, for TLC.                      *)
EXTENDS Accounts, SoftDeleteFilter, TLC

Symmetry == Permutations(Requests)

\* What the extension is for, on wheres with up to two further conditions: an
\* operation reaches the rows its caller asked for that are not in the trash, those
\* in the trash only when the caller says so, and nothing is ever deleted twice.
TrashHidden == [][DeletesOnce /\ ReachesAsAsked]_vars
=============================================================================
