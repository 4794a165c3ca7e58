----------------------------- MODULE MCSessions -----------------------------
(* A small instance of Sessions for TLC.                                    *)
EXTENDS Sessions, TLC

\* Requests are interchangeable, and so are the tokens of each kind: no
\* property tells one from another.
Symmetry == Permutations(Requests) \cup Permutations(ConflictTokens)
            \cup Permutations(TwoFactorTokens)
=============================================================================
