------------------------------ MODULE RbacClaims ------------------------------
(***************************************************************************)
(* What RbacService says when a publication fails, stated over RbacCache   *)
(* with history variables and no behaviour of its own.                     *)
(***************************************************************************)
EXTENDS RbacCache

VARIABLES
  missed,   \* outdated entries of other processes, published to nobody
  checked   \* those of them that a sweep of the process began after

claimVars == <<vars, missed, checked>>

ClaimInit == Init /\ missed = {} /\ checked = {}

OnlyChange(a) == \A b \in Changes \ {a} : op[b] # Idle => op[b].role # op[a].role

LostBy(a) ==
  IF Publish(a) /\ inbox' = inbox /\ OnlyChange(a)
    THEN {p \in StalePairs \ excused : p[1] # op[a].at /\ p[2] = op[a].role}
    ELSE {}

StillStale(S) == {p \in S : Stale(p[1], p[2])'}

ClaimNext ==
  /\ Next
  /\ ~ \E a \in Changes : IncrFails(a)
  /\ missed' = StillStale(missed \cup UNION {LostBy(a) : a \in Changes})
  /\ checked' = StillStale(checked \cup
       {p \in missed : swept[p[1]] = None /\ swept'[p[1]] # None})

ClaimSpec == ClaimInit /\ [][ClaimNext]_claimVars

-----------------------------------------------------------------------------
\* publish logs, when both attempts failed: "Other instances will catch up via
\* version sweep."  As long as Redis counts every change: when a sweep that began
\* after the failure has ended, the outdated entry is gone.
SweepCatchesUp ==
  [][\A i \in Instances :
       SweepCompares(i) => \A p \in checked : p[1] = i => ~ Stale(p[1], p[2])']_claimVars
=============================================================================
