-------------------------------- MODULE MCRbac --------------------------------
(***************************************************************************)
(* RbacCache for model checking.  The processes are interchangeable, also  *)
(* in the properties, so the first change may be taken to be made on one   *)
(* given process: unlike a SYMMETRY this is sound for liveness as well.    *)
(***************************************************************************)
EXTENDS RbacCache

CONSTANT First   \* the process of the first change

ASSUME FirstIsInstance == First \in Instances

FirstChange == op'[1] # Idle => begun > 0 \/ op'[1].at = First

MCSpec == Init /\ [][Next /\ FirstChange]_vars /\ Fairness
=============================================================================
