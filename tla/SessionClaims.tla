---------------------------- MODULE SessionClaims ----------------------------
(***************************************************************************)
(* What a comment of the session code promises, stated over Sessions. The  *)
(* claim needs to know more of the past than Sessions keeps, so this       *)
(* module adds history variables and no behaviour.                         *)
(***************************************************************************)
EXTENDS Sessions

VARIABLES
  presented,  \* refresh tokens presented so far
  replayed,   \* some refresh token was presented twice
  kept        \* the login a logout-all or password change promised to keep

claimVars == <<vars, presented, replayed, kept>>

ClaimInit ==
  /\ Init
  /\ presented = {}
  /\ replayed = FALSE
  /\ kept = 0

Presents(r, s) ==
  /\ At(r, "idle")
  /\ req'[r].pc \in {"theft", "expired", "rotate"}
  /\ req'[r].sid = s
PresentedNow == {s \in SessionIds : \E r \in Requests : Presents(r, s)}

Remember ==
  /\ presented' = presented \cup PresentedNow
  /\ replayed' = (replayed \/ PresentedNow \cap presented # {})

\* A deletion of all sessions but the caller's commits, and nothing else is
\* under way.
Keeps(r) ==
  /\ DeletionCommits(r)
  /\ req[r].sid # 0
  /\ \A q \in Requests \ {r} : At(q, "idle")

ClaimNext ==
  /\ Next
  /\ \/ \E r \in Requests : Keeps(r) /\ kept' = family[req[r].sid]
     \/ (\A r \in Requests : ~ Keeps(r)) /\ UNCHANGED kept
  /\ Remember

ClaimSpec == ClaimInit /\ [][ClaimNext]_claimVars

-----------------------------------------------------------------------------

\* The theft response commits its deletion.
TheftRevokes(r) == At(r, "revoke") /\ DeletionCommits(r)

\* changePassword's comment: "The kept session will re-warm from DB on the next
\* request": with every client presenting each refresh token once, the theft
\* response never takes the kept session away.
KeptSessionStays ==
  [][\A r \in Requests :
       TheftRevokes(r) /\ ~ replayed /\ kept # 0 /\ Alive(kept)
         => Alive(kept)']_claimVars
=============================================================================
