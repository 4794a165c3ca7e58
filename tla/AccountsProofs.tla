---------------------------- MODULE AccountsProofs -----------------------------
(* Proofs about Accounts, for any set of requests and any number of tokens.   *)
EXTENDS MCAccounts, TLAPS

\* There is nothing to trash before the user exists.
TrashedExists == trashed => status # "absent"

Control == TypeOK /\ StatusFitsInvitation /\ TrashedExists

\* Ending a request, or beginning one with proper locals, keeps the type of req.
LEMMA RequestsTyped ==
  ASSUME TypeOK, NEW r \in Requests, NEW l \in Locals
  PROVE  [req EXCEPT ![r] = l] \in [Requests -> Locals]
BY DEF TypeOK

LEMMA IdleTyped == Idle \in Locals
BY DEF Idle, Locals, Steps, NoToken

\* The first half of an operation only stores locals of the right type.
LEMMA DecisionTyped ==
  ASSUME TypeOK, NEW r \in Requests, Decision(r)
  PROVE  UNCHANGED <<user, invitation>> /\ req' \in [Requests -> Locals]
<1>1. ASSUME NEW l \in Locals, Decide(r, l)
      PROVE  UNCHANGED <<user, invitation>> /\ req' \in [Requests -> Locals]
  BY <1>1, RequestsTyped DEF Decide
<1>2. \A pc \in Steps, c \in BOOLEAN : [Idle EXCEPT !.pc = pc, !.clean = c] \in Locals
  BY DEF Idle, Locals, NoToken
<1>3. \A pc \in Steps : [Idle EXCEPT !.pc = pc] \in Locals
  BY DEF Idle, Locals, NoToken
<1>4. CASE Approve(r) \/ Reject(r) \/ Unreject(r) \/ Unsuspend(r) \/ Reactivate(r) \/ Resend(r) \/ Revoke(r)
  BY <1>1, <1>3, <1>4 DEF Approve, Reject, Unreject, Unsuspend, Reactivate, Resend, Revoke, Steps
<1>5. CASE Suspend(r) \/ Deactivate(r)
  BY <1>1, <1>2, <1>5 DEF Suspend, Deactivate, CleanIfSuspended, CleanIfDeactivated, Steps, TypeOK
<1>6. CASE \E pc \in {"switch", "update"} : SwitchProvider(r, pc)
  <2>1. \A pc \in Steps, e, c \in BOOLEAN :
          [Idle EXCEPT !.pc = pc, !.enable = e, !.clean = c] \in Locals
    BY DEF Idle, Locals, NoToken
  <2>2. credential \in BOOLEAN /\ (~ credential) \in BOOLEAN
    BY DEF TypeOK
  <2>3. QED
    BY <1>1, <1>6, <2>1, <2>2 DEF SwitchProvider, Steps
<1>7. CASE Accept(r)
  <2>1. [Idle EXCEPT !.pc = "accept", !.token = token] \in Locals
    BY DEF Idle, Locals, Steps, TypeOK
  <2>2. QED
    BY <1>1, <1>7, <2>1 DEF Accept
<1>8. QED
  BY <1>4, <1>5, <1>6, <1>7 DEF Decision

\* The second half ends the request, one way or the other.
LEMMA OutcomeTyped ==
  ASSUME TypeOK, NEW r \in Requests, Outcome(r)
  PROVE  req' \in [Requests -> Locals]
<1>1. Finish(r)
  BY DEF Outcome, ApproveUser, RejectUser, UnrejectToPending, UnrejectToActive, SuspendUser,
         DeactivateUser, UnsuspendUser, ReactivateUser, SwitchAuthProvider, ApplyProviderSwitch,
         ResendInvite, RevokeInvite, AcceptInvite, RequestDies, Write
<1>2. QED
  BY <1>1, IdleTyped, RequestsTyped DEF Finish

\* Every outcome keeps the two rows typed and in agreement.
LEMMA OutcomeKeepsControl ==
  ASSUME Control, NEW r \in Requests, Outcome(r)
  PROVE  Control'
<1>0. req' \in [Requests -> Locals]
  BY OutcomeTyped DEF Control
<1>1. CASE ApproveUser(r) \/ UnrejectToActive(r) \/ UnsuspendUser(r) \/ ReactivateUser(r)
  <2>1. ASSUME NEW pc, NEW from, NEW credentials \in {BOOLEAN, {TRUE}}, Write(r, pc, from, "ACTIVE", credentials)
        PROVE  Control'
    BY <1>0, <2>1 DEF Control, TypeOK, StatusFitsInvitation, TrashedExists, Write, Matches, Statuses, invitation
  <2>2. QED
    BY <1>1, <2>1 DEF ApproveUser, UnrejectToActive, UnsuspendUser, ReactivateUser
<1>2. CASE RejectUser(r) \/ UnrejectToPending(r)
  <2>1. CASE RejectUser(r)
    BY <1>0, <2>1 DEF Control, TypeOK, StatusFitsInvitation, TrashedExists, RejectUser, Write,
                      Matches, Statuses, invitation
  <2>2. CASE UnrejectToPending(r)
    BY <1>0, <2>2 DEF Control, TypeOK, StatusFitsInvitation, TrashedExists, UnrejectToPending, Write,
                      Matches, Statuses, invitation
  <2>3. QED
    BY <1>2, <2>1, <2>2
<1>3. CASE SuspendUser(r) \/ DeactivateUser(r)
  <2>0. (secondFactor /\ ~ req[r].clean) \in BOOLEAN
    OBVIOUS
  <2>1. CASE SuspendUser(r)
    BY <1>0, <2>0, <2>1 DEF Control, TypeOK, StatusFitsInvitation, TrashedExists, SuspendUser,
                      RemoveSecondFactor, Matches, Statuses, invitation, user
  <2>2. CASE DeactivateUser(r)
    BY <1>0, <2>0, <2>2 DEF Control, TypeOK, StatusFitsInvitation, TrashedExists, DeactivateUser,
                      RemoveSecondFactor, Matches, Statuses, invitation, user
  <2>3. QED
    BY <1>3, <2>1, <2>2
<1>4. CASE SwitchAuthProvider(r)
  <2>1. req[r].enable \in BOOLEAN
    BY DEF Control, TypeOK, Locals
  <2>2. QED
    BY <1>0, <1>4, <2>1 DEF Control, TypeOK, StatusFitsInvitation, TrashedExists, SwitchAuthProvider,
                            RemoveSecondFactor, Statuses, invitation, user
<1>5. CASE ApplyProviderSwitch(r)
  <2>1. req[r].enable \in BOOLEAN
    BY DEF Control, TypeOK, Locals
  <2>2. QED
    BY <1>0, <1>5, <2>1 DEF Control, TypeOK, StatusFitsInvitation, TrashedExists, ApplyProviderSwitch,
                            RemoveSecondFactor, invitation
<1>6. CASE ResendInvite(r)
  BY <1>0, <1>6, ConstantsAssumption
     DEF Control, TypeOK, StatusFitsInvitation, TrashedExists, ResendInvite, Matches, Statuses, InviteStatuses,
         Tokens, NoToken, invitation
<1>7. CASE RevokeInvite(r) \/ AcceptInvite(r)
  BY <1>0, <1>7 DEF Control, TypeOK, StatusFitsInvitation, TrashedExists, RevokeInvite, AcceptInvite, Matches,
                    Statuses, InviteStatuses
<1>8. CASE RequestDies(r)
  BY <1>0, <1>8 DEF Control, TypeOK, StatusFitsInvitation, TrashedExists, RequestDies, user, invitation
<1>9. QED
  BY <1>1, <1>2, <1>3, <1>4, <1>5, <1>6, <1>7, <1>8 DEF Outcome

LEMMA NextKeepsControl == Control /\ [Next]_vars => Control'
<1> SUFFICES ASSUME Control, [Next]_vars PROVE Control'
  OBVIOUS
<1>1. CASE Register \/ SoftDelete \/ RestoreUser \/ ChangeSecondFactor
  BY <1>1 DEF Control, TypeOK, StatusFitsInvitation, TrashedExists, Register, SoftDelete, RestoreUser,
              ChangeSecondFactor, Matches, Statuses, invitation
<1>2. CASE SendInvite
  BY <1>2, ConstantsAssumption
     DEF Control, TypeOK, StatusFitsInvitation, TrashedExists, SendInvite, Statuses, InviteStatuses, Tokens, NoToken
<1>3. ASSUME NEW r \in Requests, Decision(r)
      PROVE  Control'
  BY <1>3, DecisionTyped DEF Control, TypeOK, StatusFitsInvitation, TrashedExists, user, invitation
<1>4. ASSUME NEW r \in Requests, Outcome(r)
      PROVE  Control'
  BY <1>4, OutcomeKeepsControl
<1>5. CASE UNCHANGED vars
  BY <1>5 DEF Control, TypeOK, StatusFitsInvitation, TrashedExists, vars, user, invitation
<1>6. QED
  BY <1>1, <1>2, <1>3, <1>4, <1>5 DEF Next

LEMMA ControlHolds == Spec => []Control
<1>1. Init => Control
  <2> SUFFICES ASSUME Init PROVE Control
    OBVIOUS
  <2>1. nextToken \in 1..MaxToken + 1
    BY ConstantsAssumption DEF Init
  <2>2. req \in [Requests -> Locals]
    BY IdleTyped DEF Init
  <2>3. /\ status \in Statuses /\ trashed \in BOOLEAN /\ credential \in BOOLEAN /\ secondFactor \in BOOLEAN
        /\ invite \in InviteStatuses /\ token \in Tokens \union {NoToken}
    BY DEF Init, Statuses, InviteStatuses
  <2>4. StatusFitsInvitation
    BY DEF Init, StatusFitsInvitation
  <2>5. QED
    BY <2>1, <2>2, <2>3, <2>4 DEF Init, Control, TypeOK, TrashedExists
<1>2. QED
  BY <1>1, NextKeepsControl, PTL DEF Spec

-----------------------------------------------------------------------------

\* The account stays well typed.
THEOREM TypesKept == Spec => []TypeOK
<1>1. Control => TypeOK
  BY DEF Control
<1>2. QED
  BY <1>1, ControlHolds, PTL

\* The user's status and its invitation agree, whatever reviews, invitations,
\* switches and restorations interleave.
THEOREM StatusAgrees == Spec => []StatusFitsInvitation
<1>1. Control => StatusFitsInvitation
  BY DEF Control
<1>2. QED
  BY <1>1, ControlHolds, PTL

\* No request that is still running when an invitation is accepted undoes the
\* acceptance or repeats it: by the agreement, the status of the user refuses it.
THEOREM AcceptanceStands == Spec => AcceptanceIsFinal
<1> DEFINE Stands == invite = "ACCEPTED" =>
             /\ invite' = "ACCEPTED"
             /\ \A r \in Requests : req[r].pc = "accept" /\ req'[r].pc = "idle" => UNCHANGED user
<1>1. Control /\ [Next]_vars => Stands
  <2> SUFFICES ASSUME Control, [Next]_vars, invite = "ACCEPTED"
               PROVE  /\ invite' = "ACCEPTED"
                      /\ \A r \in Requests : req[r].pc = "accept" /\ req'[r].pc = "idle" => UNCHANGED user
    OBVIOUS
  <2>0. status \notin {"absent", "PENDING", "REJECTED", "INVITED", "REVOKED"}
    BY DEF Control, StatusFitsInvitation
  <2>1. ~ Register /\ ~ SendInvite
    BY <2>0 DEF Register, SendInvite
  <2>2. CASE SoftDelete \/ RestoreUser \/ ChangeSecondFactor
    BY <2>2 DEF SoftDelete, RestoreUser, ChangeSecondFactor, invitation
  <2>3. ASSUME NEW r \in Requests, Decision(r)
        PROVE  UNCHANGED <<user, invitation>>
    BY <2>3, DecisionTyped DEF Control
  <2>4. ASSUME NEW r \in Requests, Outcome(r), req[r].pc # "accept" \/ RequestDies(r)
        PROVE  invite' = "ACCEPTED"
    BY <2>0, <2>4 DEF Outcome, ApproveUser, RejectUser, UnrejectToPending, UnrejectToActive, SuspendUser,
         DeactivateUser, UnsuspendUser, ReactivateUser, SwitchAuthProvider, ApplyProviderSwitch,
         ResendInvite, RevokeInvite, AcceptInvite, RequestDies, Write, Matches, invitation
  <2>5. ASSUME NEW r \in Requests, Outcome(r), req[r].pc = "accept"
        PROVE  UNCHANGED <<user, invite>>
    BY <2>0, <2>5 DEF Outcome, ApproveUser, RejectUser, UnrejectToPending, UnrejectToActive, SuspendUser,
         DeactivateUser, UnsuspendUser, ReactivateUser, SwitchAuthProvider, ApplyProviderSwitch,
         ResendInvite, RevokeInvite, AcceptInvite, RequestDies, Write, Matches, invitation, user
  <2>6. ASSUME NEW r \in Requests, Outcome(r), NEW q \in Requests, q # r
        PROVE  req'[q] = req[q]
    BY <2>6 DEF Control, TypeOK, Finish, Outcome, ApproveUser, RejectUser, UnrejectToPending, UnrejectToActive,
         SuspendUser, DeactivateUser, UnsuspendUser, ReactivateUser, SwitchAuthProvider, ApplyProviderSwitch,
         ResendInvite, RevokeInvite, AcceptInvite, RequestDies, Write
  <2>7. invite' = "ACCEPTED"
    <3>1. CASE UNCHANGED vars
      BY <3>1 DEF vars, invitation
    <3>2. ASSUME NEW r \in Requests, Decision(r) \/ Outcome(r)
          PROVE  invite' = "ACCEPTED"
      BY <2>3, <2>4, <2>5, <3>2 DEF invitation
    <3>3. QED
      BY <2>1, <2>2, <3>1, <3>2 DEF Next, invitation
  <2>8. ASSUME NEW q \in Requests, req[q].pc = "accept", req'[q].pc = "idle"
        PROVE  UNCHANGED user
    <3>1. CASE UNCHANGED vars
      BY <3>1 DEF vars
    <3>2. CASE SoftDelete \/ RestoreUser \/ ChangeSecondFactor
      BY <2>8, <3>2 DEF SoftDelete, RestoreUser, ChangeSecondFactor
    <3>3. ASSUME NEW r \in Requests, Decision(r)
          PROVE  UNCHANGED user
      BY <2>3, <3>3
    <3>4. ASSUME NEW r \in Requests, Outcome(r)
          PROVE  UNCHANGED user
      <4>1. q = r
        BY <2>6, <2>8, <3>4
      <4>2. QED
        BY <2>5, <2>8, <3>4, <4>1
    <3>5. QED
      BY <2>1, <3>1, <3>2, <3>3, <3>4 DEF Next
  <2>9. QED
    BY <2>7, <2>8
<1>2. QED
  BY <1>1, ControlHolds, PTL DEF Spec, AcceptanceIsFinal

\* A decision made before the user was moved to the trash changes nothing in it.
THEOREM TrashIsFrozen == Spec => TrashedUntouched
<1>1. Control /\ [Next]_vars => (trashed /\ trashed' => UNCHANGED <<user, invitation>>)
  <2> SUFFICES ASSUME Control, [Next]_vars, trashed, trashed'
               PROVE  UNCHANGED <<user, invitation>>
    OBVIOUS
  <2>1. CASE Register \/ SendInvite \/ SoftDelete \/ RestoreUser \/ ChangeSecondFactor
    BY <2>1 DEF Control, TrashedExists, Register, SendInvite, SoftDelete, RestoreUser, ChangeSecondFactor, Matches
  <2>2. ASSUME NEW r \in Requests, Decision(r)
        PROVE  UNCHANGED <<user, invitation>>
    BY <2>2, DecisionTyped DEF Control
  <2>3. ASSUME NEW r \in Requests, Outcome(r)
        PROVE  UNCHANGED <<user, invitation>>
    BY <2>3 DEF Outcome, ApproveUser, RejectUser, UnrejectToPending, UnrejectToActive, SuspendUser,
         DeactivateUser, UnsuspendUser, ReactivateUser, SwitchAuthProvider, ApplyProviderSwitch,
         ResendInvite, RevokeInvite, AcceptInvite, RequestDies, Write, Matches, invitation, user
  <2>4. CASE UNCHANGED vars
    BY <2>4 DEF vars
  <2>5. QED
    BY <2>1, <2>2, <2>3, <2>4 DEF Next
<1>2. QED
  BY <1>1, ControlHolds, PTL DEF Spec, TrashedUntouched

-----------------------------------------------------------------------------
(* The filter every query goes through *)

\* Wheres with any number of further conditions.
AnyWhere == {Where(flag, rest, and) : flag \in Flags, rest \in SUBSET Rows, and \in Seq(Conditions)}

Asking(w) == w.rest \in SUBSET Rows /\ w.and \in Seq(Conditions)

LEMMA WhereParts ==
  ASSUME NEW w \in AnyWhere
  PROVE  /\ Asking(w) /\ w.isDeleted \in Flags
         /\ \A flag : /\ [w EXCEPT !.isDeleted = flag].isDeleted = flag
                      /\ [w EXCEPT !.isDeleted = flag].rest = w.rest
                      /\ [w EXCEPT !.isDeleted = flag].and = w.and
         /\ \A and : /\ [w EXCEPT !.and = and].isDeleted = w.isDeleted
                     /\ [w EXCEPT !.and = and].rest = w.rest
                     /\ [w EXCEPT !.and = and].and = and
BY DEF AnyWhere, Where, Asking

\* Further conditions say nothing of isDeleted.
LEMMA Conditional ==
  ASSUME NEW w, Asking(w), NEW r \in Rows, NEW i \in DOMAIN w.and
  PROVE  r \in w.and[i].rest \cap Flagged(w.and[i].isDeleted) <=> r \in w.and[i].rest
<1>1. w.and[i] \in Conditions
  BY DEF Asking
<1> QED
  BY <1>1 DEF Conditions, Where, Flagged

LEMMA ReachesDirectly ==
  ASSUME NEW w, Asking(w)
  PROVE  Reaches(w) = AskedFor(w) \cap Flagged(w.isDeleted)
BY Conditional DEF Reaches, AskedFor, Asking

\* With the clause that the row is not in the trash at the end of its AND.
LEMMA ReachesViaAnd ==
  ASSUME NEW w, Asking(w), NEW v,
         v.isDeleted = w.isDeleted, v.rest = w.rest, v.and = Append(w.and, NotTrashed)
  PROVE  Reaches(v) = (AskedFor(w) \cap Flagged(w.isDeleted)) \ Trashed
<1>1. /\ Len(w.and) \in Nat /\ DOMAIN w.and = 1..Len(w.and)
      /\ DOMAIN v.and = 1..Len(w.and) + 1
      /\ \A i \in DOMAIN w.and : v.and[i] = w.and[i]
      /\ v.and[Len(w.and) + 1] = NotTrashed
  BY DEF Asking
<1>2. /\ DOMAIN v.and = DOMAIN w.and \union {Len(w.and) + 1}
  BY <1>1
<1>3. NotTrashed.rest \cap Flagged(NotTrashed.isDeleted) = Rows \ Trashed
  BY DEF NotTrashed, Where, Flagged
<1>4. ASSUME NEW r \in Rows
      PROVE  (\A i \in DOMAIN v.and : r \in v.and[i].rest \cap Flagged(v.and[i].isDeleted))
               <=> (\A i \in DOMAIN w.and : r \in w.and[i].rest) /\ r \notin Trashed
  <2>1. \A i \in DOMAIN w.and : r \in v.and[i].rest \cap Flagged(v.and[i].isDeleted) <=> r \in w.and[i].rest
    BY <1>1, Conditional
  <2>2. r \in v.and[Len(w.and) + 1].rest \cap Flagged(v.and[Len(w.and) + 1].isDeleted) <=> r \notin Trashed
    BY <1>1, <1>3
  <2> QED
    BY <1>2, <2>1, <2>2
<1> QED
  BY <1>4 DEF Reaches, AskedFor, Asking

LEMMA AskedForRows == ASSUME NEW w, Asking(w) PROVE AskedFor(w) \subseteq Rows
BY DEF AskedFor, Asking

\* What an operation other than delete reaches.
LEMMA FilteredReaches ==
  ASSUME NEW op \in Direct \union ViaAnd, NEW w \in AnyWhere
  PROVE  Reaches(Filtered(op, w)) =
           CASE w.isDeleted = "INCLUDE_SOFT_DELETED" -> AskedFor(w)
             [] w.isDeleted = "true" -> AskedFor(w) \cap Trashed
             [] OTHER -> AskedFor(w) \ Trashed
<1>1. Asking(w) /\ w.isDeleted \in Flags /\ AskedFor(w) \subseteq Rows
  BY WhereParts, AskedForRows
<1>2. CASE w.isDeleted = "INCLUDE_SOFT_DELETED"
  <2> DEFINE v == [w EXCEPT !.isDeleted = "undefined"]
  <2>1. Filtered(op, w) = v
    BY <1>2 DEF Filtered, InjectSoftDeleteFilter, InjectSoftDeleteFilterViaAnd, HasExplicit, StripSentinel
  <2>2. Asking(v) /\ v.isDeleted = "undefined" /\ AskedFor(v) = AskedFor(w)
    BY <1>1, WhereParts DEF Asking, AskedFor
  <2> HIDE DEF v
  <2>3. Reaches(v) = AskedFor(w) \cap Rows
    BY <2>2, ReachesDirectly DEF Flagged
  <2> QED
    BY <1>1, <1>2, <2>1, <2>3
<1>3. CASE w.isDeleted \in {"true", "false"}
  <2>1. Filtered(op, w) = w
    BY <1>3 DEF Filtered, InjectSoftDeleteFilter, InjectSoftDeleteFilterViaAnd, HasExplicit, StripSentinel
  <2>2. Reaches(w) = AskedFor(w) \cap Flagged(w.isDeleted)
    BY <1>1, ReachesDirectly
  <2> QED
    BY <1>1, <1>3, <2>1, <2>2 DEF Flagged
<1>4. CASE w.isDeleted = "undefined" /\ op \in Direct
  <2> DEFINE v == [w EXCEPT !.isDeleted = "false"]
  <2>1. Filtered(op, w) = v
    BY <1>4 DEF Filtered, InjectSoftDeleteFilter, HasExplicit
  <2>2. Asking(v) /\ v.isDeleted = "false" /\ AskedFor(v) = AskedFor(w)
    BY <1>1, WhereParts DEF Asking, AskedFor
  <2> HIDE DEF v
  <2>3. Reaches(v) = AskedFor(w) \cap (Rows \ Trashed)
    BY <2>2, ReachesDirectly DEF Flagged
  <2> QED
    BY <1>1, <1>4, <2>1, <2>3
<1>5. CASE w.isDeleted = "undefined" /\ op \notin Direct
  <2> DEFINE v == [w EXCEPT !.and = Append(@, NotTrashed)]
  <2>1. Filtered(op, w) = v
    BY <1>5 DEF Filtered, InjectSoftDeleteFilterViaAnd, HasExplicit
  <2>2. v.isDeleted = w.isDeleted /\ v.rest = w.rest /\ v.and = Append(w.and, NotTrashed)
    BY WhereParts
  <2> HIDE DEF v
  <2>3. Reaches(v) = (AskedFor(w) \cap Rows) \ Trashed
    BY <1>1, <1>5, <2>2, ReachesViaAnd DEF Flagged
  <2> QED
    BY <1>1, <1>5, <2>1, <2>3
<1> QED
  BY <1>1, <1>2, <1>3, <1>4, <1>5 DEF Flags

LEMMA DeletingReaches ==
  ASSUME NEW op \in DOMAIN Deleting, NEW w \in AnyWhere
  PROVE  Reaches(Rewritten(op, w)) = AskedFor(w) \ Trashed
<1> DEFINE v == [w EXCEPT !.isDeleted = "false"]
<1>1. /\ Rewritten(op, w) = Filtered(Deleting[op], v)
      /\ Deleting[op] \in Direct \union ViaAnd
  BY DEF Rewritten, Deleting, Direct, ViaAnd
<1>2. v \in AnyWhere /\ v.isDeleted = "false" /\ AskedFor(v) = AskedFor(w)
  <2>1. PICK flag \in Flags, rest \in SUBSET Rows, and \in Seq(Conditions) : w = Where(flag, rest, and)
    BY DEF AnyWhere
  <2>2. v = Where("false", rest, and)
    BY <2>1 DEF Where
  <2>3. v.isDeleted = "false" /\ v.rest = w.rest /\ v.and = w.and
    BY WhereParts
  <2> HIDE DEF v
  <2> QED
    BY <2>2, <2>3 DEF AnyWhere, Flags, AskedFor
<1> HIDE DEF v
<1> QED
  BY <1>1, <1>2, FilteredReaches

\* Whatever an operation asks for, with any number of further conditions, it reaches
\* the rows outside the trash among them, those in the trash when it says isDeleted,
\* and all with the sentinel; a deletion never reaches a row in the trash.
THEOREM FilterHidesTrash ==
  ASSUME NEW w \in AnyWhere
  PROVE  /\ \A op \in DOMAIN Deleting : Reaches(Rewritten(op, w)) = AskedFor(w) \ Trashed
         /\ \A op \in Operations \ DOMAIN Deleting :
              Reaches(Rewritten(op, w)) =
                CASE w.isDeleted = "INCLUDE_SOFT_DELETED" -> AskedFor(w)
                  [] w.isDeleted = "true" -> AskedFor(w) \cap Trashed
                  [] OTHER -> AskedFor(w) \ Trashed
<1>1. ASSUME NEW op \in Operations \ DOMAIN Deleting
      PROVE  Rewritten(op, w) = Filtered(op, w) /\ op \in Direct \union ViaAnd
  BY DEF Rewritten, Operations
<1> QED
  BY <1>1, DeletingReaches, FilteredReaches

\* In particular the filter does what it is for on the wheres that are checked.
THEOREM TrashStaysHidden == Spec => TrashHidden
<1>1. Wheres \subseteq AnyWhere
  <2>1. ASSUME NEW n \in 0..2, NEW and \in [1..n -> Conditions] PROVE and \in Seq(Conditions)
    OBVIOUS
  <2> QED
    BY <2>1 DEF Wheres, AnyWhere
<1>2. DeletesOnce /\ ReachesAsAsked
  BY <1>1, FilterHidesTrash DEF DeletesOnce, ReachesAsAsked
<1> QED
  BY <1>2, PTL DEF TrashHidden
=============================================================================
