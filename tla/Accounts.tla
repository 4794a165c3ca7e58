------------------------------- MODULE Accounts --------------------------------
(***************************************************************************)
(* One user account and its invitation: UserStatusService, UsersRepository,   *)
(* InvitationsService. Both rows are keyed by the user, so one account        *)
(* stands for all.                                                           *)
(*                                                                          *)
(* Every operation reads, decides, and writes later under a precondition on   *)
(* the status in the statement's where; other requests run in between. The    *)
(* soft-delete extension adds "not in the trash" to every read and write of   *)
(* the user row, but knows nothing of the invitation row. Left out: sessions  *)
(* (module Sessions), passwords and their tokens, roles, reviewers, times.    *)
(***************************************************************************)
EXTENDS Naturals

CONSTANTS
  Requests,   \* requests in flight at one time
  MaxToken    \* bound: invitation tokens ever issued

ASSUME ConstantsAssumption == MaxToken \in Nat

VARIABLES
  status,        \* User.status, or "absent" before the row exists
  trashed,       \* User.isDeleted
  credential,    \* User.isCredentialEnabled
  secondFactor,  \* two-factor secret, backup codes, trusted devices are there
  invite,        \* UserInvitation.status, or "none" when there is no row
  token,         \* the invitation's tokenHash, by its number, or NoToken
  nextToken,     \* number of the next token
  req            \* [Requests -> locals]

user == <<status, trashed, credential, secondFactor>>
invitation == <<invite, token, nextToken>>
vars == <<user, invitation, req>>

Statuses == {"absent", "PENDING", "ACTIVE", "SUSPENDED", "INACTIVE", "REJECTED",
             "INVITED", "REVOKED"}
InviteStatuses == {"none", "PENDING", "ACCEPTED", "REVOKED"}
Steps == {"idle", "approve", "reject", "unrejectToPending", "unrejectToActive", "suspend",
          "unsuspend", "reactivate", "deactivate", "switch", "update", "resend", "revoke", "accept"}

NoToken == 0
Tokens == 1..MaxToken

\* clean: the request decided to remove the second factor; enable: the provider
\* switch it asks for; token: the invitation token it presents.
Locals == [pc: Steps, clean: BOOLEAN, enable: BOOLEAN, token: Tokens \union {NoToken}]
Idle == [pc |-> "idle", clean |-> FALSE, enable |-> FALSE, token |-> NoToken]

Init ==
  /\ status = "absent"
  /\ trashed = FALSE
  /\ credential = TRUE
  /\ secondFactor = FALSE
  /\ invite = "none"
  /\ token = NoToken
  /\ nextToken = 1
  /\ req = [r \in Requests |-> Idle]

\* (mutant) The extension does not filter the statement.
MatchesTrashed(from) == status \in from

\* What a read or a write of the user row with a filter on the status matches.
Matches(from) == ~ trashed /\ status \in from

\* The first half of an operation: what it read lets it go on to its write.
Decide(r, locals) ==
  /\ req[r] = Idle
  /\ req' = [req EXCEPT ![r] = locals]
  /\ UNCHANGED <<user, invitation>>

Finish(r) == req' = [req EXCEPT ![r] = Idle]

\* The second half: the write and the request's end. When its precondition does
\* not hold any more, the transaction is rolled back and the request fails.
Write(r, pc, from, to, credentials) ==
  /\ req[r].pc = pc
  /\ Finish(r)
  /\ \/ Matches(from) /\ status' = to /\ credential' \in credentials
     \/ ~ Matches(from) /\ UNCHANGED <<status, credential>>
  /\ UNCHANGED <<trashed, secondFactor, invitation>>

-----------------------------------------------------------------------------
(* Registration and its review. Invited users are refused.                   *)

Register ==
  /\ status = "absent"
  /\ status' = "PENDING"
  /\ UNCHANGED <<trashed, credential, secondFactor, invitation, req>>

Approve(r) == Matches({"PENDING"}) /\ invite = "none" /\ Decide(r, [Idle EXCEPT !.pc = "approve"])
ApproveUser(r) == Write(r, "approve", {"PENDING"}, "ACTIVE", BOOLEAN)

Reject(r) == Matches({"PENDING"}) /\ invite = "none" /\ Decide(r, [Idle EXCEPT !.pc = "reject"])
RejectUser(r) == Write(r, "reject", {"PENDING"}, "REJECTED", {credential})

Unreject(r) ==
  /\ Matches({"REJECTED"})
  /\ invite = "none"
  /\ \E pc \in {"unrejectToPending", "unrejectToActive"} : Decide(r, [Idle EXCEPT !.pc = pc])
UnrejectToPending(r) == Write(r, "unrejectToPending", {"REJECTED"}, "PENDING", {credential})
UnrejectToActive(r) == Write(r, "unrejectToActive", {"REJECTED"}, "ACTIVE", BOOLEAN)

-----------------------------------------------------------------------------
(* Suspension and deactivation. Whether the second factor is removed is       *)
(* decided on the row read, not on the row written.                          *)

\* What the decision would be now.
CleanIfSuspended == credential
CleanIfDeactivated == status = "ACTIVE" /\ credential

RemoveSecondFactor(r) == secondFactor' = (secondFactor /\ ~ req[r].clean)

Suspend(r) ==
  /\ Matches({"ACTIVE"})
  /\ Decide(r, [Idle EXCEPT !.pc = "suspend", !.clean = CleanIfSuspended])

SuspendUser(r) ==
  /\ req[r].pc = "suspend"
  /\ Finish(r)
  /\ \/ /\ Matches({"ACTIVE"})
        /\ status' = "SUSPENDED"
        /\ credential' = FALSE
        /\ RemoveSecondFactor(r)
     \/ ~ Matches({"ACTIVE"}) /\ UNCHANGED user
  /\ UNCHANGED <<trashed, invitation>>

Deactivate(r) ==
  /\ Matches({"ACTIVE", "SUSPENDED"})
  /\ Decide(r, [Idle EXCEPT !.pc = "deactivate", !.clean = CleanIfDeactivated])

DeactivateUser(r) ==
  /\ req[r].pc = "deactivate"
  /\ Finish(r)
  /\ \/ /\ Matches({"ACTIVE", "SUSPENDED"})
        /\ status' = "INACTIVE"
        /\ credential' = FALSE
        /\ RemoveSecondFactor(r)
     \/ ~ Matches({"ACTIVE", "SUSPENDED"}) /\ UNCHANGED user
  /\ UNCHANGED <<trashed, invitation>>

Unsuspend(r) == Matches({"SUSPENDED"}) /\ Decide(r, [Idle EXCEPT !.pc = "unsuspend"])
UnsuspendUser(r) == Write(r, "unsuspend", {"SUSPENDED"}, "ACTIVE", {TRUE})

Reactivate(r) == Matches({"INACTIVE"}) /\ Decide(r, [Idle EXCEPT !.pc = "reactivate"])
ReactivateUser(r) == Write(r, "reactivate", {"INACTIVE"}, "ACTIVE", BOOLEAN)

-----------------------------------------------------------------------------
(* Provider switches ask for no status.                                      *)

\* Both endpoints do nothing when the flag already has the value asked for.
SwitchProvider(r, pc) ==
  /\ Matches(Statuses \ {"absent"})
  /\ Decide(r, [Idle EXCEPT !.pc = pc, !.enable = ~ credential, !.clean = credential])

\* PATCH auth-provider suspends a user whose credentials it disables.
SwitchAuthProvider(r) ==
  /\ req[r].pc = "switch"
  /\ Finish(r)
  /\ \/ /\ ~ trashed
        /\ credential' = req[r].enable
        /\ status' = IF req[r].enable THEN status ELSE "SUSPENDED"
        /\ RemoveSecondFactor(r)
     \/ trashed /\ UNCHANGED user
  /\ UNCHANGED <<trashed, invitation>>

\* The general update of a user does the same without suspending.
ApplyProviderSwitch(r) ==
  /\ req[r].pc = "update"
  /\ Finish(r)
  /\ \/ ~ trashed /\ credential' = req[r].enable /\ RemoveSecondFactor(r)
     \/ trashed /\ UNCHANGED <<credential, secondFactor>>
  /\ UNCHANGED <<status, trashed, invitation>>

\* A signed-in user sets up or disables two-factor authentication.
ChangeSecondFactor ==
  /\ Matches({"ACTIVE"})
  /\ credential
  /\ secondFactor' = ~ secondFactor
  /\ UNCHANGED <<status, trashed, credential, invitation, req>>

-----------------------------------------------------------------------------
(* Trash *)

SoftDelete ==
  /\ Matches(Statuses \ {"absent"})
  /\ trashed' = TRUE
  /\ UNCHANGED <<status, credential, secondFactor, invitation, req>>

\* restoreUser and bulkRestore make the user ACTIVE whatever it was before.
RestoreUser ==
  /\ trashed
  /\ trashed' = FALSE
  /\ status' = "ACTIVE"
  /\ UNCHANGED <<credential, secondFactor, invitation, req>>

-----------------------------------------------------------------------------
(* Invitations *)

SendInvite ==
  /\ status = "absent"
  /\ nextToken \in Tokens
  /\ status' = "INVITED"
  /\ credential' \in BOOLEAN
  /\ invite' = "PENDING"
  /\ token' = nextToken
  /\ nextToken' = nextToken + 1
  /\ UNCHANGED <<trashed, secondFactor, req>>

Resend(r) == invite \in {"PENDING", "REVOKED"} /\ Decide(r, [Idle EXCEPT !.pc = "resend"])

\* (mutant) The result of setStatus is not looked at.
ResendAnyway(r) ==
  /\ req[r].pc = "resend"
  /\ Finish(r)
  /\ nextToken \in Tokens
  /\ status' = IF Matches({"INVITED", "REVOKED"}) THEN "INVITED" ELSE status
  /\ invite' = "PENDING"
  /\ token' = nextToken
  /\ nextToken' = nextToken + 1
  /\ UNCHANGED <<trashed, credential, secondFactor>>

ResendInvite(r) ==
  /\ req[r].pc = "resend"
  /\ Finish(r)
  /\ \/ /\ Matches({"INVITED", "REVOKED"})
        /\ nextToken \in Tokens
        /\ status' = "INVITED"
        /\ invite' = "PENDING"
        /\ token' = nextToken
        /\ nextToken' = nextToken + 1
     \/ ~ Matches({"INVITED", "REVOKED"}) /\ UNCHANGED <<status, invitation>>
  /\ UNCHANGED <<trashed, credential, secondFactor>>

Revoke(r) == invite = "PENDING" /\ Decide(r, [Idle EXCEPT !.pc = "revoke"])

RevokeInvite(r) ==
  /\ req[r].pc = "revoke"
  /\ Finish(r)
  /\ \/ Matches({"INVITED"}) /\ status' = "REVOKED" /\ invite' = "REVOKED" /\ token' = NoToken
     \/ ~ Matches({"INVITED"}) /\ UNCHANGED <<status, invite, token>>
  /\ UNCHANGED <<trashed, credential, secondFactor, nextToken>>

\* The token is looked up before the password is hashed, and not again.
Accept(r) == invite = "PENDING" /\ Decide(r, [Idle EXCEPT !.pc = "accept", !.token = token])

\* (mutant) activateUser without its precondition.
ActivateAnyone(r) ==
  /\ req[r].pc = "accept"
  /\ Finish(r)
  /\ \/ ~ trashed /\ status' = "ACTIVE" /\ invite' = "ACCEPTED" /\ token' = NoToken
     \/ trashed /\ UNCHANGED <<status, invite, token>>
  /\ UNCHANGED <<trashed, credential, secondFactor, nextToken>>

AcceptInvite(r) ==
  /\ req[r].pc = "accept"
  /\ Finish(r)
  /\ \/ Matches({"INVITED"}) /\ status' = "ACTIVE" /\ invite' = "ACCEPTED" /\ token' = NoToken
     \/ ~ Matches({"INVITED"}) /\ UNCHANGED <<status, invite, token>>
  /\ UNCHANGED <<trashed, credential, secondFactor, nextToken>>

-----------------------------------------------------------------------------

\* The process ends, a statement fails, or one of two transactions that lock the
\* user and the invitation in opposite orders (accept and resend) is aborted.
RequestDies(r) ==
  /\ req[r] # Idle
  /\ Finish(r)
  /\ UNCHANGED <<user, invitation>>

Decision(r) ==
  \/ Approve(r) \/ Reject(r) \/ Unreject(r)
  \/ Suspend(r) \/ Deactivate(r) \/ Unsuspend(r) \/ Reactivate(r)
  \/ \E pc \in {"switch", "update"} : SwitchProvider(r, pc)
  \/ Resend(r) \/ Revoke(r) \/ Accept(r)

Outcome(r) ==
  \/ ApproveUser(r) \/ RejectUser(r) \/ UnrejectToPending(r) \/ UnrejectToActive(r)
  \/ SuspendUser(r) \/ DeactivateUser(r) \/ UnsuspendUser(r) \/ ReactivateUser(r)
  \/ SwitchAuthProvider(r) \/ ApplyProviderSwitch(r)
  \/ ResendInvite(r) \/ RevokeInvite(r) \/ AcceptInvite(r)
  \/ RequestDies(r)

Next ==
  \/ Register \/ SendInvite \/ SoftDelete \/ RestoreUser \/ ChangeSecondFactor
  \/ \E r \in Requests : Decision(r) \/ Outcome(r)

Spec == Init /\ [][Next]_vars

-----------------------------------------------------------------------------

TypeOK ==
  /\ status \in Statuses
  /\ trashed \in BOOLEAN
  /\ credential \in BOOLEAN
  /\ secondFactor \in BOOLEAN
  /\ invite \in InviteStatuses
  /\ token \in Tokens \union {NoToken}
  /\ nextToken \in 1..MaxToken + 1
  /\ req \in [Requests -> Locals]

\* Users in a status of the invitation's have the invitation to it, users under
\* review have none, and there is a token exactly while an invitation is pending:
\* no interleaving of the two rows' writes leaves an invited user whose
\* invitation cannot be resent, revoked or accepted.
StatusFitsInvitation ==
  /\ status = "INVITED" => invite = "PENDING"
  /\ status = "REVOKED" => invite = "REVOKED"
  /\ status \in {"absent", "PENDING", "REJECTED"} => invite = "none"
  /\ token # NoToken <=> invite = "PENDING"

\* An accepted invitation stays accepted, though a resend or a revocation may
\* have passed its check before, and it activates its user only once: a second
\* request with the same token, or a late one, changes nothing.
AcceptanceIsFinal ==
  [][ invite = "ACCEPTED" =>
        /\ invite' = "ACCEPTED"
        /\ \A r \in Requests : req[r].pc = "accept" /\ req'[r].pc = "idle" => UNCHANGED user ]_vars

\* A decision made before the user was moved to the trash does not reach the rows
\* of the trashed user.
TrashedUntouched ==
  [][ trashed /\ trashed' => UNCHANGED <<user, invitation>> ]_vars

=============================================================================
