------------------------------ MODULE Sessions ------------------------------
(***************************************************************************)
(* The login sessions of one user account.                                 *)
(*                                                                         *)
(* Everything the session code does is keyed by the user id (the row       *)
(* filters, the Redis lock, the tokens' subject), so the module follows    *)
(* one user.  Requests interleave at every await: a request is at a        *)
(* program counter and carries in req[r] what its handler still needs.     *)
(*                                                                         *)
(* A refresh token is the pair of a row id and the hash stored in that     *)
(* row; the row's hash is written once, in the transaction that creates    *)
(* it, so a signed refresh token is identified with the id of its row.     *)
(*                                                                         *)
(* Transactions run at READ COMMITTED.  A statement on one row by its id   *)
(* waits for whoever holds the row and then acts on what is there; a       *)
(* deleteMany deletes the rows its snapshot saw, so it is two steps here,  *)
(* the snapshot and the commit, and a row created in between escapes it.   *)
(***************************************************************************)
EXTENDS Naturals, FiniteSets

CONSTANTS
  Requests,         \* HTTP requests that can be in flight at one time
  MaxSessions,      \* MAX_CONCURRENT_SESSIONS
  MaxId,            \* bound: session ids ever allocated
  ConflictTokens,   \* bound: session-management tokens ever issued (409 payload)
  TwoFactorTokens,  \* bound: two-factor tokens ever issued
  NoToken           \* the login carried no single-use token

Tokens == ConflictTokens \cup TwoFactorTokens
SessionIds == 1 .. MaxId

ASSUME ConstantsAssumption ==
  /\ MaxSessions \in Nat \ {0}
  /\ MaxId \in Nat
  /\ MaxSessions <= MaxId
  /\ IsFiniteSet(Requests)
  /\ Requests # {}
  /\ NoToken \notin Tokens
  /\ ConflictTokens \cap TwoFactorTokens = {}

VARIABLES
  status,   \* User.status, of the values a user with sessions can have
  row,      \* Session rows: absent, live, or present with expiresAt in the past
  family,   \* history: the login session a row descends from by rotation (0: none)
  origin,   \* history: the single-use token the login that created it carried
  cause,    \* history: when a row that is present was created (see Causes)
  nextId,   \* autoincrement of Session.id
  lock,     \* the session-limit key is set in Redis (its value is '1' for everyone)
  issued,   \* single-use tokens handed to a client
  claimed,  \* single-use tokens whose consumed-key is set in Redis
  req       \* what each request's handler holds at the await it is suspended at

vars == <<status, row, family, origin, cause, nextId, lock, issued, claimed, req>>

history == <<family, origin, nextId>>
rows    == <<row, cause, history>>
redis   == <<lock, issued, claimed>>

Statuses == {"ACTIVE", "SUSPENDED", "INACTIVE"}
RowStates == {"absent", "live", "expired"}
Steps == {"idle", "lock", "wait", "count", "create", "verify2fa", "load2fa",
          "claim", "drop", "recount", "load", "theft", "expired", "rotate",
          "terminate", "revoke", "logoutAll", "change", "suspend", "deactivate"}
\* A row is created for an ACTIVE user, while a transaction that ends that
\* status is under way, or for a user who is not ACTIVE any more.
Causes == {"regular", "overtaking", "late"}

Locals == [pc  : Steps,                       \* where the handler is suspended
           sid : 0 .. MaxId,                  \* the session it acts on, or keeps
           tok : Tokens \cup {NoToken},       \* the single-use token presented
           top : 0 .. (MaxId + 1)]            \* its deleteMany saw rows below it

Idle == [pc |-> "idle", sid |-> 0, tok |-> NoToken, top |-> 0]

TypeOK ==
  /\ status \in Statuses
  /\ row \in [SessionIds -> RowStates]
  /\ family \in [SessionIds -> 0 .. MaxId]
  /\ origin \in [SessionIds -> Tokens \cup {NoToken}]
  /\ cause \in [SessionIds -> Causes]
  /\ nextId \in 1 .. (MaxId + 1)
  /\ lock \in BOOLEAN
  /\ issued \subseteq Tokens
  /\ claimed \subseteq Tokens
  /\ req \in [Requests -> Locals]

-----------------------------------------------------------------------------
(* Rows.                                                                    *)

Live == {s \in SessionIds : row[s] = "live"}
Present(s) == row[s] # "absent"
Issued == {s \in SessionIds : s < nextId}

DeleteRow(s) ==
  /\ row' = [row EXCEPT ![s] = "absent"]
  /\ cause' = [cause EXCEPT ![s] = "regular"]

\* The deleteMany of request r takes effect: the rows its snapshot saw are gone,
\* save the one it keeps.  (Ids grow, so it saw the ids below its top; those
\* deleted since stay deleted.)
DeleteFound(r) ==
  LET found == {s \in SessionIds : s < req[r].top /\ s # req[r].sid}
  IN  /\ row' = [s \in SessionIds |-> IF s \in found THEN "absent" ELSE row[s]]
      /\ cause' = [s \in SessionIds |-> IF s \in found THEN "regular" ELSE cause[s]]

\* A request moves on, or answers its client and is gone.
At(r, step) == req[r].pc = step
Goto(r, step) == req' = [req EXCEPT ![r].pc = step]
Return(r) == req' = [req EXCEPT ![r] = Idle]
\* A new request takes the free slot r.
Start(r, step, s, t) ==
  /\ At(r, "idle")
  /\ req' = [req EXCEPT ![r] = [Idle EXCEPT !.pc = step, !.sid = s, !.tok = t]]

\* A deleteMany of the user's rows, all but one (0: none is kept), runs in the
\* slot r: its snapshot is taken, its transaction has yet to commit.
StartDeletion(r, step, keep) ==
  req' = [req EXCEPT ![r] =
            [Idle EXCEPT !.pc = step, !.sid = keep, !.top = nextId]]

\* The row a caller asks to keep; if it is gone already, none is kept.
Kept == {0} \cup {s \in SessionIds : Present(s)}

\* A transaction that has updated the user row holds it until its commit.
UserRowFree ==
  \A r \in Requests : req[r].pc \notin {"change", "suspend", "deactivate"}
StatusChanging == \E r \in Requests : req[r].pc \in {"suspend", "deactivate"}

\* A user who already has some live sessions, each from a login of its own.
Init ==
  \E n \in 0 .. MaxSessions :
    /\ status = "ACTIVE"
    /\ row = [s \in SessionIds |-> IF s <= n THEN "live" ELSE "absent"]
    /\ family = [s \in SessionIds |-> IF s <= n THEN s ELSE 0]
    /\ origin = [s \in SessionIds |-> NoToken]
    /\ cause = [s \in SessionIds |-> "regular"]
    /\ nextId = n + 1
    /\ lock = FALSE
    /\ issued = {}
    /\ claimed = {}
    /\ req = [r \in Requests |-> Idle]

-----------------------------------------------------------------------------
(* Password login.  The user row is read once, before the password is       *)
(* compared; nothing after that looks at the status again.                  *)

\* No second factor, or a trusted device: straight to the session limit.
Login(r) ==
  /\ status = "ACTIVE"
  /\ Start(r, "lock", 0, NoToken)
  /\ UNCHANGED <<status, rows, redis>>

\* Second factor required: the response carries a two-factor token.
LoginNeedsTwoFactor(r) ==
  /\ At(r, "idle")
  /\ status = "ACTIVE"
  /\ \E t \in TwoFactorTokens \ issued : issued' = issued \cup {t}
  /\ UNCHANGED <<status, rows, lock, claimed, req>>

(* Second factor: claim the token, verify the code, reload the user.        *)

\* Mutant: the consumed-key set whether or not it exists (SET without NX).
ClaimTwoFactorAlways(r) ==
  /\ \E t \in issued \cap TwoFactorTokens :
       /\ claimed' = claimed \cup {t}
       /\ Start(r, "verify2fa", 0, t)
  /\ UNCHANGED <<status, rows, lock, issued>>

ClaimTwoFactor(r) ==
  /\ \E t \in (issued \cap TwoFactorTokens) \ claimed :
       /\ claimed' = claimed \cup {t}
       /\ Start(r, "verify2fa", 0, t)
  /\ UNCHANGED <<status, rows, lock, issued>>

VerifyTwoFactor(r) ==
  /\ At(r, "verify2fa")
  /\ \/ /\ Goto(r, "load2fa")
        /\ UNCHANGED claimed
     \/ /\ Return(r)                       \* wrong code, or the check threw
        /\ claimed' \in {claimed \ {req[r].tok}, claimed}  \* redisDel may fail
  /\ UNCHANGED <<status, rows, lock, issued>>

LoadTwoFactorUser(r) ==
  /\ At(r, "load2fa")
  /\ IF status = "ACTIVE" THEN Goto(r, "lock") ELSE Return(r)
  /\ UNCHANGED <<status, rows, redis>>

-----------------------------------------------------------------------------
(* enforceSessionLimit and createLoginSession.                              *)

\* SET NX on Redis; when Redis does not answer, the instance's own L1 entry
\* decides, which may go either way.
SetIfAbsent(acquired) ==
  \/ ~ lock /\ acquired /\ lock' = TRUE
  \/ lock /\ ~ acquired /\ UNCHANGED lock
  \/ UNCHANGED lock

TryLock(r) ==
  /\ At(r, "lock")
  /\ \E acquired \in BOOLEAN :
       /\ SetIfAbsent(acquired)
       /\ Goto(r, IF acquired THEN "count" ELSE "wait")
  /\ UNCHANGED <<status, rows, issued, claimed>>

\* After 300 ms, once more; the check then goes on with or without the lock.
RetryLock(r) ==
  /\ At(r, "wait")
  /\ \E acquired \in BOOLEAN : SetIfAbsent(acquired)
  /\ Goto(r, "count")
  /\ UNCHANGED <<status, rows, issued, claimed>>

\* A 409 hands out a session-management token (while the bound allows one).
IssueConflictToken ==
  IF ConflictTokens \subseteq issued
    THEN UNCHANGED issued
    ELSE \E t \in ConflictTokens \ issued : issued' = issued \cup {t}

\* Mutant: the limit compared with > instead of >=.
EnforceLimitLoosely(r) ==
  /\ At(r, "count")
  /\ IF Cardinality(Live) > MaxSessions
       THEN Return(r) /\ IssueConflictToken
       ELSE Goto(r, "create") /\ UNCHANGED issued
  /\ UNCHANGED <<status, rows, lock, claimed>>

EnforceLimit(r) ==
  /\ At(r, "count")
  /\ IF Cardinality(Live) >= MaxSessions
       THEN Return(r) /\ IssueConflictToken
       ELSE Goto(r, "create") /\ UNCHANGED issued
  /\ UNCHANGED <<status, rows, lock, claimed>>

\* The key goes at any time: its TTL (10 s) runs out whatever its holder is
\* doing, or a DEL that a check sent when it ended, and did not await, reaches
\* Redis and removes the key whoever set it.
LockGoes ==
  /\ lock
  /\ lock' = FALSE
  /\ UNCHANGED <<status, rows, issued, claimed, req>>

\* The cause of a row created now, for a user who is not ACTIVE as given.
CauseNow(inactive) ==
  CASE StatusChanging -> "overtaking"
    [] ~ StatusChanging /\ status = "ACTIVE" -> "regular"
    [] OTHER -> inactive

CreateSession(r) ==
  /\ At(r, "create")
  /\ nextId <= MaxId
  /\ row' = [row EXCEPT ![nextId] = "live"]
  /\ family' = [family EXCEPT ![nextId] = nextId]
  /\ origin' = [origin EXCEPT ![nextId] = req[r].tok]
  /\ cause' = [cause EXCEPT ![nextId] = CauseNow("late")]
  /\ nextId' = nextId + 1
  /\ Return(r)
  /\ UNCHANGED <<status, redis>>

-----------------------------------------------------------------------------
(* resolveSessionConflict.                                                  *)

\* Token verified and the chosen session found, before the token is claimed.
ResolveConflict(r) ==
  /\ \E t \in issued \cap ConflictTokens, s \in Live :
       Start(r, "claim", s, t)
  /\ UNCHANGED <<status, rows, redis>>

\* Mutant: the consumed-key set whether or not it exists (SET without NX).
ClaimConflictAlways(r) ==
  /\ At(r, "claim")
  /\ claimed' = claimed \cup {req[r].tok}
  /\ Goto(r, "drop")
  /\ UNCHANGED <<status, rows, lock, issued>>

\* setIfAbsentStrict: refused when the key exists or Redis does not answer.
ClaimConflict(r) ==
  /\ At(r, "claim")
  /\ \/ /\ req[r].tok \notin claimed
        /\ claimed' = claimed \cup {req[r].tok}
        /\ Goto(r, "drop")
     \/ /\ Return(r)
        /\ UNCHANGED claimed
  /\ UNCHANGED <<status, rows, lock, issued>>

DropChosen(r) ==
  /\ At(r, "drop")
  /\ DeleteRow(req[r].sid)
  /\ req' = [req EXCEPT ![r].pc = "recount", ![r].sid = 0]
  /\ UNCHANGED <<status, history, redis>>

Recount(r) ==
  /\ At(r, "recount")
  /\ IF Cardinality(Live) >= MaxSessions
       THEN Return(r) /\ IssueConflictToken
       ELSE Goto(r, "load") /\ UNCHANGED issued
  /\ UNCHANGED <<status, rows, lock, claimed>>

LoadConflictUser(r) ==
  /\ At(r, "load")
  /\ IF status = "ACTIVE" THEN Goto(r, "create") ELSE Return(r)
  /\ UNCHANGED <<status, rows, redis>>

-----------------------------------------------------------------------------
(* refresh: read the row, then act on what was read.                        *)

\* Any refresh token ever issued may be presented, any number of times.  (A
\* live row of a user who is not ACTIVE is refused, which changes nothing.)
Refresh(r) ==
  /\ \E s \in Issued :
       \/ row[s] = "absent"  /\ Start(r, "theft", s, NoToken)
       \/ row[s] = "expired" /\ Start(r, "expired", s, NoToken)
       \/ row[s] = "live" /\ status = "ACTIVE" /\ Start(r, "rotate", s, NoToken)
  /\ UNCHANGED <<status, rows, redis>>

\* Row not found: taken for a stolen token, every session is revoked.
RevokeOnTheft(r) ==
  /\ At(r, "theft")
  /\ StartDeletion(r, "revoke", 0)
  /\ UNCHANGED <<status, rows, redis>>

DeleteExpired(r) ==
  /\ At(r, "expired")
  /\ DeleteRow(req[r].sid)
  /\ Return(r)
  /\ UNCHANGED <<status, history, redis>>

\* Mutant: deleteMany for the old row, which a missing row does not abort.
RotateTolerantly(r) ==
  /\ At(r, "rotate")
  /\ nextId <= MaxId
  /\ row' = [row EXCEPT ![req[r].sid] = "absent", ![nextId] = "live"]
  /\ family' = [family EXCEPT ![nextId] = family[req[r].sid]]
  /\ origin' = [origin EXCEPT ![nextId] = origin[req[r].sid]]
  /\ cause' = [cause EXCEPT ![req[r].sid] = "regular",
                            ![nextId] = CauseNow(cause[req[r].sid])]
  /\ nextId' = nextId + 1
  /\ Return(r)
  /\ UNCHANGED <<status, redis>>

\* One transaction: delete the old row (P2025 aborts it when the row is gone),
\* create the successor with the same expiresAt.
RotateSession(r) ==
  /\ At(r, "rotate")
  /\ Present(req[r].sid)
  /\ nextId <= MaxId
  /\ row' = [row EXCEPT ![req[r].sid] = "absent", ![nextId] = row[req[r].sid]]
  /\ family' = [family EXCEPT ![nextId] = family[req[r].sid]]
  /\ origin' = [origin EXCEPT ![nextId] = origin[req[r].sid]]
  /\ cause' = [cause EXCEPT ![req[r].sid] = "regular",
                            ![nextId] = CauseNow(cause[req[r].sid])]
  /\ nextId' = nextId + 1
  /\ Return(r)
  /\ UNCHANGED <<status, redis>>

RotateAborts(r) ==
  /\ At(r, "rotate")
  /\ ~ Present(req[r].sid)
  /\ Return(r)
  /\ UNCHANGED <<status, rows, redis>>

-----------------------------------------------------------------------------
(* Ending sessions.  The guard may let a request through on a cached        *)
(* session, so the caller's own row need not exist any more.                *)

Logout ==
  /\ \E s \in Issued : DeleteRow(s)
  /\ UNCHANGED <<status, history, redis, req>>

LogoutAll(r) ==
  /\ At(r, "idle")
  /\ \E keep \in Kept : StartDeletion(r, "logoutAll", keep)
  /\ UNCHANGED <<status, rows, redis>>

\* terminateSession looks the target up, then deletes it by id.
FindTarget(r) ==
  /\ \E s \in Live : Start(r, "terminate", s, NoToken)
  /\ UNCHANGED <<status, rows, redis>>

TerminateSession(r) ==
  /\ At(r, "terminate")
  /\ DeleteRow(req[r].sid)
  /\ Return(r)
  /\ UNCHANGED <<status, history, redis>>

(* Transactions that update the user row first, then delete its sessions.   *)

\* Password change and second-factor set-up keep the caller's row; password
\* reset or set, e-mail change and second-factor reset keep none.
RevokeAll(r) ==
  /\ At(r, "idle")
  /\ UserRowFree
  /\ \E keep \in Kept : StartDeletion(r, "change", keep)
  /\ UNCHANGED <<status, rows, redis>>

SuspendUser(r) ==
  /\ At(r, "idle")
  /\ UserRowFree
  /\ status = "ACTIVE"
  /\ StartDeletion(r, "suspend", 0)
  /\ UNCHANGED <<status, rows, redis>>

DeactivateUser(r) ==
  /\ At(r, "idle")
  /\ UserRowFree
  /\ status \in {"ACTIVE", "SUSPENDED"}
  /\ StartDeletion(r, "deactivate", 0)
  /\ UNCHANGED <<status, rows, redis>>

\* Disabling the last provider suspends; enabling one leaves the status.
SwitchAuthProvider(r) ==
  /\ At(r, "idle")
  /\ UserRowFree
  /\ \E step \in {"change", "suspend"} : StartDeletion(r, step, 0)
  /\ UNCHANGED <<status, rows, redis>>

\* The transaction of a deleteMany commits: the rows of its snapshot are gone,
\* whatever became of them since.
DeletionCommits(r) ==
  /\ At(r, "revoke") \/ At(r, "logoutAll") \/ At(r, "change")
  /\ DeleteFound(r)
  /\ Return(r)
  /\ UNCHANGED <<status, history, redis>>

\* Mutant: the status changed without revoking the sessions with it.
StatusChangesOnly(r) ==
  /\ \/ At(r, "suspend") /\ status' = "SUSPENDED"
     \/ At(r, "deactivate") /\ status' = "INACTIVE"
  /\ Return(r)
  /\ UNCHANGED <<rows, redis>>

\* So does that of a change of the status, which is visible from now on.
StatusChanges(r) ==
  /\ \/ At(r, "suspend") /\ status' = "SUSPENDED"
     \/ At(r, "deactivate") /\ status' = "INACTIVE"
  /\ DeleteFound(r)
  /\ Return(r)
  /\ UNCHANGED <<history, redis>>

\* A user moved to the trash keeps rows and status; restoring one sets ACTIVE
\* from any status, as these two do.
UnsuspendUser ==
  /\ UserRowFree
  /\ status = "SUSPENDED"
  /\ status' = "ACTIVE"
  /\ UNCHANGED <<rows, redis, req>>

ReactivateUser ==
  /\ UserRowFree
  /\ status = "INACTIVE"
  /\ status' = "ACTIVE"
  /\ UNCHANGED <<rows, redis, req>>

\* The guard deletes an expired row it meets, fire-and-forget.
GuardDropsExpired ==
  /\ \E s \in SessionIds : row[s] = "expired" /\ DeleteRow(s)
  /\ UNCHANGED <<status, history, redis, req>>

SessionExpires ==
  /\ \E s \in Live : row' = [row EXCEPT ![s] = "expired"]
  /\ UNCHANGED <<status, cause, history, redis, req>>

\* A handler dies at an await: instance crash, database error, client timeout.
\* Its transaction, if it is in one, is rolled back.
RequestDies(r) ==
  /\ ~ At(r, "idle")
  /\ Return(r)
  /\ UNCHANGED <<status, rows, redis>>

-----------------------------------------------------------------------------
LoginStep(r) ==
  \/ Login(r) \/ LoginNeedsTwoFactor(r)
  \/ ClaimTwoFactor(r) \/ VerifyTwoFactor(r) \/ LoadTwoFactorUser(r)
  \/ TryLock(r) \/ RetryLock(r) \/ EnforceLimit(r) \/ CreateSession(r)

ResolveStep(r) ==
  \/ ResolveConflict(r) \/ ClaimConflict(r) \/ DropChosen(r)
  \/ Recount(r) \/ LoadConflictUser(r)

RefreshStep(r) ==
  \/ Refresh(r) \/ RevokeOnTheft(r) \/ DeleteExpired(r)
  \/ RotateSession(r) \/ RotateAborts(r)

RevokeStep(r) ==
  \/ LogoutAll(r) \/ RevokeAll(r)
  \/ SuspendUser(r) \/ DeactivateUser(r) \/ SwitchAuthProvider(r)
  \/ DeletionCommits(r) \/ StatusChanges(r)

RequestStep(r) ==
  \/ LoginStep(r) \/ ResolveStep(r) \/ RefreshStep(r) \/ RevokeStep(r)
  \/ FindTarget(r) \/ TerminateSession(r)
  \/ RequestDies(r)

UserStep == Logout \/ UnsuspendUser \/ ReactivateUser

TimeStep == LockGoes \/ SessionExpires \/ GuardDropsExpired

Next == (\E r \in Requests : RequestStep(r)) \/ UserStep \/ TimeStep

Spec == Init /\ [][Next]_vars

-----------------------------------------------------------------------------
(* Properties.                                                              *)

\* Requests that have passed a session count and have yet to create their row.
Admitted == {r \in Requests : req[r].pc \in {"create", "load"}}

\* Admitting a login is a promise to create one row: rows and promises
\* together stay below the limit plus one per concurrent request.
AdmissionBudget ==
  Cardinality(Live) + Cardinality(Admitted)
    <= MaxSessions - 1 + Cardinality(Requests)

\* The session limit is enforced by enforceSessionLimit and the recount of
\* resolveSessionConflict with no lock held at the creation: however logins,
\* conflict resolutions, rotations and revocations interleave, the overshoot
\* is at most one session per further login in flight, and never accumulates.
OvershootBounded ==
  Cardinality(Live) <= MaxSessions - 1 + Cardinality(Requests)

\* The login session f still has a row, its first or a successor of it.
Alive(f) == \E s \in SessionIds : Present(s) /\ family[s] = f

\* Rotation never forks a login: two refreshes racing with one token, or with
\* a token and its successor, leave one row per login (rotateSession).
OneRowPerLogin ==
  \A s1, s2 \in SessionIds :
    Present(s1) /\ Present(s2) /\ family[s1] = family[s2] => s1 = s2

\* A login whose rows were all deleted (logout, revocation, suspension, theft
\* response, password change) gets none again: a refresh that read the row
\* before the deletion cannot bring the session back (rotateSession's P2025).
\* (A rotation that overlaps a deleteMany keeps a row, so its login goes on.)
RevokedLoginStaysDead ==
  [][\A f \in Issued : ~ Alive(f) => ~ Alive(f)']_vars

\* Suspending or deactivating a user ends the sessions (suspendUser,
\* deactivateUser, switchAuthProvider), however many refreshes and logins are
\* in flight, except those whose row was created, by a refresh or a login, while
\* the transaction that changed the status was under way, with their renewals,
\* and those of a login that creates its row after it, which are not renewed.
StatusEndsSessions ==
  status # "ACTIVE" =>
    \A s \in SessionIds : Present(s) =>
      \/ cause[s] = "overtaking"
      \/ cause[s] = "late" /\ family[s] = s

\* A token is single-use: one 409 token, or one two-factor token, yields at
\* most one login, however many requests present it at the same time and
\* although a failed verification gives its claim back.
TokenYieldsOneLogin ==
  \A s1, s2 \in Issued :
    /\ family[s1] = s1 /\ family[s2] = s2
    /\ origin[s1] = origin[s2] /\ origin[s1] # NoToken
    => s1 = s2

=============================================================================
