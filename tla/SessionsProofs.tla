--------------------------- MODULE SessionsProofs ---------------------------
(* Theorems about Sessions, for every number of requests, session limit and *)
(* number of session ids.                                                   *)
EXTENDS Sessions, FiniteSetTheorems, TLAPS

-----------------------------------------------------------------------------
(* Type correctness.                                                        *)

LEMMA IdleType == Idle \in Locals
<1>1. "idle" \in Steps
  BY DEF Steps
<1>2. 0 \in 0 .. MaxId /\ 0 \in 0 .. (MaxId + 1)
  BY ConstantsAssumption
<1> QED BY <1>1, <1>2 DEF Idle, Locals

\* How a handler's locals change keeps them well typed.
LEMMA GotoType ==
  ASSUME req \in [Requests -> Locals], NEW r \in Requests,
         NEW step \in Steps, Goto(r, step)
  PROVE  req' \in [Requests -> Locals]
BY DEF Goto, Locals

LEMMA ReturnType ==
  ASSUME req \in [Requests -> Locals], NEW r \in Requests, Return(r)
  PROVE  req' \in [Requests -> Locals]
BY IdleType DEF Return

LEMMA StartType ==
  ASSUME req \in [Requests -> Locals], NEW r \in Requests,
         NEW step \in Steps, NEW s \in 0 .. MaxId,
         NEW t \in Tokens \cup {NoToken}, Start(r, step, s, t)
  PROVE  req' \in [Requests -> Locals]
<1>1. [Idle EXCEPT !.pc = step, !.sid = s, !.tok = t] \in Locals
  BY IdleType DEF Locals
<1> QED BY <1>1 DEF Start

LEMMA StartDeletionType ==
  ASSUME TypeOK, NEW r \in Requests, NEW step \in Steps, NEW keep \in 0 .. MaxId,
         StartDeletion(r, step, keep)
  PROVE  req' \in [Requests -> Locals]
<1>1. nextId \in 0 .. (MaxId + 1)
  BY ConstantsAssumption DEF TypeOK
<1>2. [Idle EXCEPT !.pc = step, !.sid = keep, !.top = nextId] \in Locals
  BY <1>1, IdleType DEF Locals
<1> QED BY <1>2 DEF StartDeletion, TypeOK

\* What a request holds after each kind of move.
LEMMA Moved ==
  ASSUME req \in [Requests -> Locals], NEW r \in Requests, NEW step, NEW s, NEW t
  PROVE  /\ Goto(r, step) => /\ req'[r].pc = step
                             /\ req'[r].sid = req[r].sid
                             /\ req'[r].tok = req[r].tok
         /\ Return(r) => req'[r].pc = "idle"
         /\ Start(r, step, s, t) => /\ req'[r].pc = step
                                    /\ req'[r].sid = s
                                    /\ req'[r].tok = t
<1>1. req[r] \in Locals
  OBVIOUS
<1>2. Goto(r, step) => req'[r] = [req[r] EXCEPT !.pc = step]
  BY DEF Goto
<1>3. Return(r) => req'[r] = Idle
  BY DEF Return
<1>4. Start(r, step, s, t) =>
        req'[r] = [Idle EXCEPT !.pc = step, !.sid = s, !.tok = t]
  BY DEF Start
<1>5. /\ [req[r] EXCEPT !.pc = step].pc = step
      /\ [req[r] EXCEPT !.pc = step].sid = req[r].sid
      /\ [req[r] EXCEPT !.pc = step].tok = req[r].tok
  BY <1>1 DEF Locals
<1>6. /\ Idle.pc = "idle"
      /\ [Idle EXCEPT !.pc = step, !.sid = s, !.tok = t].pc = step
      /\ [Idle EXCEPT !.pc = step, !.sid = s, !.tok = t].sid = s
      /\ [Idle EXCEPT !.pc = step, !.sid = s, !.tok = t].tok = t
  BY DEF Idle
<1> QED BY <1>2, <1>3, <1>4, <1>5, <1>6

LEMMA GotoMoved ==
  ASSUME req \in [Requests -> Locals], NEW r \in Requests, NEW step,
         Goto(r, step)
  PROVE  req'[r].pc = step
BY Moved

LEMMA StartDeletionMoved ==
  ASSUME req \in [Requests -> Locals], NEW r \in Requests, NEW step, NEW keep,
         StartDeletion(r, step, keep)
  PROVE  /\ req'[r].pc = step /\ req'[r].sid = keep
         /\ req'[r].tok = NoToken /\ req'[r].top = nextId
<1>1. req'[r] = [Idle EXCEPT !.pc = step, !.sid = keep, !.top = nextId]
  BY DEF StartDeletion
<1> QED BY <1>1 DEF Idle

LEMMA DeletionType ==
  ASSUME row \in [SessionIds -> RowStates], cause \in [SessionIds -> Causes], NEW s
  PROVE  DeleteRow(s) \/ DeleteFound(s)
           => /\ row' \in [SessionIds -> RowStates]
              /\ cause' \in [SessionIds -> Causes]
BY DEF DeleteRow, DeleteFound, RowStates, Causes

\* What each way to begin a deletion of many rows does.
LEMMA DeletionStarts ==
  ASSUME TypeOK, NEW r \in Requests,
         \/ RevokeOnTheft(r) \/ LogoutAll(r) \/ RevokeAll(r)
         \/ SuspendUser(r) \/ DeactivateUser(r) \/ SwitchAuthProvider(r)
  PROVE  /\ UNCHANGED <<status, rows, redis>>
         /\ \E step \in {"revoke", "logoutAll", "change", "suspend", "deactivate"},
               keep \in 0 .. MaxId :
              /\ StartDeletion(r, step, keep)
              /\ step \in {"suspend", "deactivate"} => keep = 0
<1>1. 0 \in 0 .. MaxId /\ Kept \subseteq 0 .. MaxId
  BY ConstantsAssumption DEF Kept, SessionIds
<1> QED BY <1>1 DEF RevokeOnTheft, LogoutAll, RevokeAll, SuspendUser,
     DeactivateUser, SwitchAuthProvider

LEMMA CauseType ==
  ASSUME NEW c \in Causes PROVE CauseNow(c) \in Causes
BY DEF CauseNow, Causes

\* A request about to claim a token holds one, and a request about to rotate a
\* session holds its id.  TypeOK alone is not inductive: ClaimConflict adds the
\* request's token to the claimed ones, RotateSession copies its session's row.
Held(r) ==
  /\ At(r, "claim") => req[r].tok \in Tokens
  /\ At(r, "rotate") => req[r].sid \in SessionIds

TypeInv == TypeOK /\ \A r \in Requests : Held(r)

LEMMA InitType == Init => TypeInv
<1> SUFFICES ASSUME Init PROVE TypeInv
  OBVIOUS
<1> PICK n \in 0 .. MaxSessions :
      /\ row = [s \in SessionIds |-> IF s <= n THEN "live" ELSE "absent"]
      /\ family = [s \in SessionIds |-> IF s <= n THEN s ELSE 0]
      /\ nextId = n + 1
  BY DEF Init
<1>1. row \in [SessionIds -> RowStates]
  BY DEF RowStates
<1>2. family \in [SessionIds -> 0 .. MaxId]
  BY ConstantsAssumption DEF SessionIds
<1>3. nextId \in 1 .. (MaxId + 1)
  BY ConstantsAssumption
<1>4. req \in [Requests -> Locals]
  BY IdleType DEF Init
<1>5. \A r \in Requests : Held(r)
  BY DEF Init, Held, At, Idle
<1>6. cause \in [SessionIds -> Causes]
  BY DEF Init, Causes
<1> QED BY <1>1, <1>2, <1>3, <1>4, <1>5, <1>6 DEF Init, TypeInv, TypeOK, Statuses

LEMMA LoginStepType ==
  ASSUME TypeOK, NEW r \in Requests, LoginStep(r) PROVE TypeOK'
<1> USE DEF TypeOK
<1>1. CASE Login(r)
  <2>1. "lock" \in Steps /\ 0 \in 0 .. MaxId
    BY ConstantsAssumption DEF Steps
  <2> QED BY <1>1, <2>1, StartType DEF Login, rows, history, redis
<1>2. CASE LoginNeedsTwoFactor(r)
  BY <1>2 DEF LoginNeedsTwoFactor, rows, history, Tokens
<1>3. CASE ClaimTwoFactor(r)
  <2>1. "verify2fa" \in Steps /\ 0 \in 0 .. MaxId
    BY ConstantsAssumption DEF Steps
  <2>2. PICK t \in TwoFactorTokens : claimed' = claimed \cup {t}
                                     /\ Start(r, "verify2fa", 0, t)
    BY <1>3 DEF ClaimTwoFactor
  <2>3. t \in Tokens
    BY <2>2 DEF Tokens
  <2>4. req' \in [Requests -> Locals]
    BY <2>1, <2>2, <2>3, StartType
  <2> QED BY <1>3, <2>2, <2>3, <2>4 DEF ClaimTwoFactor, rows, history
<1>4. CASE VerifyTwoFactor(r)
  <2>1. "load2fa" \in Steps
    BY DEF Steps
  <2>2. req' \in [Requests -> Locals]
    BY <1>4, <2>1, GotoType, ReturnType DEF VerifyTwoFactor
  <2> QED BY <1>4, <2>2 DEF VerifyTwoFactor, rows, history
<1>5. CASE LoadTwoFactorUser(r)
  <2>1. "lock" \in Steps
    BY DEF Steps
  <2>2. req' \in [Requests -> Locals]
    BY <1>5, <2>1, GotoType, ReturnType DEF LoadTwoFactorUser
  <2> QED BY <1>5, <2>2 DEF LoadTwoFactorUser, rows, history, redis
<1>6. CASE TryLock(r)
  <2>1. {"count", "wait"} \subseteq Steps
    BY DEF Steps
  <2>2. req' \in [Requests -> Locals]
    BY <1>6, <2>1, GotoType DEF TryLock
  <2>3. lock' \in BOOLEAN
    BY <1>6 DEF TryLock, SetIfAbsent
  <2> QED BY <1>6, <2>2, <2>3 DEF TryLock, rows, history
<1>7. CASE RetryLock(r)
  <2>1. "count" \in Steps
    BY DEF Steps
  <2>2. req' \in [Requests -> Locals]
    BY <1>7, <2>1, GotoType DEF RetryLock
  <2>3. lock' \in BOOLEAN
    BY <1>7 DEF RetryLock, SetIfAbsent
  <2> QED BY <1>7, <2>2, <2>3 DEF RetryLock, rows, history
<1>8. CASE EnforceLimit(r)
  <2>1. "create" \in Steps
    BY DEF Steps
  <2>2. req' \in [Requests -> Locals]
    BY <1>8, <2>1, GotoType, ReturnType DEF EnforceLimit
  <2>3. issued' \subseteq Tokens
    BY <1>8 DEF EnforceLimit, IssueConflictToken, Tokens
  <2> QED BY <1>8, <2>2, <2>3 DEF EnforceLimit, rows, history
<1>9. CASE CreateSession(r)
  <2>1. req' \in [Requests -> Locals]
    BY <1>9, ReturnType DEF CreateSession
  <2>2. req[r].tok \in Tokens \cup {NoToken}
    BY DEF Locals
  <2>3. nextId \in SessionIds /\ nextId' \in 1 .. (MaxId + 1)
    BY <1>9, ConstantsAssumption DEF CreateSession, SessionIds
  <2>4. family' \in [SessionIds -> 0 .. MaxId]
    BY <1>9, <2>3, ConstantsAssumption DEF CreateSession, SessionIds
  <2>5. row' \in [SessionIds -> RowStates]
    BY <1>9 DEF CreateSession, RowStates
  <2>6. cause' \in [SessionIds -> Causes]
    <3>1. CauseNow("late") \in Causes
      BY CauseType DEF Causes
    <3> QED BY <1>9, <3>1 DEF CreateSession
  <2> QED BY <1>9, <2>1, <2>2, <2>3, <2>4, <2>5, <2>6 DEF CreateSession, redis
<1> QED BY <1>1, <1>2, <1>3, <1>4, <1>5, <1>6, <1>7, <1>8, <1>9 DEF LoginStep

LEMMA ResolveStepType ==
  ASSUME TypeInv, NEW r \in Requests, ResolveStep(r) PROVE TypeOK'
<1> USE DEF TypeInv, TypeOK
<1>1. CASE ResolveConflict(r)
  <2>1. "claim" \in Steps
    BY DEF Steps
  <2>2. PICK t \in ConflictTokens, s \in Live : Start(r, "claim", s, t)
    BY <1>1 DEF ResolveConflict
  <2>3. t \in Tokens /\ s \in 0 .. MaxId
    BY <2>2 DEF Tokens, Live, SessionIds
  <2>4. req' \in [Requests -> Locals]
    BY <2>1, <2>2, <2>3, StartType
  <2> QED BY <1>1, <2>4 DEF ResolveConflict, rows, history, redis
<1>2. CASE ClaimConflict(r)
  <2>1. "drop" \in Steps
    BY DEF Steps
  <2>2. req' \in [Requests -> Locals]
    BY <1>2, <2>1, GotoType, ReturnType DEF ClaimConflict
  <2>3. claimed' \subseteq Tokens
    <3>1. req[r].tok \in Tokens
      BY <1>2 DEF ClaimConflict, Held
    <3> QED BY <1>2, <3>1 DEF ClaimConflict
  <2> QED BY <1>2, <2>2, <2>3 DEF ClaimConflict, rows, history
<1>3. CASE DropChosen(r)
  <2>1. "recount" \in Steps /\ 0 \in 0 .. MaxId
    BY ConstantsAssumption DEF Steps
  <2>2. req' \in [Requests -> Locals]
    BY <1>3, <2>1 DEF DropChosen, Locals
  <2> QED BY <1>3, <2>2, DeletionType DEF DropChosen, history, redis
<1>4. CASE Recount(r)
  <2>1. "load" \in Steps
    BY DEF Steps
  <2>2. req' \in [Requests -> Locals]
    BY <1>4, <2>1, GotoType, ReturnType DEF Recount
  <2>3. issued' \subseteq Tokens
    BY <1>4 DEF Recount, IssueConflictToken, Tokens
  <2> QED BY <1>4, <2>2, <2>3 DEF Recount, rows, history
<1>5. CASE LoadConflictUser(r)
  <2>1. "create" \in Steps
    BY DEF Steps
  <2>2. req' \in [Requests -> Locals]
    BY <1>5, <2>1, GotoType, ReturnType DEF LoadConflictUser
  <2> QED BY <1>5, <2>2 DEF LoadConflictUser, rows, history, redis
<1> QED BY <1>1, <1>2, <1>3, <1>4, <1>5 DEF ResolveStep

LEMMA RefreshStepType ==
  ASSUME TypeInv, NEW r \in Requests, RefreshStep(r) PROVE TypeOK'
<1> USE DEF TypeInv, TypeOK
<1>1. CASE Refresh(r)
  <2>1. {"theft", "expired", "rotate"} \subseteq Steps
    BY DEF Steps
  <2>2. PICK s \in Issued, step \in {"theft", "expired", "rotate"} :
          Start(r, step, s, NoToken)
    BY <1>1 DEF Refresh
  <2>3. s \in 0 .. MaxId
    BY <2>2 DEF Issued, SessionIds
  <2>4. req' \in [Requests -> Locals]
    BY <2>1, <2>2, <2>3, StartType
  <2> QED BY <1>1, <2>4 DEF Refresh, rows, history, redis
<1>2. CASE RevokeOnTheft(r)
  <2>1. req' \in [Requests -> Locals]
    BY <1>2, DeletionStarts, StartDeletionType DEF Steps
  <2> QED BY <1>2, <2>1 DEF RevokeOnTheft, rows, history, redis
<1>3. CASE DeleteExpired(r)
  BY <1>3, ReturnType, DeletionType DEF DeleteExpired, history, redis
<1>4. CASE RotateSession(r)
  <2>1. req' \in [Requests -> Locals]
    BY <1>4, ReturnType DEF RotateSession
  <2>2. req[r].sid \in SessionIds
    BY <1>4 DEF RotateSession, Held
  <2>3. nextId \in SessionIds /\ nextId' \in 1 .. (MaxId + 1)
    BY <1>4, ConstantsAssumption DEF RotateSession, SessionIds
  <2>4. row' \in [SessionIds -> RowStates]
    BY <1>4, <2>2 DEF RotateSession, RowStates
  <2>5. cause' \in [SessionIds -> Causes]
    <3>1. CauseNow(cause[req[r].sid]) \in Causes /\ "regular" \in Causes
      BY <2>2, CauseType DEF Causes
    <3> QED BY <1>4, <3>1 DEF RotateSession
  <2> QED BY <1>4, <2>1, <2>2, <2>3, <2>4, <2>5 DEF RotateSession, redis
<1>5. CASE RotateAborts(r)
  BY <1>5, ReturnType DEF RotateAborts, rows, history, redis
<1> QED BY <1>1, <1>2, <1>3, <1>4, <1>5 DEF RefreshStep

LEMMA OtherRequestStepType ==
  ASSUME TypeOK, NEW r \in Requests,
         \/ FindTarget(r) \/ TerminateSession(r) \/ RequestDies(r)
  PROVE  TypeOK'
<1> USE DEF TypeOK
<1>1. CASE FindTarget(r)
  <2>1. "terminate" \in Steps
    BY DEF Steps
  <2>2. PICK s \in Live : Start(r, "terminate", s, NoToken)
    BY <1>1 DEF FindTarget
  <2>3. s \in 0 .. MaxId
    BY <2>2 DEF Live, SessionIds
  <2>4. req' \in [Requests -> Locals]
    BY <2>1, <2>2, <2>3, StartType
  <2> QED BY <1>1, <2>4 DEF FindTarget, rows, history, redis
<1>2. CASE TerminateSession(r)
  BY <1>2, ReturnType, DeletionType DEF TerminateSession, history, redis
<1>3. CASE RequestDies(r)
  BY <1>3, ReturnType DEF RequestDies, rows, history, redis
<1> QED BY <1>1, <1>2, <1>3

LEMMA RevokeStepType ==
  ASSUME TypeOK, NEW r \in Requests, RevokeStep(r) PROVE TypeOK'
<1> USE DEF TypeOK
<1>1. CASE DeletionCommits(r)
  BY <1>1, ReturnType, DeletionType DEF DeletionCommits, history, redis
<1>2. CASE StatusChanges(r)
  BY <1>2, ReturnType, DeletionType DEF StatusChanges, Statuses, history, redis
<1>3. CASE ~ DeletionCommits(r) /\ ~ StatusChanges(r)
  <2>1. req' \in [Requests -> Locals] /\ UNCHANGED <<status, rows, redis>>
    BY <1>3, DeletionStarts, StartDeletionType DEF RevokeStep, Steps
  <2> QED BY <2>1 DEF rows, history, redis
<1> QED BY <1>1, <1>2, <1>3

LEMMA UserStepType ==
  ASSUME TypeOK, UserStep PROVE TypeOK'
<1> USE DEF TypeOK, history, redis
<1>1. CASE Logout
  BY <1>1, DeletionType DEF Logout
<1>2. CASE UnsuspendUser
  BY <1>2 DEF UnsuspendUser, Statuses, rows
<1>3. CASE ReactivateUser
  BY <1>3 DEF ReactivateUser, Statuses, rows
<1> QED BY <1>1, <1>2, <1>3 DEF UserStep

LEMMA TimeStepType ==
  ASSUME TypeOK, TimeStep PROVE TypeOK'
<1> USE DEF TypeOK, history, redis
<1>1. CASE LockGoes
  BY <1>1 DEF LockGoes, rows
<1>2. CASE SessionExpires
  BY <1>2 DEF SessionExpires, RowStates
<1>3. CASE GuardDropsExpired
  BY <1>3, DeletionType DEF GuardDropsExpired
<1> QED BY <1>1, <1>2, <1>3 DEF TimeStep

\* A request's step leaves the other requests' locals alone.
LEMMA OthersUntouched ==
  ASSUME TypeOK, NEW r \in Requests, RequestStep(r),
         NEW q \in Requests, q # r
  PROVE  req'[q] = req[q]
<1> USE DEF TypeOK, Goto, Return, Start
<1>1. CASE LoginStep(r)
  BY <1>1 DEF LoginStep, Login, LoginNeedsTwoFactor, ClaimTwoFactor,
     VerifyTwoFactor, LoadTwoFactorUser, TryLock, RetryLock, EnforceLimit,
     CreateSession
<1>2. CASE ResolveStep(r)
  BY <1>2 DEF ResolveStep, ResolveConflict, ClaimConflict, DropChosen, Recount,
     LoadConflictUser
<1>3. CASE RefreshStep(r)
  BY <1>3 DEF RefreshStep, Refresh, RevokeOnTheft, StartDeletion, DeleteExpired,
     RotateSession, RotateAborts
<1>4. CASE FindTarget(r) \/ TerminateSession(r) \/ RequestDies(r)
  BY <1>4 DEF FindTarget, TerminateSession, RequestDies
<1>5. CASE RevokeStep(r)
  <2>1. CASE DeletionCommits(r) \/ StatusChanges(r)
    BY <2>1 DEF DeletionCommits, StatusChanges
  <2>2. CASE ~ DeletionCommits(r) /\ ~ StatusChanges(r)
    BY <1>5, <2>2, DeletionStarts DEF RevokeStep, StartDeletion
  <2> QED BY <2>1, <2>2
<1> QED BY <1>1, <1>2, <1>3, <1>4, <1>5 DEF RequestStep

\* How a request comes to each of the steps that matter below.  The steps it
\* comes to in another way, and those it stays at, are in the first disjunct.
LEMMA Arrives ==
  ASSUME TypeOK, NEW r \in Requests, RequestStep(r)
  PROVE  \/ req'[r].pc \notin {"claim", "rotate", "create", "load", "suspend",
                              "deactivate"}
         \/ req'[r] = req[r]
         \/ req'[r].pc = "claim" /\ req'[r].tok \in Tokens
         \/ /\ req'[r].pc = "rotate" /\ req'[r].sid \in Issued
            /\ status = "ACTIVE" /\ UNCHANGED <<status, rows>>
         \/ /\ req'[r].pc \in {"create", "load"}
            /\ \/ req[r].pc = "load"
               \/ ~ (Cardinality(Live) >= MaxSessions) /\ UNCHANGED rows
         \/ /\ req'[r].pc \in {"suspend", "deactivate"}
            /\ req'[r].sid = 0 /\ req'[r].top = nextId
            /\ UNCHANGED <<status, rows>>
<1>0. req \in [Requests -> Locals]
  BY DEF TypeOK
<1>1. CASE LoginStep(r)
  <2>1. CASE Login(r) \/ LoginNeedsTwoFactor(r) \/ ClaimTwoFactor(r)
             \/ VerifyTwoFactor(r) \/ LoadTwoFactorUser(r) \/ TryLock(r)
             \/ RetryLock(r) \/ CreateSession(r)
    <3>1. \/ Return(r) \/ UNCHANGED req
          \/ \E step \in {"load2fa", "lock", "wait", "count"} : Goto(r, step)
          \/ \E step \in {"lock", "verify2fa"} : \E t : Start(r, step, 0, t)
      BY <2>1 DEF Login, LoginNeedsTwoFactor, ClaimTwoFactor, VerifyTwoFactor,
         LoadTwoFactorUser, TryLock, RetryLock, CreateSession
    <3>2. CASE \E step \in {"load2fa", "lock", "wait", "count"} : Goto(r, step)
      BY <1>0, <3>2, GotoMoved
    <3>3. CASE \E step \in {"lock", "verify2fa"} : \E t : Start(r, step, 0, t)
      BY <1>0, <3>3, Moved
    <3> QED BY <1>0, <3>1, <3>2, <3>3, Moved
  <2>2. CASE EnforceLimit(r)
    <3>1. CASE Cardinality(Live) >= MaxSessions
      BY <1>0, <2>2, <3>1, Moved DEF EnforceLimit
    <3>2. CASE ~ (Cardinality(Live) >= MaxSessions)
      <4>1. req'[r].pc = "create"
        BY <1>0, <2>2, <3>2, GotoMoved DEF EnforceLimit
      <4> QED BY <2>2, <3>2, <4>1 DEF EnforceLimit
    <3> QED BY <3>1, <3>2
  <2> QED BY <1>1, <2>1, <2>2 DEF LoginStep
<1>2. CASE ResolveStep(r)
  <2>1. CASE ResolveConflict(r)
    <3> PICK t \in ConflictTokens, s \in Live : Start(r, "claim", s, t)
      BY <2>1 DEF ResolveConflict
    <3> QED BY <1>0, Moved DEF Tokens
  <2>2. CASE ClaimConflict(r)
    <3>1. CASE Goto(r, "drop")
      BY <1>0, <3>1, GotoMoved
    <3>2. CASE Return(r)
      BY <1>0, <3>2, Moved
    <3> QED BY <2>2, <3>1, <3>2 DEF ClaimConflict
  <2>3. CASE DropChosen(r)
    <3>1. req'[r] = [req[r] EXCEPT !.pc = "recount", !.sid = 0]
      BY <1>0, <2>3 DEF DropChosen
    <3>2. req'[r].pc = "recount"
      BY <1>0, <3>1 DEF Locals
    <3> QED BY <3>2
  <2>4. CASE Recount(r)
    <3>1. CASE Cardinality(Live) >= MaxSessions
      BY <1>0, <2>4, <3>1, Moved DEF Recount
    <3>2. CASE ~ (Cardinality(Live) >= MaxSessions)
      <4>1. req'[r].pc = "load"
        BY <1>0, <2>4, <3>2, GotoMoved DEF Recount
      <4> QED BY <2>4, <3>2, <4>1 DEF Recount
    <3> QED BY <3>1, <3>2
  <2>5. CASE LoadConflictUser(r)
    <3>1. req[r].pc = "load" /\ (Goto(r, "create") \/ Return(r))
      BY <2>5 DEF LoadConflictUser, At
    <3>2. CASE Goto(r, "create")
      BY <1>0, <3>1, <3>2, GotoMoved
    <3>3. CASE Return(r)
      BY <1>0, <3>3, Moved
    <3> QED BY <3>1, <3>2, <3>3
  <2> QED BY <1>2, <2>1, <2>2, <2>3, <2>4, <2>5 DEF ResolveStep
<1>3. CASE RefreshStep(r) /\ ~ RevokeOnTheft(r)
  <2>1. CASE Refresh(r)
    BY <1>0, <2>1, Moved DEF Refresh
  <2>2. CASE ~ Refresh(r)
    <3>1. Return(r)
      BY <1>3, <2>2 DEF RefreshStep, DeleteExpired, RotateSession, RotateAborts
    <3> QED BY <1>0, <3>1, Moved
  <2> QED BY <2>1, <2>2
<1>4. CASE FindTarget(r) \/ TerminateSession(r) \/ RequestDies(r)
  BY <1>0, <1>4, Moved DEF FindTarget, TerminateSession, RequestDies
<1>5. CASE DeletionCommits(r) \/ StatusChanges(r)
  BY <1>0, <1>5, Moved DEF DeletionCommits, StatusChanges
<1>6. CASE \/ RevokeOnTheft(r) \/ LogoutAll(r) \/ RevokeAll(r)
           \/ SuspendUser(r) \/ DeactivateUser(r) \/ SwitchAuthProvider(r)
  BY <1>0, <1>6, DeletionStarts, StartDeletionMoved
<1> QED BY <1>1, <1>2, <1>3, <1>4, <1>5, <1>6
        DEF RequestStep, RefreshStep, RevokeStep

LEMMA StepHeld ==
  ASSUME TypeInv, NEW r \in Requests, RequestStep(r)
  PROVE  Held(r)'
BY Arrives DEF TypeInv, Held, At, Issued

LEMMA NextType ==
  ASSUME TypeInv, [Next]_vars PROVE TypeInv'
<1> USE DEF TypeInv
<1>1. CASE \E r \in Requests : RequestStep(r)
  <2> PICK r \in Requests : RequestStep(r)
    BY <1>1
  <2>1. TypeOK'
    BY LoginStepType, ResolveStepType, RefreshStepType, RevokeStepType,
       OtherRequestStepType DEF RequestStep
  <2>2. ASSUME NEW q \in Requests PROVE Held(q)'
    <3>1. CASE q = r
      BY <3>1, StepHeld
    <3>2. CASE q # r
      BY <3>2, OthersUntouched DEF Held, At
    <3> QED BY <3>1, <3>2
  <2> QED BY <2>1, <2>2
<1>2. CASE UserStep
  <2>1. TypeOK'
    BY <1>2, UserStepType
  <2>2. UNCHANGED req
    BY <1>2 DEF UserStep, Logout, UnsuspendUser, ReactivateUser
  <2> QED BY <2>1, <2>2 DEF Held, At
<1>3. CASE TimeStep
  <2>1. TypeOK'
    BY <1>3, TimeStepType
  <2>2. UNCHANGED req
    BY <1>3 DEF TimeStep, LockGoes, SessionExpires, GuardDropsExpired
  <2> QED BY <2>1, <2>2 DEF Held, At
<1>4. CASE UNCHANGED vars
  BY <1>4 DEF vars, TypeOK, Held, At
<1> QED BY <1>1, <1>2, <1>3, <1>4 DEF Next

LEMMA TypeInvariant == Spec => []TypeInv
BY InitType, NextType, PTL DEF Spec

\* The values of every row, token, lock and request stay in their types.
THEOREM TypeCorrect == Spec => []TypeOK
BY TypeInvariant, PTL DEF TypeInv

-----------------------------------------------------------------------------
(* Rows.  Only CreateSession and RotateSession add a row; every other step  *)
(* keeps a row, deletes it, or lets it expire.                              *)

RowsOnlyGo ==
  /\ UNCHANGED history
  /\ \A s \in SessionIds :
       \/ row'[s] = row[s] /\ cause'[s] = cause[s]
       \/ row'[s] = "absent"
       \/ row[s] = "live" /\ row'[s] = "expired" /\ cause'[s] = cause[s]

LEMMA Deletions ==
  ASSUME TypeOK, NEW s, UNCHANGED history, DeleteRow(s) \/ DeleteFound(s)
  PROVE  RowsOnlyGo
BY DEF TypeOK, DeleteRow, DeleteFound, RowsOnlyGo

LEMMA RequestStepShape ==
  ASSUME TypeOK, NEW r \in Requests, RequestStep(r)
  PROVE  RowsOnlyGo \/ CreateSession(r) \/ RotateSession(r)
<1>1. CASE LoginStep(r) /\ ~ CreateSession(r)
  <2>1. UNCHANGED rows
    BY <1>1 DEF LoginStep, Login, LoginNeedsTwoFactor, ClaimTwoFactor,
       VerifyTwoFactor, LoadTwoFactorUser, TryLock, RetryLock, EnforceLimit
  <2> QED BY <2>1 DEF RowsOnlyGo, rows
<1>2. CASE ResolveStep(r)
  <2>1. UNCHANGED rows \/ (DeleteRow(req[r].sid) /\ UNCHANGED history)
    BY <1>2 DEF ResolveStep, ResolveConflict, ClaimConflict, DropChosen,
       Recount, LoadConflictUser
  <2> QED BY <2>1, Deletions DEF RowsOnlyGo, rows
<1>3. CASE RefreshStep(r) /\ ~ RotateSession(r)
  <2>1. UNCHANGED rows \/ (DeleteRow(req[r].sid) /\ UNCHANGED history)
    BY <1>3 DEF RefreshStep, Refresh, RevokeOnTheft, DeleteExpired, RotateAborts
  <2> QED BY <2>1, Deletions DEF RowsOnlyGo, rows
<1>4. CASE FindTarget(r) \/ TerminateSession(r) \/ RequestDies(r)
  <2>1. UNCHANGED rows \/ (DeleteRow(req[r].sid) /\ UNCHANGED history)
    BY <1>4 DEF FindTarget, TerminateSession, RequestDies
  <2> QED BY <2>1, Deletions DEF RowsOnlyGo, rows
<1>5. CASE RevokeStep(r)
  <2>1. UNCHANGED rows \/ (DeleteFound(r) /\ UNCHANGED history)
    BY <1>5 DEF RevokeStep, LogoutAll, RevokeAll, SuspendUser, DeactivateUser,
       SwitchAuthProvider, DeletionCommits, StatusChanges
  <2> QED BY <2>1, Deletions DEF RowsOnlyGo, rows
<1> QED BY <1>1, <1>2, <1>3, <1>4, <1>5 DEF RequestStep

LEMMA OtherStepShape ==
  ASSUME TypeOK, UserStep \/ TimeStep \/ UNCHANGED vars
  PROVE  RowsOnlyGo
<1>1. CASE UserStep
  <2>1. UNCHANGED rows \/ (UNCHANGED history /\ \E s \in SessionIds : DeleteRow(s))
    BY <1>1 DEF UserStep, Logout, UnsuspendUser, ReactivateUser, Issued
  <2> QED BY <2>1, Deletions DEF RowsOnlyGo, rows
<1>2. CASE TimeStep
  <2>1. CASE LockGoes
    BY <2>1 DEF LockGoes, RowsOnlyGo, rows
  <2>2. CASE SessionExpires
    BY <2>2 DEF SessionExpires, RowsOnlyGo, Live, TypeOK
  <2>3. CASE GuardDropsExpired
    BY <2>3, Deletions DEF GuardDropsExpired
  <2> QED BY <1>2, <2>1, <2>2, <2>3 DEF TimeStep
<1>3. CASE UNCHANGED vars
  BY <1>3 DEF vars, RowsOnlyGo, history
<1> QED BY <1>1, <1>2, <1>3

LEMMA StepShape ==
  ASSUME TypeOK, [Next]_vars
  PROVE  \/ RowsOnlyGo
         \/ \E r \in Requests : CreateSession(r) \/ RotateSession(r)
BY RequestStepShape, OtherStepShape DEF Next

\* The inductive invariant: ids and logins are drawn from the ids already
\* issued, so the next id is new to both, and no login has two rows.
RowInv ==
  /\ \A s \in SessionIds : Present(s) => s < nextId
  /\ \A s \in SessionIds : family[s] < nextId
  /\ OneRowPerLogin

LEMMA InitRows == Init => RowInv
BY ConstantsAssumption DEF Init, RowInv, OneRowPerLogin, Present, SessionIds

LEMMA NextRows ==
  ASSUME TypeInv, RowInv, [Next]_vars PROVE RowInv'
<1> USE DEF TypeInv, TypeOK
<1>1. CASE RowsOnlyGo
  BY <1>1 DEF RowsOnlyGo, history, RowInv, OneRowPerLogin, Present
<1>2. ASSUME NEW r \in Requests, CreateSession(r) PROVE RowInv'
  BY <1>2 DEF CreateSession, RowInv, OneRowPerLogin, Present, SessionIds
<1>3. ASSUME NEW r \in Requests, RotateSession(r) PROVE RowInv'
  <2>1. req[r].sid \in SessionIds
    BY <1>3 DEF RotateSession, Held
  <2> QED BY <1>3, <2>1 DEF RotateSession, RowInv, OneRowPerLogin, Present, SessionIds
<1> QED BY <1>1, <1>2, <1>3, StepShape

LEMMA RowInvariant == Spec => [](TypeInv /\ RowInv)
<1>1. Init => TypeInv /\ RowInv
  BY InitType, InitRows
<1>2. TypeInv /\ RowInv /\ [Next]_vars => (TypeInv /\ RowInv)'
  BY NextType, NextRows
<1> QED BY <1>1, <1>2, PTL DEF Spec

\* No interleaving of refreshes, revocations and logins ever leaves two rows
\* descending from one login.
THEOREM LoginNeverForks == Spec => []OneRowPerLogin
BY RowInvariant, PTL DEF RowInv

\* Once every row of a login is gone, no refresh in flight brings one back.
THEOREM RevocationIsFinal == Spec => RevokedLoginStaysDead
<1>1. ASSUME TypeInv, RowInv, [Next]_vars,
             NEW f \in Issued, ~ Alive(f)
      PROVE  ~ Alive(f)'
  <2> USE DEF TypeInv, TypeOK
  <2>1. CASE RowsOnlyGo
    BY <1>1, <2>1 DEF RowsOnlyGo, history, Alive, Present
  <2>2. ASSUME NEW r \in Requests, CreateSession(r) PROVE ~ Alive(f)'
    BY <1>1, <2>2 DEF CreateSession, Alive, Present, Issued, SessionIds
  <2>3. ASSUME NEW r \in Requests, RotateSession(r) PROVE ~ Alive(f)'
    <3>1. req[r].sid \in SessionIds
      BY <1>1, <2>3 DEF RotateSession, Held
    <3> QED BY <1>1, <2>3, <3>1 DEF RotateSession, Alive, Present, Issued, SessionIds
  <2> QED BY <1>1, <2>1, <2>2, <2>3, StepShape
<1>2. TypeInv /\ RowInv /\ [Next]_vars
        => [\A f \in Issued : ~ Alive(f) => ~ Alive(f)']_vars
  BY <1>1
<1> QED BY <1>2, RowInvariant, PTL DEF Spec, RevokedLoginStaysDead

-----------------------------------------------------------------------------
(* Renewal and the user's status.                                           *)

\* The inductive invariant.  A transaction that is about to end the status
\* deletes every row below its top, and the rows above were created while it was
\* under way.  A refresh about to rotate read its row under status ACTIVE, so if
\* the status is another one now, the row is one that such a deletion missed.
EndingInv ==
  \A r \in Requests : req[r].pc \in {"suspend", "deactivate"} =>
    /\ req[r].sid = 0
    /\ \A s \in SessionIds :
         Present(s) /\ ~ (s < req[r].top) => cause[s] = "overtaking"

RotatingInv ==
  \A r \in Requests : At(r, "rotate") =>
    /\ req[r].sid \in Issued
    /\ Present(req[r].sid) /\ status # "ACTIVE" => cause[req[r].sid] = "overtaking"

RenewInv == EndingInv /\ RotatingInv /\ StatusEndsSessions

\* A status other than ACTIVE is set only together with a deletion.
LEMMA StatusStep ==
  ASSUME [Next]_vars
  PROVE  \/ status' = status \/ status' = "ACTIVE"
         \/ \E r \in Requests : StatusChanges(r)
<1>1. ASSUME NEW r \in Requests, RequestStep(r), ~ StatusChanges(r)
      PROVE  UNCHANGED status
  <2>1. CASE LoginStep(r)
    BY <2>1 DEF LoginStep, Login, LoginNeedsTwoFactor, ClaimTwoFactor,
       VerifyTwoFactor, LoadTwoFactorUser, TryLock, RetryLock, EnforceLimit,
       CreateSession
  <2>2. CASE ResolveStep(r)
    BY <2>2 DEF ResolveStep, ResolveConflict, ClaimConflict, DropChosen,
       Recount, LoadConflictUser
  <2>3. CASE RefreshStep(r)
    BY <2>3 DEF RefreshStep, Refresh, RevokeOnTheft, DeleteExpired,
       RotateSession, RotateAborts
  <2>4. CASE RevokeStep(r)
    BY <1>1, <2>4 DEF RevokeStep, LogoutAll, RevokeAll, SuspendUser,
       DeactivateUser, SwitchAuthProvider, DeletionCommits
  <2>5. CASE FindTarget(r) \/ TerminateSession(r) \/ RequestDies(r)
    BY <2>5 DEF FindTarget, TerminateSession, RequestDies
  <2> QED BY <1>1, <2>1, <2>2, <2>3, <2>4, <2>5 DEF RequestStep
<1>2. CASE UserStep
  BY <1>2 DEF UserStep, Logout, UnsuspendUser, ReactivateUser
<1>3. CASE TimeStep
  BY <1>3 DEF TimeStep, LockGoes, SessionExpires, GuardDropsExpired
<1>4. CASE UNCHANGED vars
  BY <1>4 DEF vars
<1> QED BY <1>1, <1>2, <1>3, <1>4 DEF Next

\* A step that is not a request's leaves every request where it was.
LEMMA RequestsUntouched ==
  ASSUME UserStep \/ TimeStep \/ UNCHANGED vars
  PROVE  UNCHANGED req
BY DEF vars, UserStep, TimeStep, Logout, UnsuspendUser, ReactivateUser,
   LockGoes, SessionExpires, GuardDropsExpired

\* What a step may do to the requests the invariant speaks of.
LEMMA RequestMoves ==
  ASSUME TypeInv, [Next]_vars, NEW r \in Requests
  PROVE  \/ req'[r] = req[r]
         \/ req'[r].pc \notin {"rotate", "suspend", "deactivate"}
         \/ /\ req'[r].pc = "rotate" /\ req'[r].sid \in Issued
            /\ status = "ACTIVE" /\ UNCHANGED <<status, rows>>
         \/ /\ req'[r].pc \in {"suspend", "deactivate"}
            /\ req'[r].sid = 0 /\ req'[r].top = nextId
            /\ UNCHANGED <<status, rows>>
<1>1. CASE UserStep \/ TimeStep \/ UNCHANGED vars
  BY <1>1, RequestsUntouched
<1>2. ASSUME NEW q \in Requests, RequestStep(q), q # r PROVE req'[r] = req[r]
  BY <1>2, OthersUntouched DEF TypeInv
<1>3. CASE RequestStep(r)
  BY <1>3, Arrives DEF TypeInv
<1> QED BY <1>1, <1>2, <1>3 DEF Next

\* An id once issued never names a new row.
LEMMA IssuedRows ==
  ASSUME TypeInv, RowInv, [Next]_vars, NEW s \in Issued
  PROVE  s \in Issued' /\ (Present(s)' => Present(s) /\ cause'[s] = cause[s])
<1> USE DEF TypeInv, TypeOK, Issued, SessionIds, Present
<1>1. CASE RowsOnlyGo
  BY <1>1 DEF RowsOnlyGo, history
<1>2. CASE \E r \in Requests : CreateSession(r)
  BY <1>2 DEF CreateSession
<1>3. CASE \E r \in Requests : RotateSession(r)
  BY <1>3 DEF RotateSession
<1> QED BY <1>1, <1>2, <1>3, StepShape

\* A row that a step leaves or creates: an old row keeps its cause; a new one is
\* an overtaking one if the status is changing, and otherwise one of a login or,
\* if the user is not ACTIVE, the successor of a row with the same cause.
LEMMA RowsMove ==
  ASSUME TypeInv, RowInv, [Next]_vars, NEW s \in SessionIds, Present(s)'
  PROVE  \/ s \in Issued /\ Present(s) /\ cause'[s] = cause[s] /\ family'[s] = family[s]
         \/ /\ UNCHANGED status
            /\ StatusChanging => cause'[s] = "overtaking"
            /\ ~ StatusChanging /\ status # "ACTIVE" =>
                 \/ cause'[s] = "late" /\ family'[s] = s
                 \/ \E r \in Requests :
                      /\ At(r, "rotate") /\ Present(req[r].sid)
                      /\ cause'[s] = cause[req[r].sid]
<1> USE DEF TypeInv, TypeOK
<1>1. CASE RowsOnlyGo
  BY <1>1 DEF RowsOnlyGo, history, RowInv, Present, Issued
<1>2. ASSUME NEW r \in Requests, CreateSession(r)
      PROVE  \/ s \in Issued /\ Present(s) /\ cause'[s] = cause[s] /\ family'[s] = family[s]
             \/ /\ UNCHANGED status
                /\ StatusChanging => cause'[s] = "overtaking"
                /\ ~ StatusChanging /\ status # "ACTIVE" =>
                     cause'[s] = "late" /\ family'[s] = s
  <2>1. CASE s = nextId
    BY <1>2, <2>1 DEF CreateSession, CauseNow
  <2>2. CASE s # nextId
    BY <1>2, <2>2 DEF CreateSession, RowInv, Present, Issued
  <2> QED BY <2>1, <2>2
<1>3. ASSUME NEW r \in Requests, RotateSession(r)
      PROVE  \/ s \in Issued /\ Present(s) /\ cause'[s] = cause[s] /\ family'[s] = family[s]
             \/ /\ UNCHANGED status
                /\ StatusChanging => cause'[s] = "overtaking"
                /\ ~ StatusChanging /\ status # "ACTIVE" =>
                     cause'[s] = cause[req[r].sid]
  <2>1. req[r].sid \in SessionIds /\ req[r].sid # nextId
    BY <1>3 DEF RotateSession, Held, RowInv, SessionIds
  <2>2. CASE s = nextId
    BY <1>3, <2>1, <2>2 DEF RotateSession, CauseNow
  <2>3. CASE s # nextId /\ s # req[r].sid
    BY <1>3, <2>1, <2>3 DEF RotateSession, RowInv, Present, Issued
  <2>4. CASE s = req[r].sid
    BY <1>3, <2>1, <2>4 DEF RotateSession, Present
  <2> QED BY <2>2, <2>3, <2>4
<1>4. \A r \in Requests : RotateSession(r) => At(r, "rotate") /\ Present(req[r].sid)
  BY DEF RotateSession
<1> QED BY <1>1, <1>2, <1>3, <1>4, StepShape

LEMMA InitRenew == Init => RenewInv
BY DEF Init, RenewInv, EndingInv, RotatingInv, StatusEndsSessions, At, Idle

LEMMA NextEnding ==
  ASSUME TypeInv, RowInv, EndingInv, [Next]_vars PROVE EndingInv'
<1> SUFFICES ASSUME NEW r \in Requests, req'[r].pc \in {"suspend", "deactivate"}
             PROVE  /\ req'[r].sid = 0
                    /\ \A s \in SessionIds :
                         Present(s)' /\ ~ (s < req'[r].top) => cause'[s] = "overtaking"
  BY DEF EndingInv
<1>1. CASE req'[r] = req[r]
  <2>1. StatusChanging
    BY <1>1 DEF StatusChanging
  <2>2. ASSUME NEW s \in SessionIds, Present(s)', ~ (s < req'[r].top)
        PROVE  cause'[s] = "overtaking"
    BY <1>1, <2>1, <2>2, RowsMove DEF EndingInv
  <2> QED BY <1>1, <2>2 DEF EndingInv
<1>2. CASE req'[r] # req[r]
  <2>1. req'[r].sid = 0 /\ req'[r].top = nextId /\ UNCHANGED rows
    BY <1>2, RequestMoves
  <2> QED BY <2>1 DEF rows, RowInv, Present
<1> QED BY <1>1, <1>2

LEMMA NextRotating ==
  ASSUME TypeInv, TypeInv', RowInv, RenewInv, [Next]_vars PROVE RotatingInv'
<1> SUFFICES ASSUME NEW r \in Requests, At(r, "rotate")'
             PROVE  /\ req'[r].sid \in Issued'
                    /\ Present(req[r].sid)' /\ status' # "ACTIVE"
                         => cause'[req'[r].sid] = "overtaking"
  BY DEF RotatingInv
<1>1. CASE req'[r] = req[r]
  <2>1. PICK old \in Issued : old = req[r].sid /\ At(r, "rotate") /\ req'[r].sid = old
    BY <1>1 DEF At, RenewInv, RotatingInv
  <2>2. old \in Issued' /\ (Present(old)' => Present(old) /\ cause'[old] = cause[old])
    BY <2>1, IssuedRows
  <2>3. ASSUME row'[old] # "absent", status' # "ACTIVE"
        PROVE  cause'[old] = "overtaking"
    <3>1. Present(old) /\ cause'[old] = cause[old]
      BY <2>2, <2>3 DEF Present
    <3>2. CASE status # "ACTIVE"
      BY <2>1, <3>1, <3>2 DEF RenewInv, RotatingInv
    <3>3. CASE status = "ACTIVE"
      <4> PICK q \in Requests : StatusChanges(q)
        BY <2>3, <3>3, StatusStep
      <4>1. req[q].pc \in {"suspend", "deactivate"} /\ DeleteFound(q)
        BY DEF StatusChanges, At
      <4>2. old \in SessionIds /\ req[q].sid = 0 /\ old # 0
        BY <2>1, <4>1 DEF RenewInv, EndingInv, Issued, SessionIds
      <4>3. ~ (old < req[q].top)
        BY <2>3, <4>1, <4>2 DEF DeleteFound
      <4> QED BY <3>1, <4>1, <4>2, <4>3 DEF RenewInv, EndingInv
    <3> QED BY <3>2, <3>3
  <2> QED BY <2>1, <2>2, <2>3 DEF Present
<1>2. CASE req'[r] # req[r]
  <2>1. req'[r].sid \in Issued /\ status' = "ACTIVE"
    BY <1>2, RequestMoves DEF At
  <2> QED BY <2>1, IssuedRows
<1> QED BY <1>1, <1>2

LEMMA NextEnded ==
  ASSUME TypeInv, RowInv, RenewInv, [Next]_vars PROVE StatusEndsSessions'
<1> SUFFICES ASSUME status' # "ACTIVE", NEW s \in SessionIds, Present(s)'
             PROVE  \/ cause'[s] = "overtaking"
                    \/ cause'[s] = "late" /\ family'[s] = s
  BY DEF StatusEndsSessions
<1>1. CASE \E r \in Requests : StatusChanges(r)
  <2> PICK r \in Requests : StatusChanges(r)
    BY <1>1
  <2>1. /\ req[r].pc \in {"suspend", "deactivate"} /\ DeleteFound(r)
        /\ UNCHANGED history
    BY DEF StatusChanges, At
  <2>2. req[r].sid = 0 /\ s # 0
    BY <2>1 DEF RenewInv, EndingInv, SessionIds
  <2>3. ~ (s < req[r].top) /\ Present(s) /\ cause'[s] = cause[s]
    BY <2>1, <2>2 DEF DeleteFound, Present
  <2> QED BY <2>1, <2>3 DEF RenewInv, EndingInv
<1>2. CASE ~ \E r \in Requests : StatusChanges(r)
  <2>1. status # "ACTIVE"
    BY <1>2, StatusStep
  <2>2. CASE Present(s) /\ cause'[s] = cause[s] /\ family'[s] = family[s]
    BY <2>1, <2>2 DEF RenewInv, StatusEndsSessions
  <2>3. ASSUME NEW r \in Requests, At(r, "rotate"), Present(req[r].sid),
               cause'[s] = cause[req[r].sid]
        PROVE  cause'[s] = "overtaking"
    BY <2>1, <2>3 DEF RenewInv, RotatingInv
  <2> QED BY <2>1, <2>2, <2>3, RowsMove
<1> QED BY <1>1, <1>2

LEMMA NextRenew ==
  ASSUME TypeInv, RowInv, RenewInv, [Next]_vars PROVE RenewInv'
BY NextType, NextEnding, NextRotating, NextEnded DEF RenewInv

\* Whoever is suspended or deactivated has no session left but those created
\* while that was under way, their renewals, and late logins: no refresh that is
\* in flight at the commit renews a session that the deletion saw.
THEOREM StatusChangeEndsSessions == Spec => []StatusEndsSessions
<1>1. Init => TypeInv /\ RowInv /\ RenewInv
  BY InitType, InitRows, InitRenew
<1>2. TypeInv /\ RowInv /\ RenewInv /\ [Next]_vars => (TypeInv /\ RowInv /\ RenewInv)'
  BY NextType, NextRows, NextRenew
<1>3. RenewInv => StatusEndsSessions
  BY DEF RenewInv
<1> QED BY <1>1, <1>2, <1>3, PTL DEF Spec

-----------------------------------------------------------------------------
(* Single-use tokens.                                                       *)

\* A request past the claim carries its token until it creates a session or
\* returns.  A token is spent once a session descends from the login it allowed.
Carrying(r) == req[r].tok # NoToken /\ ~ At(r, "claim")

\* The inductive invariant: spent and carried tokens are claimed, so neither
\* can be claimed again; a token is carried by one request, and only before it
\* is spent.  It is needed because VerifyTwoFactor gives claims back.
TokenInv ==
  /\ \A s \in Issued : origin[s] # NoToken => origin[s] \in claimed
  /\ \A r \in Requests :
       Carrying(r) => /\ req[r].tok \in claimed
                      /\ \A s \in Issued : origin[s] # req[r].tok
  /\ \A q, r \in Requests :
       Carrying(q) /\ Carrying(r) /\ req[q].tok = req[r].tok => q = r
  /\ TokenYieldsOneLogin

\* What a request's step does to tokens: it carries on at most the one it
\* carried, claims one nobody had claimed, or gives its own back and returns.
CarriesOn(r) ==
  claimed' = claimed /\ (Carrying(r)' => Carrying(r) /\ req'[r].tok = req[r].tok)
Claims(r) ==
  /\ req'[r].tok \notin claimed
  /\ claimed' = claimed \cup {req'[r].tok}
GivesBack(r) ==
  /\ Carrying(r) /\ ~ Carrying(r)'
  /\ claimed' = claimed \ {req[r].tok}

\* A request that has returned carries nothing.
LEMMA ReturnCarries ==
  ASSUME req \in [Requests -> Locals], NEW r \in Requests, Return(r)
  PROVE  ~ Carrying(r)'
<1>1. req'[r] = Idle
  BY DEF Return
<1> QED BY <1>1 DEF Carrying, Idle

LEMMA GotoKeepsToken ==
  ASSUME req \in [Requests -> Locals], NEW r \in Requests, NEW step,
         Goto(r, step)
  PROVE  req'[r].tok = req[r].tok
BY Moved

LEMMA LoginTokens ==
  ASSUME TypeInv, NEW r \in Requests, LoginStep(r)
  PROVE  CarriesOn(r) \/ Claims(r) \/ GivesBack(r)
<1>0. req \in [Requests -> Locals] /\ claimed \subseteq Tokens /\ NoToken \notin Tokens
  BY ConstantsAssumption DEF TypeInv, TypeOK
<1>1. CASE Login(r)
  <2>1. req'[r].tok = NoToken /\ claimed' = claimed
    BY <1>0, <1>1, Moved DEF Login, redis
  <2> QED BY <2>1 DEF CarriesOn, Carrying
<1>2. CASE LoginNeedsTwoFactor(r)
  BY <1>2 DEF LoginNeedsTwoFactor, CarriesOn, Carrying, At
<1>3. CASE ClaimTwoFactor(r)
  <2> PICK t \in (issued \cap TwoFactorTokens) \ claimed :
        claimed' = claimed \cup {t} /\ Start(r, "verify2fa", 0, t)
    BY <1>3 DEF ClaimTwoFactor
  <2>1. req'[r].tok = t
    BY <1>0, Moved
  <2> QED BY <2>1 DEF Claims
<1>4. CASE VerifyTwoFactor(r)
  <2>1. Carrying(r) \/ req[r].tok = NoToken
    BY <1>4 DEF VerifyTwoFactor, Carrying, At
  <2>2. CASE Goto(r, "load2fa") /\ UNCHANGED claimed
    <3>1. req'[r].tok = req[r].tok
      BY <1>0, <2>2, GotoKeepsToken
    <3> QED BY <2>1, <2>2, <3>1 DEF CarriesOn, Carrying
  <2>3. CASE Return(r) /\ claimed' \in {claimed \ {req[r].tok}, claimed}
    <3>1. ~ Carrying(r)'
      BY <1>0, <2>3, ReturnCarries
    <3>2. CASE claimed' = claimed
      BY <3>1, <3>2 DEF CarriesOn
    <3>3. CASE claimed' = claimed \ {req[r].tok} /\ Carrying(r)
      BY <3>1, <3>3 DEF GivesBack
    <3>4. CASE claimed' = claimed \ {req[r].tok} /\ req[r].tok = NoToken
      BY <1>0, <3>1, <3>4 DEF CarriesOn
    <3> QED BY <2>1, <2>3, <3>2, <3>3, <3>4
  <2> QED BY <1>4, <2>2, <2>3 DEF VerifyTwoFactor
<1>5. CASE LoadTwoFactorUser(r)
  <2>1. req[r].tok # NoToken => Carrying(r)
    BY <1>5 DEF LoadTwoFactorUser, Carrying, At
  <2>2. (Goto(r, "lock") \/ Return(r)) /\ claimed' = claimed
    BY <1>5 DEF LoadTwoFactorUser, redis
  <2> QED BY <1>0, <2>1, <2>2, GotoKeepsToken, ReturnCarries DEF CarriesOn, Carrying
<1>6. CASE TryLock(r) \/ RetryLock(r) \/ EnforceLimit(r)
  <2>1. ~ At(r, "claim") /\ claimed' = claimed
    BY <1>6 DEF TryLock, RetryLock, EnforceLimit, At
  <2>2. Return(r) \/ \E step : Goto(r, step)
    BY <1>6 DEF TryLock, RetryLock, EnforceLimit
  <2>3. CASE Return(r)
    BY <1>0, <2>1, <2>3, ReturnCarries DEF CarriesOn
  <2>4. CASE \E step : Goto(r, step)
    <3>1. req'[r].tok = req[r].tok
      BY <1>0, <2>4, GotoKeepsToken
    <3> QED BY <2>1, <3>1 DEF CarriesOn, Carrying
  <2> QED BY <2>2, <2>3, <2>4
<1>7. CASE CreateSession(r)
  <2>1. Return(r) /\ claimed' = claimed
    BY <1>7 DEF CreateSession, redis
  <2> QED BY <1>0, <2>1, ReturnCarries DEF CarriesOn
<1> QED BY <1>1, <1>2, <1>3, <1>4, <1>5, <1>6, <1>7 DEF LoginStep

LEMMA OtherTokens ==
  ASSUME TypeInv, NEW r \in Requests, RequestStep(r), ~ LoginStep(r)
  PROVE  CarriesOn(r) \/ Claims(r)
<1>0. req \in [Requests -> Locals] /\ NoToken \notin Tokens
  BY ConstantsAssumption DEF TypeInv, TypeOK
<1>1. CASE ResolveConflict(r)
  <2> PICK t \in ConflictTokens, s \in Live : Start(r, "claim", s, t)
    BY <1>1 DEF ResolveConflict
  <2>1. req'[r].pc = "claim"
    BY <1>0, Moved
  <2> QED BY <1>1, <2>1 DEF ResolveConflict, redis, CarriesOn, Carrying, At
<1>2. CASE ClaimConflict(r)
  <2>1. CASE /\ req[r].tok \notin claimed
             /\ claimed' = claimed \cup {req[r].tok}
             /\ Goto(r, "drop")
    BY <1>0, <2>1, GotoKeepsToken DEF Claims
  <2>2. CASE Return(r) /\ UNCHANGED claimed
    BY <1>0, <2>2, ReturnCarries DEF CarriesOn
  <2> QED BY <1>2, <2>1, <2>2 DEF ClaimConflict
<1>3. CASE DropChosen(r)
  <2>1. req'[r] = [req[r] EXCEPT !.pc = "recount", !.sid = 0]
    BY <1>0, <1>3 DEF DropChosen
  <2>2. req'[r].tok = req[r].tok
    BY <1>0, <2>1 DEF Locals
  <2> QED BY <1>3, <2>2 DEF DropChosen, redis, CarriesOn, Carrying, At
<1>4. CASE Recount(r) \/ LoadConflictUser(r)
  <2>1. claimed' = claimed /\ ~ At(r, "claim")
    BY <1>4 DEF Recount, LoadConflictUser, redis, At
  <2>2. Goto(r, "load") \/ Goto(r, "create") \/ Return(r)
    BY <1>4 DEF Recount, LoadConflictUser
  <2>3. CASE Return(r)
    BY <1>0, <2>1, <2>3, ReturnCarries DEF CarriesOn
  <2>4. CASE \E step : Goto(r, step)
    <3>1. req'[r].tok = req[r].tok
      BY <1>0, <2>4, GotoKeepsToken
    <3> QED BY <2>1, <3>1 DEF CarriesOn, Carrying
  <2> QED BY <2>2, <2>3, <2>4
<1>5. CASE Refresh(r) \/ FindTarget(r)
  <2>1. (\E step, s : Start(r, step, s, NoToken)) /\ claimed' = claimed
    BY <1>5 DEF Refresh, FindTarget, redis
  <2>2. req'[r].tok = NoToken
    BY <1>0, <2>1, Moved
  <2> QED BY <2>1, <2>2 DEF CarriesOn, Carrying
<1>6. CASE \/ DeleteExpired(r) \/ RotateSession(r) \/ RotateAborts(r)
           \/ TerminateSession(r) \/ RequestDies(r)
           \/ DeletionCommits(r) \/ StatusChanges(r)
  <2>1. Return(r) /\ claimed' = claimed
    BY <1>6 DEF DeleteExpired, RotateSession, RotateAborts, TerminateSession,
       RequestDies, DeletionCommits, StatusChanges, redis
  <2> QED BY <1>0, <2>1, ReturnCarries DEF CarriesOn
<1>7. CASE \/ RevokeOnTheft(r) \/ LogoutAll(r) \/ RevokeAll(r)
           \/ SuspendUser(r) \/ DeactivateUser(r) \/ SwitchAuthProvider(r)
  <2>1. claimed' = claimed /\ req'[r].tok = NoToken
    BY <1>0, <1>7, DeletionStarts, StartDeletionMoved DEF TypeInv, redis
  <2> QED BY <2>1 DEF CarriesOn, Carrying
<1> QED BY <1>1, <1>2, <1>3, <1>4, <1>5, <1>6, <1>7
        DEF RequestStep, ResolveStep, RefreshStep, RevokeStep

LEMMA InitTokens == Init => TokenInv
BY DEF Init, TokenInv, TokenYieldsOneLogin, Carrying, Idle, Issued

\* Steps that add no row: the spent tokens stay what they were.
LEMMA TokensMove ==
  ASSUME TypeInv, TokenInv, NEW r \in Requests, RequestStep(r), UNCHANGED history,
         CarriesOn(r) \/ Claims(r) \/ GivesBack(r)
  PROVE  TokenInv'
<1>1. /\ Issued' = Issued
      /\ \A s \in Issued : origin'[s] = origin[s]
  BY DEF history, Issued
<1>2. TokenYieldsOneLogin'
  BY DEF history, TokenInv, TokenYieldsOneLogin, Issued
<1>3. \A q \in Requests \ {r} : req'[q] = req[q] /\ Carrying(q)' = Carrying(q)
  BY OthersUntouched DEF TypeInv, Carrying, At
<1>4. CASE CarriesOn(r)
  BY <1>1, <1>2, <1>3, <1>4 DEF CarriesOn, TokenInv
<1>5. CASE Claims(r)
  <2>1. \A s \in Issued' : origin'[s] # NoToken => origin'[s] \in claimed'
    BY <1>1, <1>5 DEF Claims, TokenInv
  <2>2. ASSUME NEW q \in Requests, Carrying(q)', q # r
        PROVE  /\ Carrying(q) /\ req'[q] = req[q]
               /\ req[q].tok # req'[r].tok /\ req[q].tok \in claimed'
    BY <1>3, <1>5, <2>2 DEF Claims, TokenInv
  <2>3. \A s \in Issued : Carrying(r)' => origin[s] # req'[r].tok
    BY <1>5 DEF Claims, TokenInv, Carrying
  <2>4. ASSUME NEW q \in Requests, Carrying(q)'
        PROVE  req'[q].tok \in claimed' /\ \A s \in Issued' : origin'[s] # req'[q].tok
    BY <1>1, <1>5, <2>2, <2>3, <2>4 DEF Claims, TokenInv
  <2>5. \A q, p \in Requests :
          Carrying(q)' /\ Carrying(p)' /\ req'[q].tok = req'[p].tok => q = p
    BY <2>2 DEF TokenInv
  <2> QED BY <1>2, <2>1, <2>4, <2>5 DEF TokenInv
<1>6. CASE GivesBack(r)
  <2>1. \A s \in Issued : origin[s] # req[r].tok
    BY <1>6 DEF GivesBack, TokenInv
  <2>2. \A s \in Issued' : origin'[s] # NoToken => origin'[s] \in claimed'
    BY <1>1, <1>6, <2>1 DEF GivesBack, TokenInv
  <2>3. ASSUME NEW q \in Requests, Carrying(q)'
        PROVE  /\ Carrying(q) /\ req'[q] = req[q]
               /\ req[q].tok \in claimed'
    BY <1>3, <1>6, <2>3 DEF GivesBack, TokenInv
  <2> QED BY <1>1, <1>2, <2>2, <2>3 DEF TokenInv
<1> QED BY <1>4, <1>5, <1>6

\* A login spends the token its request carried.
LEMMA TokensSpent ==
  ASSUME TypeInv, RowInv, TokenInv, NEW r \in Requests, CreateSession(r)
  PROVE  TokenInv'
<1> USE DEF TypeInv, TypeOK
<1>1. /\ nextId \in SessionIds /\ Issued' = Issued \cup {nextId}
      /\ nextId \notin Issued
      /\ \A s \in Issued : origin'[s] = origin[s] /\ family'[s] = family[s]
      /\ origin'[nextId] = req[r].tok
      /\ claimed' = claimed
  BY DEF CreateSession, redis, Issued, SessionIds
<1>2. req[r].tok # NoToken => Carrying(r)
  BY DEF CreateSession, Carrying, At
<1>3. ~ Carrying(r)'
  BY ReturnCarries DEF CreateSession
<1>4. \A q \in Requests \ {r} : req'[q] = req[q]
  BY DEF CreateSession, Return
<1>5. \A q \in Requests : Carrying(q)' => q # r /\ Carrying(q) /\ req'[q] = req[q]
  BY <1>3, <1>4 DEF Carrying, At
<1>6. TokenYieldsOneLogin'
  BY <1>1, <1>2 DEF TokenInv, TokenYieldsOneLogin
<1>7. \A s \in Issued' : origin'[s] # NoToken => origin'[s] \in claimed'
  BY <1>1, <1>2 DEF TokenInv
<1>8. ASSUME NEW q \in Requests, Carrying(q)'
      PROVE  req'[q].tok \in claimed' /\ \A s \in Issued' : origin'[s] # req'[q].tok
  <2>1. req[q].tok # req[r].tok
    BY <1>2, <1>5, <1>8 DEF TokenInv, Carrying
  <2> QED BY <1>1, <1>5, <1>8, <2>1 DEF TokenInv
<1>9. \A q, p \in Requests :
        Carrying(q)' /\ Carrying(p)' /\ req'[q].tok = req'[p].tok => q = p
  BY <1>5 DEF TokenInv
<1> QED BY <1>6, <1>7, <1>8, <1>9 DEF TokenInv

\* A rotated row keeps the login and the token of the one it replaces.
LEMMA TokensRotated ==
  ASSUME TypeInv, RowInv, RenewInv, TokenInv, NEW r \in Requests, RotateSession(r)
  PROVE  TokenInv'
<1> USE DEF TypeInv, TypeOK
<1> DEFINE old == req[r].sid
<1>1. old \in Issued /\ old \in SessionIds
  BY DEF RotateSession, RenewInv, RotatingInv, Issued
<1>2. /\ nextId \in SessionIds /\ Issued' = Issued \cup {nextId}
      /\ nextId \notin Issued
      /\ \A s \in Issued : origin'[s] = origin[s] /\ family'[s] = family[s]
      /\ origin'[nextId] = origin[old] /\ family'[nextId] = family[old]
      /\ claimed' = claimed
  BY DEF RotateSession, redis, Issued, SessionIds
<1>3. family'[nextId] # nextId
  <2>1. family[old] < nextId /\ family[old] \in 0 .. MaxId
    BY <1>1 DEF RowInv
  <2> QED BY <1>2, <2>1, ConstantsAssumption
<1>4. ~ Carrying(r)'
  BY ReturnCarries DEF RotateSession
<1>5. \A q \in Requests : Carrying(q)' => Carrying(q) /\ req'[q] = req[q]
  <2>1. \A q \in Requests \ {r} : req'[q] = req[q]
    BY DEF RotateSession, Return
  <2> QED BY <1>4, <2>1 DEF Carrying, At
<1>6. TokenYieldsOneLogin'
  BY <1>2, <1>3 DEF TokenInv, TokenYieldsOneLogin
<1>7. \A s \in Issued' : origin'[s] # NoToken => origin'[s] \in claimed'
  BY <1>1, <1>2 DEF TokenInv
<1>8. ASSUME NEW q \in Requests, Carrying(q)'
      PROVE  req'[q].tok \in claimed' /\ \A s \in Issued' : origin'[s] # req'[q].tok
  BY <1>1, <1>2, <1>5, <1>8 DEF TokenInv
<1>9. \A q, p \in Requests :
        Carrying(q)' /\ Carrying(p)' /\ req'[q].tok = req'[p].tok => q = p
  BY <1>5 DEF TokenInv
<1> QED BY <1>6, <1>7, <1>8, <1>9 DEF TokenInv

LEMMA NextTokens ==
  ASSUME TypeInv, RowInv, RenewInv, TokenInv, [Next]_vars PROVE TokenInv'
<1>1. CASE UserStep \/ TimeStep \/ UNCHANGED vars
  <2>1. UNCHANGED <<history, claimed, req>>
    <3>1. UNCHANGED history
      BY <1>1, OtherStepShape DEF TypeInv, RowsOnlyGo
    <3>2. UNCHANGED claimed
      BY <1>1 DEF vars, UserStep, TimeStep, Logout, UnsuspendUser,
         ReactivateUser, LockGoes, SessionExpires, GuardDropsExpired, redis
    <3> QED BY <1>1, <3>1, <3>2, RequestsUntouched
  <2> QED BY <2>1 DEF history, TokenInv, TokenYieldsOneLogin, Carrying, At,
                      Issued
<1>2. ASSUME NEW r \in Requests, RequestStep(r) PROVE TokenInv'
  <2>1. CASE CreateSession(r)
    BY <2>1, TokensSpent
  <2>2. CASE RotateSession(r)
    BY <2>2, TokensRotated
  <2>3. CASE ~ CreateSession(r) /\ ~ RotateSession(r)
    <3>1. UNCHANGED history
      BY <1>2, <2>3, RequestStepShape DEF TypeInv, RowsOnlyGo
    <3> QED BY <1>2, <3>1, LoginTokens, OtherTokens, TokensMove
  <2> QED BY <2>1, <2>2, <2>3
<1> QED BY <1>1, <1>2 DEF Next

\* However many requests present one single-use token, and however often its
\* claim is given back, at most one login descends from it.
THEOREM TokensAreSingleUse == Spec => []TokenYieldsOneLogin
<1>1. Init => TypeInv /\ RowInv /\ RenewInv /\ TokenInv
  BY InitType, InitRows, InitRenew, InitTokens
<1>2. TypeInv /\ RowInv /\ RenewInv /\ TokenInv /\ [Next]_vars
        => (TypeInv /\ RowInv /\ RenewInv /\ TokenInv)'
  BY NextType, NextRows, NextRenew, NextTokens
<1>3. TokenInv => TokenYieldsOneLogin
  BY DEF TokenInv
<1> QED BY <1>1, <1>2, <1>3, PTL DEF Spec

-----------------------------------------------------------------------------
(* The session limit.                                                       *)

LEMMA SetsFinite ==
  ASSUME TypeOK
  PROVE  /\ IsFiniteSet(Live) /\ Cardinality(Live) \in Nat
         /\ IsFiniteSet(Admitted) /\ Cardinality(Admitted) \in Nat
         /\ Cardinality(Admitted) <= Cardinality(Requests)
         /\ Cardinality(Requests) \in Nat
<1>1. IsFiniteSet(SessionIds)
  BY FS_Interval, ConstantsAssumption DEF SessionIds
<1>2. Live \in SUBSET SessionIds /\ Admitted \in SUBSET Requests
  BY DEF Live, Admitted
<1>3. IsFiniteSet(Requests)
  BY ConstantsAssumption
<1> QED BY <1>1, <1>2, <1>3, FS_Subset, FS_CardinalityType

LEMMA SetsFiniteNext ==
  ASSUME TypeOK'
  PROVE  /\ Cardinality(Live') \in Nat
         /\ Cardinality(Admitted') \in Nat
         /\ Cardinality(Admitted') <= Cardinality(Requests)
<1>1. IsFiniteSet(SessionIds) /\ IsFiniteSet(Requests)
  BY FS_Interval, ConstantsAssumption DEF SessionIds
<1>2. Live' \in SUBSET SessionIds /\ Admitted' \in SUBSET Requests
  BY DEF Live, Admitted
<1> QED BY <1>1, <1>2, FS_Subset, FS_CardinalityType

\* A request joins the admitted ones only by counting sessions below the limit.
LEMMA AdmissionStep ==
  ASSUME TypeInv, NEW r \in Requests, RequestStep(r)
  PROVE  \/ Admitted' \subseteq Admitted
         \/ Cardinality(Live) < MaxSessions /\ UNCHANGED row
<1>1. SUFFICES \/ req'[r].pc \in {"create", "load"} => req[r].pc \in {"create", "load"}
               \/ Cardinality(Live) < MaxSessions /\ UNCHANGED row
  BY OthersUntouched DEF Admitted, TypeInv
<1>2. ~ (Cardinality(Live) >= MaxSessions) => Cardinality(Live) < MaxSessions
  BY SetsFinite, ConstantsAssumption DEF TypeInv
<1> QED BY <1>2, Arrives DEF TypeInv, rows

LEMMA FewerLive ==
  ASSUME TypeOK, TypeOK', RowsOnlyGo
  PROVE  Cardinality(Live') <= Cardinality(Live)
<1>1. Live' \subseteq Live
  BY DEF Live, RowsOnlyGo
<1> QED BY <1>1, SetsFinite, FS_Subset

\* A login turns its promise into a row.
LEMMA CreationBudget ==
  ASSUME TypeInv, TypeInv', RowInv, NEW r \in Requests, CreateSession(r)
  PROVE  /\ Cardinality(Live') = Cardinality(Live) + 1
         /\ Cardinality(Admitted') = Cardinality(Admitted) - 1
<1> USE DEF TypeInv, TypeOK
<1>1. Live' = Live \cup {nextId} /\ nextId \notin Live
  BY DEF CreateSession, Live, RowInv, Present, SessionIds
<1>2. req'[r].pc = "idle" /\ req[r].pc = "create"
  BY Moved DEF CreateSession, At
<1>3. \A q \in Requests : q # r => req'[q] = req[q]
  BY DEF CreateSession, Return
<1>4. Admitted' = Admitted \ {r} /\ r \in Admitted
  BY <1>2, <1>3 DEF Admitted
<1> QED BY <1>1, <1>4, SetsFinite, FS_AddElement, FS_RemoveElement

\* Replacing one element of a finite set keeps its cardinality.
LEMMA ReplaceElement ==
  ASSUME NEW S, IsFiniteSet(S), NEW x \in S, NEW y, y \notin S
  PROVE  Cardinality((S \ {x}) \cup {y}) = Cardinality(S)
<1>1. IsFiniteSet(S \ {x}) /\ Cardinality(S \ {x}) = Cardinality(S) - 1
  BY FS_RemoveElement
<1>2. y \notin S \ {x}
  OBVIOUS
<1>3. Cardinality((S \ {x}) \cup {y}) = Cardinality(S \ {x}) + 1
  BY <1>1, <1>2, FS_AddElement
<1>4. Cardinality(S) \in Nat
  BY FS_CardinalityType
<1> QED BY <1>1, <1>3, <1>4

\* A rotation replaces a row by one in the same state.
LEMMA RotationBudget ==
  ASSUME TypeInv, TypeInv', RowInv, NEW r \in Requests, RotateSession(r)
  PROVE  Cardinality(Live') = Cardinality(Live)
<1>0. IsFiniteSet(Live) /\ Cardinality(Live) \in Nat
  BY SetsFinite DEF TypeInv
<1> USE DEF TypeInv, TypeOK
<1> DEFINE old == req[r].sid
<1>1. old \in SessionIds /\ old # nextId /\ nextId \in SessionIds
  BY DEF RotateSession, Held, RowInv, SessionIds
<1>2. nextId \notin Live
  BY DEF Live, RowInv, Present
<1>3. row' = [row EXCEPT ![old] = "absent", ![nextId] = row[old]]
  BY DEF RotateSession
<1>4. CASE row[old] = "live"
  <2>0. row \in [SessionIds -> RowStates]
    OBVIOUS
  <2>1. Live' = (Live \ {old}) \cup {nextId} /\ old \in Live
    <3> HIDE DEF TypeInv, TypeOK, old
    <3> QED BY ONLY <2>0, <1>1, <1>2, <1>4, <1>3 DEF Live
  <2> HIDE DEF TypeInv, TypeOK, old
  <2> QED BY ONLY <1>0, <1>2, <2>1, ReplaceElement
<1>5. CASE row[old] # "live"
  <2>1. Live' = Live
    BY <1>1, <1>2, <1>5, <1>3 DEF Live
  <2> QED BY <2>1
<1> QED BY <1>4, <1>5

LEMMA InitBudget == Init => AdmissionBudget
<1> SUFFICES ASSUME Init PROVE AdmissionBudget
  OBVIOUS
<1>1. PICK n \in 0 .. MaxSessions :
        row = [s \in SessionIds |-> IF s <= n THEN "live" ELSE "absent"]
  BY DEF Init
<1>2. Live = 1 .. n
  BY <1>1, ConstantsAssumption DEF Live, SessionIds
<1>3. Cardinality(Live) = n
  BY <1>2, FS_Interval, ConstantsAssumption
<1>4. Admitted = {}
  BY DEF Init, Idle, Admitted
<1>5. Cardinality(Admitted) = 0
  BY <1>4, FS_EmptySet
<1>6. Cardinality(Requests) \in Nat /\ Cardinality(Requests) # 0
  BY ConstantsAssumption, FS_EmptySet, FS_CardinalityType
<1> QED BY <1>3, <1>5, <1>6, ConstantsAssumption DEF AdmissionBudget

LEMMA NextBudget ==
  ASSUME TypeInv, RowInv, AdmissionBudget, [Next]_vars PROVE AdmissionBudget'
<1>0. TypeInv' /\ TypeOK /\ TypeOK'
  BY NextType DEF TypeInv
<1>1. /\ Cardinality(Live) \in Nat /\ Cardinality(Live') \in Nat
      /\ Cardinality(Admitted) \in Nat /\ Cardinality(Admitted') \in Nat
      /\ Cardinality(Requests) \in Nat
      /\ Cardinality(Admitted') <= Cardinality(Requests)
      /\ MaxSessions \in Nat
  BY <1>0, SetsFinite, SetsFiniteNext, ConstantsAssumption
<1>2. CASE \E r \in Requests : RequestStep(r)
  <2> PICK r \in Requests : RequestStep(r)
    BY <1>2
  <2>1. CASE CreateSession(r)
    BY <1>0, <1>1, <2>1, CreationBudget DEF AdmissionBudget
  <2>2. CASE ~ CreateSession(r)
    <3>1. Cardinality(Live') <= Cardinality(Live)
      BY <1>0, <1>1, <2>2, RequestStepShape, FewerLive, RotationBudget
    <3>2. CASE Admitted' \subseteq Admitted
      <4>1. Cardinality(Admitted') <= Cardinality(Admitted)
        BY <1>0, <3>2, SetsFinite, FS_Subset
      <4> QED BY <1>1, <3>1, <4>1 DEF AdmissionBudget
    <3>3. CASE Cardinality(Live) < MaxSessions
      BY <1>1, <3>1, <3>3 DEF AdmissionBudget
    <3> QED BY <3>2, <3>3, AdmissionStep
  <2> QED BY <2>1, <2>2
<1>3. CASE UserStep \/ TimeStep \/ UNCHANGED vars
  <2>1. Cardinality(Live') <= Cardinality(Live)
    BY <1>0, <1>3, OtherStepShape, FewerLive
  <2>2. UNCHANGED req
    BY <1>3, RequestsUntouched
  <2>3. Admitted' = Admitted
    BY <2>2 DEF Admitted
  <2> QED BY <1>1, <2>1, <2>3 DEF AdmissionBudget
<1> QED BY <1>2, <1>3 DEF Next

\* However many logins, conflict resolutions, refreshes and revocations race,
\* a user has at most MaxSessions - 1 sessions plus one per concurrent request.
THEOREM OvershootIsBounded == Spec => []OvershootBounded
<1>1. Init => TypeInv /\ RowInv /\ AdmissionBudget
  BY InitType, InitRows, InitBudget
<1>2. TypeInv /\ RowInv /\ AdmissionBudget /\ [Next]_vars
        => (TypeInv /\ RowInv /\ AdmissionBudget)'
  BY NextType, NextRows, NextBudget
<1>3. TypeInv /\ AdmissionBudget => OvershootBounded
  BY SetsFinite, ConstantsAssumption DEF TypeInv, AdmissionBudget, OvershootBounded
<1> QED BY <1>1, <1>2, <1>3, PTL DEF Spec
=============================================================================
