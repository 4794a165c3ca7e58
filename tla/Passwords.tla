------------------------------ MODULE Passwords ------------------------------
(***************************************************************************)
(* The password of one user: logins with their lockout, the links that set *)
(* it (forgot/reset, set-password), its change by the user or an           *)
(* administrator, suspension, and the sessions that rest on it.  A request *)
(* reads the user's row, hashes or compares, and writes later; the write   *)
(* selects the row by id.  Transactions run at READ COMMITTED: what one    *)
(* reads another may change before it writes.  A session that is inserted  *)
(* while a deletion has not committed counts as inserted after it.         *)
(***************************************************************************)
EXTENDS Naturals, FiniteSets

CONSTANTS
  PasswordSet,
  First,         \* the password the user begins with
  Requests,      \* requests handled at the same time
  MaxAttempts,   \* MAX_LOGIN_ATTEMPTS
  Rows,          \* bound: rows for sessions
  MaxBegun,      \* bound: requests and acts of administrators
  None

ASSUME FirstIsPassword == First \in PasswordSet
ASSUME NoneIsNoPassword == None \notin PasswordSet
ASSUME MaxAttemptsPositive == MaxAttempts \in Nat \ {0}
ASSUME MaxBegunNat == MaxBegun \in Nat
ASSUME RequestsFinite == IsFiniteSet(Requests)

VARIABLES
  status, pw, prev,   \* status, passwordHash, previousPasswordHash
  reset,              \* resetToken and the age of passwordResetRequestedAt
  setLink,            \* the age of setPasswordToken
  attempts, locked,   \* loginAttempts; loginAttemptsLockout lies in the future
  sessions,           \* per row: the password it began with, and why it stands
  reqs,               \* the requests under way
  begun,              \* how many began
  guesses,            \* history: wrong guesses recorded since a lock or a clear
  former, how,        \* history: the password replaced last, and by what
  epoch, pwEpoch,     \* history: suspensions, and those the password has seen
  alone               \* history: transactions that read the password, which no
                      \* other has replaced since

row == <<status, pw, prev, reset, setLink>>
counter == <<attempts, locked, guesses>>
history == <<former, how, epoch, pwEpoch, alone>>
vars == <<row, counter, sessions, reqs, begun, history>>

OrNone(S) == S \cup {None}
Idle == [pc |-> "idle"]
NoLink == [open |-> FALSE, age |-> "expired"]

Reqs ==
  {Idle}
    \cup [pc : {"fail"}, attempts : 0..MaxBegun]
    \cup [pc : {"session", "clear"}, pw : PasswordSet]
    \cup [pc : {"forgot"}]
    \cup [pc : {"reset", "resetting", "set"}, new : PasswordSet, seen : OrNone(PasswordSet),
          epoch : 0..MaxBegun, old : OrNone(PasswordSet)]
    \cup [pc : {"change", "changing"}, new : PasswordSet, seen : PasswordSet,
          epoch : 0..MaxBegun, old : OrNone(PasswordSet), by : Rows]
    \cup [pc : {"unsuspend"}, old : OrNone(PasswordSet)]

TypeOK ==
  /\ status \in {"ACTIVE", "SUSPENDED"}
  /\ pw \in OrNone(PasswordSet) /\ prev \in OrNone(PasswordSet)
  /\ reset \in [open : BOOLEAN, age : {"recent", "valid", "expired"}]
  /\ setLink \in [open : BOOLEAN, age : {"valid", "expired"}]
  /\ attempts \in 0..MaxBegun /\ locked \in BOOLEAN
  /\ sessions \in [Rows -> OrNone([pw : PasswordSet, why : {"current", "late", "kept"}])]
  /\ reqs \in [Requests -> Reqs]
  /\ begun \in 0..MaxBegun
  /\ guesses \in Nat
  /\ former \in OrNone(PasswordSet)
  /\ how \in {"initial", "rotated", "overlapped", "raced", "linked", "admin", "nulled"}
  /\ epoch \in 0..MaxBegun /\ pwEpoch \in 0..MaxBegun
  /\ alone \subseteq Requests

Init ==
  /\ status = "ACTIVE" /\ pw = First /\ prev = None
  /\ reset = NoLink /\ setLink = NoLink
  /\ attempts = 0 /\ locked = FALSE
  /\ sessions = [s \in Rows |-> None]
  /\ reqs = [q \in Requests |-> Idle]
  /\ begun = 0 /\ guesses = 0
  /\ former = None /\ how = "initial" /\ epoch = 0 /\ pwEpoch = 0 /\ alone = {}

-----------------------------------------------------------------------------
Begin(q, r) ==
  /\ reqs[q] = Idle
  /\ begun < MaxBegun
  /\ begun' = begun + 1
  /\ reqs' = [reqs EXCEPT ![q] = r]

End(q) ==
  /\ reqs' = [reqs EXCEPT ![q] = Idle]
  /\ UNCHANGED begun

\* validateLoginCredentials, on the row it has read: a wrong password.
WrongGuess(q) ==
  /\ pw # None
  /\ ~locked
  /\ Begin(q, [pc |-> "fail", attempts |-> attempts])
  /\ UNCHANGED <<row, counter, sessions, history>>

\* The right one, of a user who may sign in.
RightGuess(q) ==
  /\ pw # None
  /\ ~locked
  /\ status = "ACTIVE"
  /\ Begin(q, [pc |-> "session", pw |-> pw])
  /\ UNCHANGED <<row, counter, sessions, history>>

\* (mutant) One attempt too many before the lockout.
FailedAttemptLater(q) ==
  LET n == reqs[q].attempts + 1
      locks == n % (MaxAttempts + 1) = 0
  IN /\ reqs[q].pc = "fail"
     /\ attempts' = n
     /\ locked' = (locked \/ locks)
     /\ guesses' = IF locks THEN 0 ELSE guesses + 1
     /\ End(q)
     /\ UNCHANGED <<row, sessions, history>>

\* recordFailedAttempt: the count that was read, plus one; the lockout is
\* written at every multiple of the maximum and otherwise left alone.
FailedAttempt(q) ==
  LET n == reqs[q].attempts + 1
      locks == n % MaxAttempts = 0
  IN /\ reqs[q].pc = "fail"
     /\ attempts' = n
     /\ locked' = (locked \/ locks)
     /\ guesses' = IF locks THEN 0 ELSE guesses + 1
     /\ End(q)
     /\ UNCHANGED <<row, sessions, history>>

\* The lockout lies in the past; the count stays.
LockExpires ==
  /\ locked
  /\ locked' = FALSE
  /\ UNCHANGED <<row, attempts, guesses, sessions, reqs, begun, history>>

\* createLoginSession, at once or after the second factor or the choice of a
\* session to end; or never.
CreateSession(q) ==
  /\ reqs[q].pc = "session"
  /\ \E s \in Rows :
       /\ sessions[s] = None
       /\ sessions' = [sessions EXCEPT ![s] =
            [pw |-> reqs[q].pw,
             why |-> IF pw = reqs[q].pw /\ status = "ACTIVE" THEN "current" ELSE "late"]]
  /\ reqs' = [reqs EXCEPT ![q].pc = "clear"]
  /\ UNCHANGED <<row, counter, begun, history>>

LoginStops(q) ==
  /\ reqs[q].pc \in {"session", "clear"}
  /\ End(q)
  /\ UNCHANGED <<row, counter, sessions, history>>

\* clearLoginAttempts, which nobody awaits.
ClearAttempts(q) ==
  /\ reqs[q].pc = "clear"
  /\ attempts' = 0 /\ locked' = FALSE /\ guesses' = 0
  /\ End(q)
  /\ UNCHANGED <<row, sessions, history>>

-----------------------------------------------------------------------------
\* forgotPassword: the row is read, then the token written over any other.
ForgotReads(q) ==
  /\ status = "ACTIVE"
  /\ reset.age # "recent"
  /\ Begin(q, [pc |-> "forgot"])
  /\ UNCHANGED <<row, counter, sessions, history>>

ForgotWrites(q) ==
  /\ reqs[q].pc = "forgot"
  /\ reset' = [open |-> TRUE, age |-> "recent"]
  /\ End(q)
  /\ UNCHANGED <<status, pw, prev, setLink, counter, sessions, history>>

\* The reset link passes its cooldown, then its TTL; the set-password link its TTL.
ResetAges ==
  /\ reset.age # "expired"
  /\ reset' = [reset EXCEPT !.age = IF @ = "recent" THEN "valid" ELSE "expired"]
  /\ UNCHANGED <<status, pw, prev, setLink, counter, sessions, reqs, begun, history>>

SetLinkAges ==
  /\ setLink.age # "expired"
  /\ setLink' = [setLink EXCEPT !.age = "expired"]
  /\ UNCHANGED <<status, pw, prev, reset, counter, sessions, reqs, begun, history>>

Renew(q, kind, new) ==
  /\ new \notin {pw, prev}
  /\ Begin(q, [pc |-> kind, new |-> new, seen |-> pw, epoch |-> epoch, old |-> None])
  /\ UNCHANGED <<row, counter, sessions, history>>

\* resetPassword and setPasswordViaToken, up to the hash of the new password.
ResetReads(q, new) ==
  /\ reset.open /\ reset.age # "expired"
  /\ status # "SUSPENDED"
  /\ Renew(q, "reset", new)

SetReads(q, new) ==
  /\ setLink.open /\ setLink.age # "expired"
  /\ Renew(q, "set", new)

\* A request that was overtaken by a suspension, or by the same password.
Cause(r, by) ==
  IF r.epoch # epoch \/ (r.seen # pw /\ r.new = pw) THEN "raced" ELSE by

\* What every new password leaves in the history.
Replace(new, by, seenEpoch) ==
  /\ pw' = new
  /\ former' = pw
  /\ how' = by
  /\ pwEpoch' = seenEpoch
  /\ alone' = {}
  /\ UNCHANGED epoch

\* The transaction of a reset or a change reads the password once more, and
\* locks nothing.
Rereads(q) ==
  /\ reqs[q].pc \in {"reset", "change"}
  /\ reqs' = [reqs EXCEPT ![q].pc = IF @ = "reset" THEN "resetting" ELSE "changing",
                          ![q].old = pw]
  /\ alone' = alone \cup {q}
  /\ UNCHANGED <<row, counter, sessions, begun, former, how, epoch, pwEpoch>>

Unless(q, by) == IF q \in alone THEN by ELSE "overlapped"

\* (mutant) The previous password is the one read before the hash.
RotateSnapshot(q) ==
  /\ prev' = reqs[q].seen
  /\ Replace(reqs[q].new, Cause(reqs[q], Unless(q, "rotated")), reqs[q].epoch)

\* updatePasswordWithRotation writes what its transaction has read.
Rotate(q) ==
  /\ prev' = reqs[q].old
  /\ Replace(reqs[q].new, Cause(reqs[q], Unless(q, "rotated")), reqs[q].epoch)

\* (mutant) The sessions are left for the cache to forget.
ResetCommitsKeeping(q) ==
  /\ reqs[q].pc = "resetting"
  /\ Rotate(q)
  /\ reset' = NoLink
  /\ End(q)
  /\ UNCHANGED <<status, setLink, counter, sessions>>

\* updatePasswordAndRevokeSessions.
ResetCommits(q) ==
  /\ reqs[q].pc = "resetting"
  /\ Rotate(q)
  /\ reset' = NoLink
  /\ sessions' = [s \in Rows |-> None]
  /\ End(q)
  /\ UNCHANGED <<status, setLink, counter>>

\* setPasswordAndClearToken.
SetCommits(q) ==
  /\ reqs[q].pc = "set"
  /\ prev' = None
  /\ Replace(reqs[q].new, Cause(reqs[q], "linked"), reqs[q].epoch)
  /\ setLink' = NoLink
  /\ sessions' = [s \in Rows |-> None]
  /\ End(q)
  /\ UNCHANGED <<status, reset, counter>>

\* changePassword, from the session s.
ChangeReads(q, new, s) ==
  /\ sessions[s] # None
  /\ status = "ACTIVE"
  /\ pw # None
  /\ new \notin {pw, prev}
  /\ Begin(q, [pc |-> "change", new |-> new, seen |-> pw, epoch |-> epoch, old |-> None, by |-> s])
  /\ UNCHANGED <<row, counter, sessions, history>>

\* updatePasswordAndRevokeOtherSessions.
ChangeCommits(q) ==
  /\ reqs[q].pc = "changing"
  /\ Rotate(q)
  /\ sessions' = [s \in Rows |->
       IF s = reqs[q].by /\ sessions[s] # None THEN [sessions[s] EXCEPT !.why = "kept"] ELSE None]
  /\ End(q)
  /\ UNCHANGED <<status, reset, setLink, counter>>

RequestDies(q) ==
  /\ reqs[q].pc \in {"fail", "forgot", "reset", "resetting", "set", "change", "changing", "unsuspend"}
  /\ End(q)
  /\ alone' = alone \ {q}
  /\ UNCHANGED <<row, counter, sessions, former, how, epoch, pwEpoch>>

-----------------------------------------------------------------------------
Act == begun < MaxBegun /\ begun' = begun + 1 /\ UNCHANGED reqs

\* UsersService.setPassword.
AdminSets(new) ==
  /\ Act
  /\ Replace(new, "admin", epoch)
  /\ attempts' = 0 /\ locked' = FALSE /\ guesses' = 0
  /\ reset' = [reset EXCEPT !.open = FALSE]
  /\ sessions' = [s \in Rows |-> None]
  /\ UNCHANGED <<status, prev, setLink>>

\* suspendUser
Suspend ==
  /\ Act
  /\ status = "ACTIVE"
  /\ status' = "SUSPENDED"
  /\ reset' = NoLink
  /\ sessions' = [s \in Rows |-> None]
  /\ epoch' = epoch + 1
  /\ UNCHANGED <<pw, prev, setLink, counter, former, how, pwEpoch, alone>>

\* unsuspendUser reads the password in its transaction,
UnsuspendReads(q) ==
  /\ status = "SUSPENDED"
  /\ Begin(q, [pc |-> "unsuspend", old |-> pw])
  /\ alone' = alone \cup {q}
  /\ UNCHANGED <<row, counter, sessions, former, how, epoch, pwEpoch>>

\* (mutant) The password outlives the suspension.
UnsuspendKeeping(q) ==
  /\ reqs[q].pc = "unsuspend"
  /\ status = "SUSPENDED"
  /\ status' = "ACTIVE"
  /\ prev' = reqs[q].old
  /\ setLink' = [open |-> TRUE, age |-> "valid"]
  /\ alone' = alone \ {q}
  /\ End(q)
  /\ UNCHANGED <<pw, reset, counter, sessions, former, how, epoch, pwEpoch>>

\* and takes it from a user who is still suspended.
Unsuspend(q) ==
  /\ reqs[q].pc = "unsuspend"
  /\ status = "SUSPENDED"
  /\ status' = "ACTIVE"
  /\ prev' = reqs[q].old
  /\ Replace(None, Unless(q, "nulled"), epoch)
  /\ setLink' = [open |-> TRUE, age |-> "valid"]
  /\ End(q)
  /\ UNCHANGED <<reset, counter, sessions>>

Serve(q) ==
  \/ WrongGuess(q) \/ RightGuess(q) \/ FailedAttempt(q)
  \/ CreateSession(q) \/ LoginStops(q) \/ ClearAttempts(q)
  \/ ForgotReads(q) \/ ForgotWrites(q)
  \/ \E new \in PasswordSet : ResetReads(q, new) \/ SetReads(q, new)
  \/ \E new \in PasswordSet, s \in Rows : ChangeReads(q, new, s)
  \/ Rereads(q) \/ ResetCommits(q) \/ SetCommits(q) \/ ChangeCommits(q)
  \/ UnsuspendReads(q) \/ Unsuspend(q)
  \/ RequestDies(q)

Next ==
  \/ \E q \in Requests : Serve(q)
  \/ \E new \in PasswordSet : AdminSets(new)
  \/ Suspend
  \/ LockExpires \/ ResetAges \/ SetLinkAges

Spec == Init /\ [][Next]_vars

-----------------------------------------------------------------------------
\* Two logins at a time write back counts they have read earlier, so failures
\* are lost and the count even falls; but between two lockouts there are never
\* more wrong guesses than the lost counts allow.
GuessBound == (MaxAttempts * (MaxAttempts + 1)) \div 2

GuessesBounded == Cardinality(Requests) = 2 => guesses < GuessBound

\* A session stands on the current password of an active user, unless its
\* login was overtaken by the change, or the change was made from it.
SessionsAccountedFor ==
  \A s \in Rows :
    sessions[s] # None /\ sessions[s].why = "current" =>
      sessions[s].pw = pw /\ status = "ACTIVE"

\* However long a request for a new password has hashed: the previous password
\* that the next one is compared with is the one that was replaced, unless
\* another transaction replaced the password between the read and the write of
\* this one; and a rotated password differs from the one before it, unless two
\* requests brought the same one.
RotationRemembers ==
  /\ how \in {"rotated", "nulled"} => prev = former
  /\ how = "rotated" => pw # prev

\* A suspension ends the password and every link of before: the password of an
\* active user was asked for after the last suspension, unless a request was
\* under way across it.
SuspensionEndsPassword ==
  status = "ACTIVE" /\ pw # None /\ how # "raced" => pwEpoch = epoch
=============================================================================
