---------------------------- MODULE PasswordsProofs ----------------------------
(***************************************************************************)
(* What overlapping password requests cannot break, for any number of them *)
(* and any passwords: SessionsAccountedFor, RotationRemembers and          *)
(* SuspensionEndsPassword.                                                 *)
(***************************************************************************)
EXTENDS Passwords, FiniteSetTheorems, TLAPS

\* Counters stay below the number of requests and acts: a failure under way was
\* begun after the count it read.
CountsBelowBegun ==
  /\ attempts <= begun /\ epoch <= begun
  /\ \A q \in Requests : reqs[q].pc = "fail" => reqs[q].attempts < begun

\* A request for a new password was refused the one it saw.
NewDiffers ==
  \A q \in Requests :
    reqs[q].pc \in {"reset", "resetting", "set", "change", "changing"} => reqs[q].new # reqs[q].seen

\* What a request writes as the previous password is the one that still stands,
\* as long as nobody has replaced it since.
Writing == {"resetting", "changing", "unsuspend"}

AloneReads == \A q \in alone : reqs[q].pc \in Writing => reqs[q].old = pw

Inv ==
  /\ TypeOK /\ CountsBelowBegun /\ NewDiffers /\ AloneReads
  /\ SessionsAccountedFor /\ RotationRemembers /\ SuspensionEndsPassword

USE FirstIsPassword, NoneIsNoPassword, MaxAttemptsPositive, MaxBegunNat

-----------------------------------------------------------------------------
\* The first password is current, and nothing is under way.
LEMMA InitInv == Init => Inv
<1> SUFFICES ASSUME Init PROVE Inv
  OBVIOUS
<1>1. TypeOK
  <2>1. /\ status \in {"ACTIVE", "SUSPENDED"} /\ pw \in OrNone(PasswordSet) /\ prev \in OrNone(PasswordSet)
        /\ former \in OrNone(PasswordSet)
    BY DEF Init, OrNone
  <2>2. /\ reset \in [open : BOOLEAN, age : {"recent", "valid", "expired"}]
        /\ setLink \in [open : BOOLEAN, age : {"valid", "expired"}]
    BY DEF Init, NoLink
  <2>3. sessions \in [Rows -> OrNone([pw : PasswordSet, why : {"current", "late", "kept"}])]
    BY DEF Init, OrNone
  <2>4. reqs \in [Requests -> Reqs]
    BY DEF Init, Reqs
  <2>5. /\ attempts \in 0..MaxBegun /\ begun \in 0..MaxBegun /\ guesses \in Nat
        /\ epoch \in 0..MaxBegun /\ pwEpoch \in 0..MaxBegun
    BY DEF Init
  <2>6. QED
    BY <2>1, <2>2, <2>3, <2>4, <2>5 DEF Init, TypeOK
<1>2. CountsBelowBegun /\ NewDiffers /\ AloneReads
  BY DEF Init, CountsBelowBegun, NewDiffers, AloneReads, Idle
<1>3. SessionsAccountedFor /\ RotationRemembers /\ SuspensionEndsPassword
  BY DEF Init, SessionsAccountedFor, RotationRemembers, SuspensionEndsPassword
<1>4. QED
  BY <1>1, <1>2, <1>3 DEF Inv

-----------------------------------------------------------------------------
(***************************************************************************)
(* The requests under way.                                                 *)
(***************************************************************************)
\* What a request must be for the invariant to allow it.
Sound(r, b) ==
  /\ r \in Reqs
  /\ r.pc = "fail" => r.attempts < b
  /\ r.pc \in {"reset", "resetting", "set", "change", "changing"} => r.new # r.seen

LEMMA IdleIsSound == \A b : Sound(Idle, b)
  BY DEF Sound, Idle, Reqs

\* A step that begins, continues or ends a request with a sound one.
LEMMA RequestStep ==
  ASSUME Inv, NEW q \in Requests, NEW r, Sound(r, begun'),
         reqs' = [reqs EXCEPT ![q] = r],
         begun' \in {begun, begun + 1}, begun' <= MaxBegun
  PROVE  /\ reqs' \in [Requests -> Reqs] /\ begun' \in 0..MaxBegun /\ begun' >= begun
         /\ NewDiffers'
         /\ \A p \in Requests : reqs'[p].pc = "fail" => reqs'[p].attempts < begun'
<1>1. begun \in Nat /\ begun' \in 0..MaxBegun /\ begun' >= begun
  BY DEF Inv, TypeOK
<1>2. reqs \in [Requests -> Reqs]
  BY DEF Inv, TypeOK
<1>3. reqs' \in [Requests -> Reqs]
  BY <1>2 DEF Sound
<1>4. \A p \in Requests : reqs'[p] = r \/ reqs'[p] = reqs[p]
  BY <1>2
<1>5. NewDiffers'
  BY <1>4 DEF Inv, NewDiffers, Sound
<1>6. ASSUME NEW p \in Requests, reqs'[p].pc = "fail" PROVE reqs'[p].attempts < begun'
  <2>1. CASE reqs'[p] = r
    BY <1>6, <2>1 DEF Sound
  <2>2. CASE reqs'[p] = reqs[p]
    <3>1. reqs[p].pc = "fail" /\ reqs[p] \in Reqs
      BY <1>2, <1>6, <2>2
    <3>2. reqs[p].attempts \in Nat
      BY <3>1 DEF Reqs, Idle
    <3>3. reqs[p].attempts < begun
      BY <3>1 DEF Inv, CountsBelowBegun
    <3>4. QED
      BY <1>1, <2>2, <3>2, <3>3
  <2>3. QED
    BY <1>4, <2>1, <2>2
<1>7. QED
  BY <1>1, <1>3, <1>5, <1>6

\* The password stays, and a request that comes to write has read it.
LEMMA AloneStep ==
  ASSUME Inv, UNCHANGED pw, NEW q \in Requests, NEW r,
         reqs' = [reqs EXCEPT ![q] = r], alone' \subseteq alone \cup {q},
         r.pc \in Writing => r.old = pw
  PROVE  AloneReads' /\ alone' \subseteq Requests
<1>1. alone \subseteq Requests /\ reqs \in [Requests -> Reqs]
  BY DEF Inv, TypeOK
<1>2. ASSUME NEW p \in alone', reqs'[p].pc \in Writing PROVE reqs'[p].old = pw
  <2>1. CASE p = q
    BY <1>1, <1>2, <2>1
  <2>2. CASE p # q
    <3>1. p \in alone /\ reqs'[p] = reqs[p]
      BY <1>1, <1>2, <2>2
    <3>2. QED
      BY <1>2, <3>1 DEF Inv, AloneReads
  <2>3. QED
    BY <2>1, <2>2
<1>3. QED
  BY <1>1, <1>2 DEF AloneReads

\* A request is begun, reads again or ends, and nothing else happens.
LEMMA QuietStep ==
  ASSUME Inv, UNCHANGED <<row, counter, sessions, former, how, epoch, pwEpoch>>,
         NEW q \in Requests, NEW r, Sound(r, begun'),
         r.pc \in Writing => r.old = pw, alone' \subseteq alone \cup {q},
         reqs' = [reqs EXCEPT ![q] = r],
         begun' \in {begun, begun + 1}, begun' <= MaxBegun
  PROVE  Inv'
<1>1. /\ reqs' \in [Requests -> Reqs] /\ begun' \in 0..MaxBegun /\ begun' >= begun /\ NewDiffers'
      /\ \A p \in Requests : reqs'[p].pc = "fail" => reqs'[p].attempts < begun'
  BY RequestStep
<1>2. UNCHANGED <<status, pw, prev, reset, setLink, attempts, locked, guesses, sessions, former, how, epoch, pwEpoch>>
  BY DEF row, counter
<1>3. AloneReads' /\ alone' \subseteq Requests
  BY <1>2, AloneStep
<1>4. TypeOK'
  BY <1>1, <1>2, <1>3 DEF Inv, TypeOK
<1>5. CountsBelowBegun'
  <2>1. attempts \in Nat /\ epoch \in Nat /\ begun \in Nat
    BY DEF Inv, TypeOK
  <2>2. attempts <= begun /\ epoch <= begun
    BY DEF Inv, CountsBelowBegun
  <2>3. QED
    BY <1>1, <1>2, <2>1, <2>2 DEF CountsBelowBegun
<1>6. SessionsAccountedFor' /\ RotationRemembers' /\ SuspensionEndsPassword'
  BY <1>2 DEF Inv, SessionsAccountedFor, RotationRemembers, SuspensionEndsPassword
<1>7. QED
  BY <1>1, <1>3, <1>4, <1>5, <1>6 DEF Inv

LEMMA BeginInv ==
  ASSUME Inv, NEW q \in Requests, NEW r, Begin(q, r),
         Sound(r, begun + 1), r.pc \in Writing => r.old = pw,
         UNCHANGED <<row, counter, sessions, former, how, epoch, pwEpoch>>,
         alone' \subseteq alone \cup {q}
  PROVE  Inv'
<1>1. begun < MaxBegun /\ begun' = begun + 1 /\ reqs' = [reqs EXCEPT ![q] = r] /\ begun \in Nat
  BY DEF Begin, Inv, TypeOK
<1>2. begun' <= MaxBegun
  BY <1>1
<1>3. Sound(r, begun')
  BY <1>1
<1>4. QED
  BY <1>1, <1>2, <1>3, QuietStep

LEMMA EndInv ==
  ASSUME Inv, NEW q \in Requests, End(q),
         UNCHANGED <<row, counter, sessions, former, how, epoch, pwEpoch>>,
         alone' \subseteq alone \cup {q}
  PROVE  Inv'
<1>1. begun' = begun /\ reqs' = [reqs EXCEPT ![q] = Idle] /\ begun' <= MaxBegun
  BY DEF End, Inv, TypeOK
<1>2. Idle.pc \notin Writing
  BY DEF Idle, Writing
<1>3. QED
  BY <1>1, <1>2, IdleIsSound, QuietStep

\* A guess, or a link asked for: only the row is read.
LEMMA LoginReadsInv ==
  ASSUME Inv, NEW q \in Requests, WrongGuess(q) \/ RightGuess(q) \/ ForgotReads(q)
  PROVE  Inv'
<1>1. /\ pw \in OrNone(PasswordSet) /\ attempts \in 0..MaxBegun
      /\ begun \in Nat /\ attempts <= begun
  BY DEF Inv, TypeOK, CountsBelowBegun
<1>2. CASE WrongGuess(q)
  <2> DEFINE r == [pc |-> "fail", attempts |-> attempts]
  <2>1. Sound(r, begun + 1)
    BY <1>1 DEF Sound, Reqs
  <2>2. QED
    BY <1>2, <2>1, BeginInv DEF WrongGuess, Writing, history
<1>3. CASE RightGuess(q)
  <2> DEFINE r == [pc |-> "session", pw |-> pw]
  <2>1. Sound(r, begun + 1)
    BY <1>1, <1>3 DEF Sound, Reqs, RightGuess, OrNone
  <2>2. QED
    BY <1>3, <2>1, BeginInv DEF RightGuess, Writing, history
<1>4. CASE ForgotReads(q)
  <2>1. Sound([pc |-> "forgot"], begun + 1)
    BY DEF Sound, Reqs
  <2>2. QED
    BY <1>4, <2>1, BeginInv DEF ForgotReads, Writing, history
<1>5. QED
  BY <1>2, <1>3, <1>4

\* A new password by link differs from the one read.
LEMMA LinkReadsInv ==
  ASSUME Inv, NEW q \in Requests, NEW new \in PasswordSet, ResetReads(q, new) \/ SetReads(q, new)
  PROVE  Inv'
<1>1. pw \in OrNone(PasswordSet) /\ epoch \in 0..MaxBegun
  BY DEF Inv, TypeOK
<1>2. ASSUME NEW kind \in {"reset", "set"}, Renew(q, kind, new) PROVE Inv'
  <2> DEFINE r == [pc |-> kind, new |-> new, seen |-> pw, epoch |-> epoch, old |-> None]
  <2>1. new # pw
    BY <1>2 DEF Renew
  <2>2. Sound(r, begun + 1)
    BY <1>1, <2>1 DEF Sound, Reqs, OrNone
  <2>3. QED
    BY <1>2, <2>2, BeginInv DEF Renew, Writing, history
<1>3. QED
  BY <1>2 DEF ResetReads, SetReads

\* So does one that the user chooses.
LEMMA ChangeReadsInv ==
  ASSUME Inv, NEW q \in Requests, NEW new \in PasswordSet, NEW s \in Rows, ChangeReads(q, new, s)
  PROVE  Inv'
<1> DEFINE r == [pc |-> "change", new |-> new, seen |-> pw, epoch |-> epoch, old |-> None, by |-> s]
<1>1. pw \in PasswordSet /\ epoch \in 0..MaxBegun /\ new # pw
  BY DEF Inv, TypeOK, OrNone, ChangeReads
<1>2. Sound(r, begun + 1)
  BY <1>1 DEF Sound, Reqs, OrNone
<1>3. QED
  BY <1>2, BeginInv DEF ChangeReads, Writing, history

\* The transaction of a reset or a change has read the password that stands.
LEMMA RereadsInv ==
  ASSUME Inv, NEW q \in Requests, Rereads(q)
  PROVE  Inv'
<1> DEFINE r == [reqs[q] EXCEPT !.pc = IF reqs[q].pc = "reset" THEN "resetting" ELSE "changing", !.old = pw]
<1>1. /\ reqs[q] \in Reqs /\ reqs[q].pc \in {"reset", "change"} /\ pw \in OrNone(PasswordSet)
      /\ begun \in Nat /\ begun' = begun /\ begun' <= MaxBegun /\ reqs[q].new # reqs[q].seen
  BY DEF Rereads, Inv, TypeOK, NewDiffers
<1>2. reqs' = [reqs EXCEPT ![q] = r]
  BY DEF Rereads
<1>3. CASE reqs[q].pc = "reset"
  <2>1. reqs[q] \in [pc : {"reset", "resetting", "set"}, new : PasswordSet, seen : OrNone(PasswordSet),
                    epoch : 0..MaxBegun, old : OrNone(PasswordSet)]
    BY <1>1, <1>3 DEF Reqs, Idle
  <2>2. /\ r \in [pc : {"reset", "resetting", "set"}, new : PasswordSet, seen : OrNone(PasswordSet),
                 epoch : 0..MaxBegun, old : OrNone(PasswordSet)]
        /\ r.pc = "resetting" /\ r.old = pw /\ r.new = reqs[q].new /\ r.seen = reqs[q].seen
    BY <1>1, <1>3, <2>1
  <2> HIDE DEF r
  <2>3. Sound(r, begun')
    BY <1>1, <2>2 DEF Sound, Reqs
  <2>4. QED
    BY <1>1, <1>2, <2>2, <2>3, QuietStep DEF Rereads
<1>4. CASE reqs[q].pc = "change"
  <2>1. reqs[q] \in [pc : {"change", "changing"}, new : PasswordSet, seen : PasswordSet,
                    epoch : 0..MaxBegun, old : OrNone(PasswordSet), by : Rows]
    BY <1>1, <1>4 DEF Reqs, Idle
  <2>2. /\ r \in [pc : {"change", "changing"}, new : PasswordSet, seen : PasswordSet,
                 epoch : 0..MaxBegun, old : OrNone(PasswordSet), by : Rows]
        /\ r.pc = "changing" /\ r.old = pw /\ r.new = reqs[q].new /\ r.seen = reqs[q].seen
    BY <1>1, <1>4, <2>1
  <2> HIDE DEF r
  <2>3. Sound(r, begun')
    BY <1>1, <2>2 DEF Sound, Reqs
  <2>4. QED
    BY <1>1, <1>2, <2>2, <2>3, QuietStep DEF Rereads
<1>5. QED
  BY <1>1, <1>3, <1>4

\* So has the transaction that ends a suspension.
LEMMA UnsuspendReadsInv ==
  ASSUME Inv, NEW q \in Requests, UnsuspendReads(q)
  PROVE  Inv'
<1> DEFINE r == [pc |-> "unsuspend", old |-> pw]
<1>1. Sound(r, begun + 1)
  BY DEF Sound, Reqs, Inv, TypeOK
<1>2. QED
  BY <1>1, BeginInv DEF UnsuspendReads

-----------------------------------------------------------------------------
(***************************************************************************)
(* The steps that leave the password alone.                                *)
(***************************************************************************)
\* What Inv says apart from requests and counters, when only these change.
LEMMA CounterStep ==
  ASSUME Inv, UNCHANGED <<row, sessions, history>>,
         attempts' \in 0..MaxBegun, attempts' <= begun', locked' \in BOOLEAN, guesses' \in Nat,
         begun' = begun, reqs' \in [Requests -> Reqs], NewDiffers', AloneReads',
         \A p \in Requests : reqs'[p].pc = "fail" => reqs'[p].attempts < begun'
  PROVE  Inv'
<1>1. UNCHANGED <<status, pw, prev, reset, setLink, former, how, epoch, pwEpoch, alone>>
  BY DEF row, history
<1>2. TypeOK'
  BY <1>1 DEF Inv, TypeOK
<1>3. CountsBelowBegun'
  BY <1>1 DEF Inv, CountsBelowBegun
<1>4. SessionsAccountedFor' /\ RotationRemembers' /\ SuspensionEndsPassword'
  BY <1>1 DEF Inv, SessionsAccountedFor, RotationRemembers, SuspensionEndsPassword
<1>5. QED
  BY <1>2, <1>3, <1>4 DEF Inv

LEMMA CountInv ==
  ASSUME Inv, NEW q \in Requests, FailedAttempt(q) \/ ClearAttempts(q)
  PROVE  Inv'
<1>1. /\ begun' = begun /\ reqs' = [reqs EXCEPT ![q] = Idle] /\ begun' <= MaxBegun
      /\ UNCHANGED <<row, sessions, history>> /\ begun \in Nat
  BY DEF FailedAttempt, ClearAttempts, End, Inv, TypeOK
<1>2. /\ reqs' \in [Requests -> Reqs] /\ NewDiffers'
      /\ \A p \in Requests : reqs'[p].pc = "fail" => reqs'[p].attempts < begun'
  BY <1>1, IdleIsSound, RequestStep
<1>3. /\ attempts' \in 0..MaxBegun /\ attempts' <= begun' /\ locked' \in BOOLEAN /\ guesses' \in Nat
  <2>1. CASE FailedAttempt(q)
    <3>1. reqs[q] \in Reqs /\ reqs[q].pc = "fail" /\ guesses \in Nat /\ locked \in BOOLEAN
      BY <2>1 DEF FailedAttempt, Inv, TypeOK
    <3>2. reqs[q].attempts \in Nat
      BY <3>1 DEF Reqs, Idle
    <3>3. reqs[q].attempts < begun
      BY <3>1 DEF Inv, CountsBelowBegun
    <3>4. attempts' = reqs[q].attempts + 1
      BY <2>1 DEF FailedAttempt
    <3>5. locked' \in BOOLEAN
      BY <2>1 DEF FailedAttempt
    <3>6. guesses' \in {0, guesses + 1}
      BY <2>1 DEF FailedAttempt
    <3>7. QED
      BY <1>1, <3>1, <3>2, <3>3, <3>4, <3>5, <3>6
  <2>2. CASE ClearAttempts(q)
    <3>1. attempts' = 0 /\ locked' = FALSE /\ guesses' = 0
      BY <2>2 DEF ClearAttempts
    <3>2. locked' \in BOOLEAN
      BY <3>1
    <3>3. QED
      BY <1>1, <3>1, <3>2
  <2>3. QED
    BY <2>1, <2>2
<1>4. AloneReads'
  BY <1>1, AloneStep DEF row, history, Idle, Writing
<1>5. QED
  BY <1>1, <1>2, <1>3, <1>4, CounterStep

LEMMA LockExpiresInv ==
  ASSUME Inv, LockExpires
  PROVE  Inv'
<1>1. /\ locked' \in BOOLEAN
      /\ UNCHANGED <<row, attempts, guesses, sessions, reqs, begun, history>>
  BY DEF LockExpires
<1>2. /\ attempts' \in 0..MaxBegun /\ attempts' <= begun' /\ guesses' \in Nat
      /\ reqs' \in [Requests -> Reqs]
  BY <1>1 DEF Inv, TypeOK, CountsBelowBegun
<1>3. /\ NewDiffers' /\ AloneReads'
      /\ \A p \in Requests : reqs'[p].pc = "fail" => reqs'[p].attempts < begun'
  BY <1>1 DEF Inv, NewDiffers, AloneReads, CountsBelowBegun, row, history
<1>4. QED
  BY <1>1, <1>2, <1>3, CounterStep

\* A session on another password than the row's is marked as late.
LEMMA CreateSessionInv ==
  ASSUME Inv, NEW q \in Requests, CreateSession(q)
  PROVE  Inv'
<1> DEFINE r == [reqs[q] EXCEPT !.pc = "clear"]
<1>1. PICK s \in Rows : sessions' = [sessions EXCEPT ![s] =
            [pw |-> reqs[q].pw,
             why |-> IF pw = reqs[q].pw /\ status = "ACTIVE" THEN "current" ELSE "late"]]
  BY DEF CreateSession
<1>2. /\ reqs' = [reqs EXCEPT ![q] = r] /\ UNCHANGED <<row, counter, begun, history>>
      /\ reqs[q] \in Reqs /\ reqs[q].pc = "session" /\ begun' <= MaxBegun
  BY DEF CreateSession, Inv, TypeOK
<1>3. reqs[q] \in [pc : {"session", "clear"}, pw : PasswordSet]
  BY <1>2 DEF Reqs, Idle
<1>4. r \in [pc : {"session", "clear"}, pw : PasswordSet] /\ r.pc = "clear"
  BY <1>3
<1>5. Sound(r, begun')
  BY <1>4 DEF Sound, Reqs
<1>6. /\ reqs' \in [Requests -> Reqs] /\ NewDiffers'
      /\ \A p \in Requests : reqs'[p].pc = "fail" => reqs'[p].attempts < begun'
  <2> HIDE DEF r
  <2>1. QED
    BY <1>2, <1>5, RequestStep
<1>7. UNCHANGED <<status, pw, prev, reset, setLink, attempts, locked, guesses, former, how, epoch, pwEpoch, alone>>
  BY <1>2 DEF row, counter, history
<1>8. TypeOK'
  <2>1. sessions' \in [Rows -> OrNone([pw : PasswordSet, why : {"current", "late", "kept"}])]
    BY <1>1, <1>3 DEF Inv, TypeOK, OrNone
  <2>2. QED
    BY <1>2, <1>6, <1>7, <2>1 DEF Inv, TypeOK
<1>9. CountsBelowBegun'
  BY <1>2, <1>6, <1>7 DEF Inv, CountsBelowBegun
<1>10. SessionsAccountedFor'
  <2> SUFFICES ASSUME NEW t \in Rows, sessions'[t] # None, sessions'[t].why = "current"
               PROVE  sessions'[t].pw = pw /\ status = "ACTIVE"
    BY <1>7 DEF SessionsAccountedFor
  <2>1. CASE t = s
    BY <1>1, <2>1 DEF Inv, TypeOK
  <2>2. CASE t # s
    <3>1. sessions'[t] = sessions[t]
      BY <1>1, <2>2 DEF Inv, TypeOK
    <3>2. QED
      BY <3>1 DEF Inv, SessionsAccountedFor
  <2>3. QED
    BY <2>1, <2>2
<1>11. RotationRemembers' /\ SuspensionEndsPassword'
  BY <1>7 DEF Inv, RotationRemembers, SuspensionEndsPassword
<1>12. AloneReads'
  <2> HIDE DEF r
  <2>1. QED
    BY <1>2, <1>4, <1>7, AloneStep DEF Writing
<1>13. QED
  BY <1>6, <1>8, <1>9, <1>10, <1>11, <1>12 DEF Inv

\* A link is written or grows older.
LEMMA LinkStep ==
  ASSUME Inv, UNCHANGED <<status, pw, prev, counter, sessions, begun, history>>,
         reset' \in [open : BOOLEAN, age : {"recent", "valid", "expired"}],
         setLink' \in [open : BOOLEAN, age : {"valid", "expired"}],
         reqs' \in [Requests -> Reqs], NewDiffers', AloneReads',
         \A p \in Requests : reqs'[p].pc = "fail" => reqs'[p].attempts < begun'
  PROVE  Inv'
<1>1. UNCHANGED <<attempts, locked, guesses, former, how, epoch, pwEpoch, alone>>
  BY DEF counter, history
<1>2. TypeOK'
  BY <1>1 DEF Inv, TypeOK
<1>3. CountsBelowBegun'
  BY <1>1 DEF Inv, CountsBelowBegun
<1>4. SessionsAccountedFor' /\ RotationRemembers' /\ SuspensionEndsPassword'
  BY <1>1 DEF Inv, SessionsAccountedFor, RotationRemembers, SuspensionEndsPassword
<1>5. QED
  BY <1>2, <1>3, <1>4 DEF Inv

LEMMA ForgotWritesInv ==
  ASSUME Inv, NEW q \in Requests, ForgotWrites(q)
  PROVE  Inv'
<1>1. /\ begun' = begun /\ reqs' = [reqs EXCEPT ![q] = Idle] /\ begun' <= MaxBegun
      /\ UNCHANGED <<status, pw, prev, setLink, counter, sessions, history>>
      /\ reset' = [open |-> TRUE, age |-> "recent"]
  BY DEF ForgotWrites, End, Inv, TypeOK
<1>2. /\ reqs' \in [Requests -> Reqs] /\ NewDiffers'
      /\ \A p \in Requests : reqs'[p].pc = "fail" => reqs'[p].attempts < begun'
  BY <1>1, IdleIsSound, RequestStep
<1>3. /\ reset' \in [open : BOOLEAN, age : {"recent", "valid", "expired"}]
      /\ setLink' \in [open : BOOLEAN, age : {"valid", "expired"}]
  BY <1>1 DEF Inv, TypeOK
<1>4. AloneReads'
  BY <1>1, AloneStep DEF history, Idle, Writing
<1>5. QED
  BY <1>1, <1>2, <1>3, <1>4, LinkStep

LEMMA AgesInv ==
  ASSUME Inv, ResetAges \/ SetLinkAges
  PROVE  Inv'
<1>1. UNCHANGED <<status, pw, prev, counter, sessions, reqs, begun, history>>
  BY DEF ResetAges, SetLinkAges
<1>2. /\ reset' \in [open : BOOLEAN, age : {"recent", "valid", "expired"}]
      /\ setLink' \in [open : BOOLEAN, age : {"valid", "expired"}]
  BY DEF ResetAges, SetLinkAges, Inv, TypeOK
<1>3. /\ reqs' \in [Requests -> Reqs] /\ NewDiffers' /\ AloneReads'
      /\ \A p \in Requests : reqs'[p].pc = "fail" => reqs'[p].attempts < begun'
  BY <1>1 DEF Inv, TypeOK, NewDiffers, AloneReads, CountsBelowBegun, history
<1>4. QED
  BY <1>1, <1>2, <1>3, LinkStep

-----------------------------------------------------------------------------
(***************************************************************************)
(* The steps that replace the password.                                    *)
(***************************************************************************)
\* A renewed password keeps every part of the invariant.
LEMMA CommitInv ==
  ASSUME Inv, NEW q \in Requests, ResetCommits(q) \/ SetCommits(q) \/ ChangeCommits(q)
  PROVE  Inv'
<1> DEFINE r == reqs[q]
<1>1. r \in Reqs /\ r.pc \in {"resetting", "set", "changing"}
  BY DEF ResetCommits, SetCommits, ChangeCommits, Inv, TypeOK
<1>2. r.new \in PasswordSet /\ r.epoch \in 0..MaxBegun /\ r.old \in OrNone(PasswordSet)
  BY <1>1 DEF Reqs, Idle
<1>3. r.new # r.seen
  BY <1>1 DEF Inv, NewDiffers
<1>4. /\ begun' = begun /\ reqs' = [reqs EXCEPT ![q] = Idle] /\ begun' <= MaxBegun
      /\ UNCHANGED <<status, counter, epoch>>
      /\ pw' = r.new /\ former' = pw /\ pwEpoch' = r.epoch /\ alone' = {}
  BY DEF ResetCommits, SetCommits, ChangeCommits, Rotate, Replace, End, Inv, TypeOK
<1>5. /\ reqs' \in [Requests -> Reqs] /\ NewDiffers'
      /\ \A p \in Requests : reqs'[p].pc = "fail" => reqs'[p].attempts < begun'
  BY <1>4, IdleIsSound, RequestStep
<1>6. /\ how' \in {"rotated", "overlapped", "raced", "linked"}
      /\ how' # "raced" => r.epoch = epoch /\ ~(r.seen # pw /\ r.new = pw)
      /\ how' = "rotated" => prev' = pw
      /\ prev' \in {r.old, None}
  <2>1. CASE ResetCommits(q) \/ ChangeCommits(q)
    <3>1. /\ prev' = r.old /\ how' = Cause(r, Unless(q, "rotated")) /\ r.pc \in Writing
      BY <2>1 DEF ResetCommits, ChangeCommits, Rotate, Replace, Writing
    <3>2. q \in alone => r.old = pw
      BY <3>1 DEF Inv, AloneReads
    <3>3. QED
      BY <3>1, <3>2 DEF Cause, Unless
  <2>2. CASE SetCommits(q)
    BY <2>2 DEF SetCommits, Replace, Cause
  <2>3. QED
    BY <2>1, <2>2
<1>7. /\ sessions' \in [Rows -> OrNone([pw : PasswordSet, why : {"current", "late", "kept"}])]
      /\ \A s \in Rows : sessions'[s] # None => sessions'[s].why = "kept"
  <2>1. CASE ResetCommits(q) \/ SetCommits(q)
    BY <2>1 DEF ResetCommits, SetCommits, OrNone
  <2>2. CASE ChangeCommits(q)
    <3>1. sessions' = [s \in Rows |->
            IF s = r.by /\ sessions[s] # None THEN [sessions[s] EXCEPT !.why = "kept"] ELSE None]
      BY <2>2 DEF ChangeCommits
    <3>2. \A s \in Rows : sessions[s] # None => sessions[s] \in [pw : PasswordSet, why : {"current", "late", "kept"}]
      BY DEF Inv, TypeOK, OrNone
    <3>3. QED
      BY <3>1, <3>2 DEF OrNone
  <2>3. QED
    BY <2>1, <2>2
<1>8. /\ reset' \in [open : BOOLEAN, age : {"recent", "valid", "expired"}]
      /\ setLink' \in [open : BOOLEAN, age : {"valid", "expired"}]
  <2>1. reset' \in {reset, NoLink} /\ setLink' \in {setLink, NoLink}
    BY DEF ResetCommits, SetCommits, ChangeCommits
  <2>2. /\ NoLink \in [open : BOOLEAN, age : {"recent", "valid", "expired"}]
        /\ NoLink \in [open : BOOLEAN, age : {"valid", "expired"}]
    BY DEF NoLink
  <2>3. QED
    BY <2>1, <2>2 DEF Inv, TypeOK
<1>9. UNCHANGED <<attempts, locked, guesses>>
  BY <1>4 DEF counter
<1>10. TypeOK'
  <2>1. pw' \in OrNone(PasswordSet) /\ prev' \in OrNone(PasswordSet) /\ former' \in OrNone(PasswordSet)
    BY <1>2, <1>4, <1>6 DEF Inv, TypeOK, OrNone
  <2>2. how' \in {"initial", "rotated", "overlapped", "raced", "linked", "admin", "nulled"} /\ alone' \subseteq Requests
    BY <1>4, <1>6
  <2>3. QED
    BY <1>2, <1>4, <1>5, <1>7, <1>8, <1>9, <2>1, <2>2 DEF Inv, TypeOK
<1>11. CountsBelowBegun'
  BY <1>4, <1>5, <1>9 DEF Inv, CountsBelowBegun
<1>12. SessionsAccountedFor'
  BY <1>7 DEF SessionsAccountedFor
<1>13. RotationRemembers'
  BY <1>3, <1>4, <1>6 DEF RotationRemembers
<1>14. SuspensionEndsPassword'
  BY <1>4, <1>6 DEF SuspensionEndsPassword
<1>15. AloneReads'
  BY <1>4 DEF AloneReads
<1>16. QED
  BY <1>5, <1>10, <1>11, <1>12, <1>13, <1>14, <1>15 DEF Inv

\* An administrator sets the password, or suspends the user.
LEMMA AdminInv ==
  ASSUME Inv, (\E new \in PasswordSet : AdminSets(new)) \/ Suspend
  PROVE  Inv'
<1>1. /\ begun < MaxBegun /\ begun' = begun + 1 /\ reqs' = reqs
      /\ begun \in Nat /\ epoch \in Nat /\ attempts \in Nat
      /\ epoch <= begun /\ attempts <= begun
  BY DEF AdminSets, Suspend, Act, Inv, TypeOK, CountsBelowBegun
<1>2. NewDiffers' /\ reqs' \in [Requests -> Reqs]
  BY <1>1 DEF Inv, NewDiffers, TypeOK
<1>3. \A p \in Requests : reqs'[p].pc = "fail" => reqs'[p].attempts < begun'
  <2> SUFFICES ASSUME NEW p \in Requests, reqs[p].pc = "fail" PROVE reqs[p].attempts < begun + 1
    BY <1>1
  <2>1. reqs[p] \in Reqs /\ reqs[p].attempts < begun
    BY DEF Inv, TypeOK, CountsBelowBegun
  <2>2. reqs[p].attempts \in Nat
    BY <2>1 DEF Reqs, Idle
  <2>3. QED
    BY <1>1, <2>1, <2>2
<1>4. /\ NoLink \in [open : BOOLEAN, age : {"recent", "valid", "expired"}]
      /\ [open |-> TRUE, age |-> "valid"] \in [open : BOOLEAN, age : {"valid", "expired"}]
      /\ [s \in Rows |-> None] \in [Rows -> OrNone([pw : PasswordSet, why : {"current", "late", "kept"}])]
      /\ \A s \in Rows : [t \in Rows |-> None][s] = None
  BY DEF NoLink, OrNone
<1>5. ASSUME NEW new \in PasswordSet, AdminSets(new) PROVE Inv'
  <2>1. /\ UNCHANGED <<status, prev, setLink, epoch>>
        /\ pw' = new /\ former' = pw /\ how' = "admin" /\ pwEpoch' = epoch /\ alone' = {}
        /\ attempts' = 0 /\ locked' = FALSE /\ guesses' = 0
        /\ reset' = [reset EXCEPT !.open = FALSE] /\ sessions' = [s \in Rows |-> None]
    BY <1>5 DEF AdminSets, Replace
  <2>2. reset' \in [open : BOOLEAN, age : {"recent", "valid", "expired"}] /\ locked' \in BOOLEAN
    BY <2>1 DEF Inv, TypeOK
  <2>3. pw' \in OrNone(PasswordSet) /\ former' \in OrNone(PasswordSet)
    BY <2>1 DEF Inv, TypeOK, OrNone
  <2>4. TypeOK'
    <3>1. /\ status' \in {"ACTIVE", "SUSPENDED"} /\ prev' \in OrNone(PasswordSet)
          /\ setLink' \in [open : BOOLEAN, age : {"valid", "expired"}]
          /\ epoch' \in 0..MaxBegun /\ pwEpoch' \in 0..MaxBegun
      BY <2>1 DEF Inv, TypeOK
    <3>2. sessions' \in [Rows -> OrNone([pw : PasswordSet, why : {"current", "late", "kept"}])]
      BY <1>4, <2>1
    <3>3. attempts' \in 0..MaxBegun /\ guesses' \in Nat /\ begun' \in 0..MaxBegun
      BY <1>1, <2>1
    <3>4. how' \in {"initial", "rotated", "overlapped", "raced", "linked", "admin", "nulled"} /\ alone' \subseteq Requests
      BY <2>1
    <3>5. QED
      BY <1>2, <2>2, <2>3, <3>1, <3>2, <3>3, <3>4 DEF TypeOK
  <2>5. CountsBelowBegun'
    BY <1>1, <1>3, <2>1 DEF CountsBelowBegun
  <2>6. SessionsAccountedFor' /\ RotationRemembers' /\ SuspensionEndsPassword'
    BY <1>4, <2>1 DEF SessionsAccountedFor, RotationRemembers, SuspensionEndsPassword
  <2>7. AloneReads'
    BY <2>1 DEF AloneReads
  <2>8. QED
    BY <1>2, <2>4, <2>5, <2>6, <2>7 DEF Inv
<1>6. CASE Suspend
  <2>1. /\ UNCHANGED <<pw, prev, setLink, counter, former, how, pwEpoch, alone>>
        /\ status' = "SUSPENDED" /\ reset' = NoLink /\ sessions' = [s \in Rows |-> None]
        /\ epoch' = epoch + 1
    BY <1>6 DEF Suspend
  <2>2. UNCHANGED <<attempts, locked, guesses>>
    BY <2>1 DEF counter
  <2>3. TypeOK'
    <3>1. /\ pw' \in OrNone(PasswordSet) /\ prev' \in OrNone(PasswordSet)
          /\ former' \in OrNone(PasswordSet)
          /\ setLink' \in [open : BOOLEAN, age : {"valid", "expired"}]
          /\ pwEpoch' \in 0..MaxBegun /\ attempts' \in 0..MaxBegun
          /\ locked' \in BOOLEAN /\ guesses' \in Nat
          /\ how' \in {"initial", "rotated", "overlapped", "raced", "linked", "admin", "nulled"}
          /\ alone' \subseteq Requests
      BY <2>1, <2>2 DEF Inv, TypeOK
    <3>2. sessions' \in [Rows -> OrNone([pw : PasswordSet, why : {"current", "late", "kept"}])]
      BY <1>4, <2>1
    <3>3. reset' \in [open : BOOLEAN, age : {"recent", "valid", "expired"}]
      BY <1>4, <2>1
    <3>4. epoch' \in 0..MaxBegun /\ begun' \in 0..MaxBegun
      BY <1>1, <2>1
    <3>5. status' \in {"ACTIVE", "SUSPENDED"}
      BY <2>1
    <3>6. QED
      BY <1>2, <3>1, <3>2, <3>3, <3>4, <3>5 DEF TypeOK
  <2>4. CountsBelowBegun'
    BY <1>1, <1>3, <2>1, <2>2 DEF CountsBelowBegun
  <2>5. SessionsAccountedFor' /\ RotationRemembers' /\ SuspensionEndsPassword'
    BY <1>4, <2>1 DEF Inv, SessionsAccountedFor, RotationRemembers, SuspensionEndsPassword
  <2>6. AloneReads'
    BY <1>1, <2>1 DEF Inv, AloneReads
  <2>7. QED
    BY <1>2, <2>3, <2>4, <2>5, <2>6 DEF Inv
<1>7. QED
  BY <1>5, <1>6

\* The end of a suspension takes the password that its transaction read.
LEMMA UnsuspendInv ==
  ASSUME Inv, NEW q \in Requests, Unsuspend(q)
  PROVE  Inv'
<1>1. /\ reqs[q] \in Reqs /\ reqs[q].pc = "unsuspend"
      /\ begun' = begun /\ reqs' = [reqs EXCEPT ![q] = Idle] /\ begun' <= MaxBegun
      /\ UNCHANGED <<reset, counter, sessions, epoch>>
      /\ status = "SUSPENDED" /\ status' = "ACTIVE" /\ prev' = reqs[q].old
      /\ pw' = None /\ former' = pw /\ how' = Unless(q, "nulled") /\ pwEpoch' = epoch /\ alone' = {}
      /\ setLink' = [open |-> TRUE, age |-> "valid"]
  BY DEF Unsuspend, Replace, End, Inv, TypeOK
<1>2. /\ reqs' \in [Requests -> Reqs] /\ begun' \in 0..MaxBegun /\ NewDiffers'
      /\ \A p \in Requests : reqs'[p].pc = "fail" => reqs'[p].attempts < begun'
  BY <1>1, IdleIsSound, RequestStep
<1>3. UNCHANGED <<attempts, locked, guesses>>
  BY <1>1 DEF counter
<1>4. /\ how' \in {"nulled", "overlapped"}
      /\ how' = "nulled" => prev' = pw
  <2>1. q \in alone => reqs[q].old = pw
    BY <1>1 DEF Inv, AloneReads, Writing
  <2>2. QED
    BY <1>1, <2>1 DEF Unless
<1>5. TypeOK'
  <2>1. /\ former' \in OrNone(PasswordSet)
        /\ reset' \in [open : BOOLEAN, age : {"recent", "valid", "expired"}]
        /\ epoch' \in 0..MaxBegun /\ pwEpoch' \in 0..MaxBegun /\ attempts' \in 0..MaxBegun
        /\ locked' \in BOOLEAN /\ guesses' \in Nat
        /\ sessions' \in [Rows -> OrNone([pw : PasswordSet, why : {"current", "late", "kept"}])]
    BY <1>1, <1>3 DEF Inv, TypeOK
  <2>2. prev' \in OrNone(PasswordSet)
    BY <1>1 DEF Reqs, Idle
  <2>3. pw' \in OrNone(PasswordSet) /\ alone' \subseteq Requests
    BY <1>1 DEF OrNone
  <2>4. setLink' \in [open : BOOLEAN, age : {"valid", "expired"}]
    BY <1>1
  <2>5. /\ status' \in {"ACTIVE", "SUSPENDED"}
        /\ how' \in {"initial", "rotated", "overlapped", "raced", "linked", "admin", "nulled"}
    BY <1>1, <1>4
  <2>6. QED
    BY <1>2, <2>1, <2>2, <2>3, <2>4, <2>5 DEF TypeOK
<1>6. CountsBelowBegun'
  BY <1>1, <1>2, <1>3 DEF Inv, CountsBelowBegun
<1>7. SessionsAccountedFor'
  BY <1>1 DEF Inv, SessionsAccountedFor
<1>8. RotationRemembers' /\ SuspensionEndsPassword' /\ AloneReads'
  BY <1>1, <1>4 DEF RotationRemembers, SuspensionEndsPassword, AloneReads
<1>9. QED
  BY <1>2, <1>5, <1>6, <1>7, <1>8 DEF Inv

-----------------------------------------------------------------------------
\* Inv is inductive.
LEMMA StepInv == Inv /\ [Next]_vars => Inv'
<1> SUFFICES ASSUME Inv, [Next]_vars PROVE Inv'
  OBVIOUS
<1>1. ASSUME NEW q \in Requests, Serve(q) PROVE Inv'
  <2>1. CASE FailedAttempt(q) \/ ClearAttempts(q)
    BY <2>1, CountInv
  <2>2. CASE CreateSession(q)
    BY <2>2, CreateSessionInv
  <2>3. CASE LoginStops(q) \/ RequestDies(q)
    BY <2>3, EndInv DEF LoginStops, RequestDies, history
  <2>4. CASE ForgotWrites(q)
    BY <2>4, ForgotWritesInv
  <2>5. CASE ResetCommits(q) \/ SetCommits(q) \/ ChangeCommits(q)
    BY <2>5, CommitInv
  <2>6. CASE WrongGuess(q) \/ RightGuess(q) \/ ForgotReads(q)
    BY <2>6, LoginReadsInv
  <2>7. CASE \E new \in PasswordSet : ResetReads(q, new) \/ SetReads(q, new)
    BY <2>7, LinkReadsInv
  <2>8. CASE \E new \in PasswordSet, s \in Rows : ChangeReads(q, new, s)
    BY <2>8, ChangeReadsInv
  <2>9. CASE Rereads(q) \/ UnsuspendReads(q) \/ Unsuspend(q)
    BY <2>9, RereadsInv, UnsuspendReadsInv, UnsuspendInv
  <2>10. QED
    BY <1>1, <2>1, <2>2, <2>3, <2>4, <2>5, <2>6, <2>7, <2>8, <2>9 DEF Serve
<1>2. CASE (\E new \in PasswordSet : AdminSets(new)) \/ Suspend
  BY <1>2, AdminInv
<1>3. CASE LockExpires \/ ResetAges \/ SetLinkAges
  BY <1>3, LockExpiresInv, AgesInv
<1>4. CASE UNCHANGED vars
  <2>1. UNCHANGED <<row, counter, sessions, reqs, begun, history>>
    BY <1>4 DEF vars
  <2>2. UNCHANGED <<status, pw, prev, reset, setLink, attempts, locked, guesses, former, how, epoch, pwEpoch, alone>>
    BY <2>1 DEF row, counter, history
  <2>3. TypeOK'
    BY <2>1, <2>2 DEF Inv, TypeOK
  <2>4. CountsBelowBegun' /\ NewDiffers' /\ AloneReads'
    BY <2>1, <2>2 DEF Inv, CountsBelowBegun, NewDiffers, AloneReads
  <2>5. SessionsAccountedFor' /\ RotationRemembers' /\ SuspensionEndsPassword'
    BY <2>1, <2>2 DEF Inv, SessionsAccountedFor, RotationRemembers, SuspensionEndsPassword
  <2>6. QED
    BY <2>3, <2>4, <2>5 DEF Inv
<1>5. QED
  BY <1>1, <1>2, <1>3, <1>4 DEF Next

LEMMA AlwaysInv == Spec => []Inv
<1>1. QED
  BY InitInv, StepInv, PTL DEF Spec

\* Password, links, counters and requests are well typed.
THEOREM TypeCorrect == Spec => []TypeOK
<1>1. Inv => TypeOK
  BY DEF Inv
<1>2. QED
  BY <1>1, AlwaysInv, PTL

\* No change of the password or of the status leaves a session behind, except those
\* whose login it overtook and the one it was made from.
THEOREM ChangesEndSessions == Spec => []SessionsAccountedFor
<1>1. Inv => SessionsAccountedFor
  BY DEF Inv
<1>2. QED
  BY <1>1, AlwaysInv, PTL

\* The previous password is the one that was replaced, however long the request has
\* hashed, unless another replaced it between the read and the write of the
\* transaction.
THEOREM PreviousIsReplaced == Spec => []RotationRemembers
<1>1. Inv => RotationRemembers
  BY DEF Inv
<1>2. QED
  BY <1>1, AlwaysInv, PTL

\* The password of an active user was asked for after the last suspension, unless
\* the request ran across it.
THEOREM SuspensionIsThorough == Spec => []SuspensionEndsPassword
<1>1. Inv => SuspensionEndsPassword
  BY DEF Inv
<1>2. QED
  BY <1>1, AlwaysInv, PTL

-----------------------------------------------------------------------------
(***************************************************************************)
(* Guesses between two lockouts, when two requests run at a time.           *)
(***************************************************************************)

\* Failures from count n on that make the next lockout.
Left(n) == MaxAttempts - (n % MaxAttempts)

\* Request q can set the count back to the one it has read, or leave it.
Reach(q) ==
  IF reqs[q].pc = "fail" /\ Left(reqs[q].attempts) > Left(attempts)
    THEN Left(reqs[q].attempts) ELSE Left(attempts)

\* The most guesses still to come when the requests are d and e failures away: the
\* nearer goes up to the lockout, then the other sets the count back to one more
\* than it had read, and both begin from there. Twice that many, to stay with
\* integers, and none of them is the one that locks.
Room(g, d, e) ==
  IF d <= e THEN 2 * g + 2 * d + (e - 1) * e <= MaxAttempts * (MaxAttempts + 1)
            ELSE 2 * g + 2 * e + (d - 1) * d <= MaxAttempts * (MaxAttempts + 1)

GuessInv ==
  \A p, q \in Requests : p # q /\ Requests = {p, q} => Room(guesses, Reach(p), Reach(q))

LEMMA LeftRange ==
  ASSUME NEW n \in Nat
  PROVE  Left(n) \in 1..MaxAttempts
  BY DEF Left

\* A failure that does not lock brings the lockout nearer by one.
LEMMA LeftFalls ==
  ASSUME NEW n \in Nat, (n + 1) % MaxAttempts # 0
  PROVE  Left(n + 1) = Left(n) - 1
<1> DEFINE q == n \div MaxAttempts
           r == n % MaxAttempts
           p == (n + 1) \div MaxAttempts
           s == (n + 1) % MaxAttempts
<1>1. q \in Int /\ r \in Int /\ n = MaxAttempts * q + r /\ 0 <= r /\ r < MaxAttempts
  OBVIOUS
<1>2. p \in Int /\ s \in Int /\ n + 1 = MaxAttempts * p + s /\ 0 <= s /\ s < MaxAttempts
  OBVIOUS
<1>3. s # 0
  OBVIOUS
<1> HIDE DEF q, r, p, s
<1>4. MaxAttempts * (p - q) = r + 1 - s
  BY <1>1, <1>2
<1>5. p - q < 1 /\ p - q > -1
  BY <1>1, <1>2, <1>3, <1>4
<1>6. s = r + 1
  BY <1>1, <1>2, <1>4, <1>5
<1>7. QED
  BY <1>1, <1>2, <1>6 DEF Left, r, s

\* A product grows with its factors.
LEMMA Squares ==
  ASSUME NEW d \in Nat \ {0}, NEW e \in Nat \ {0}, d <= e
  PROVE  (d - 1) * d <= (e - 1) * e /\ (d - 1) * d \in Nat
  OBVIOUS

LEMMA RoomAtFirst ==
  ASSUME NEW d \in 1..MaxAttempts, NEW e \in 1..MaxAttempts
  PROVE  Room(0, d, e)
<1>1. ASSUME NEW n \in 1..MaxAttempts PROVE 2 * n + (n - 1) * n <= MaxAttempts * (MaxAttempts + 1)
  <2>1. (n + 1 - 1) * (n + 1) <= (MaxAttempts + 1 - 1) * (MaxAttempts + 1)
    BY Squares
  <2>2. QED
    BY <2>1
<1>2. QED
  BY <1>1 DEF Room

LEMMA RoomNearer ==
  ASSUME NEW g \in Nat, NEW d \in 1..MaxAttempts, NEW e \in 1..MaxAttempts, Room(g, d, e),
         NEW c \in 1..d, NEW f \in 1..e
  PROVE  Room(g, c, f)
<1>1. (c - 1) * c <= (d - 1) * d /\ (c - 1) * c \in Nat /\ (d - 1) * d \in Nat
  BY Squares
<1>2. (f - 1) * f <= (e - 1) * e /\ (f - 1) * f \in Nat /\ (e - 1) * e \in Nat
  BY Squares
<1>3. /\ c <= e => (c - 1) * c <= (e - 1) * e
      /\ f <= d => (f - 1) * f <= (d - 1) * d
  BY Squares
<1> DEFINE cc == (c - 1) * c
           dd == (d - 1) * d
           ee == (e - 1) * e
           ff == (f - 1) * f
           most == MaxAttempts * (MaxAttempts + 1)
<1>4. IF d <= e THEN 2 * g + 2 * d + ee <= most ELSE 2 * g + 2 * e + dd <= most
  BY DEF Room
<1>5. most \in Nat
  OBVIOUS
<1> HIDE DEF cc, dd, ee, ff, most
<1>6. /\ cc <= dd /\ ff <= ee /\ cc \in Nat /\ dd \in Nat /\ ee \in Nat /\ ff \in Nat
      /\ c <= e => cc <= ee
      /\ f <= d => ff <= dd
  BY <1>1, <1>2, <1>3 DEF cc, dd, ee, ff
<1>7. IF c <= f THEN 2 * g + 2 * c + ff <= most ELSE 2 * g + 2 * f + cc <= most
  BY <1>4, <1>5, <1>6
<1>8. QED
  BY <1>7 DEF Room, cc, ff, most

\* The request at d sets the count to one failure nearer than it had read.
LEMMA RoomStep ==
  ASSUME NEW g \in Nat, NEW d \in 1..MaxAttempts, NEW e \in 1..MaxAttempts, Room(g, d, e),
         NEW c \in 1..d - 1, NEW f \in 1..MaxAttempts, f <= e \/ f <= c
  PROVE  Room(g + 1, c, f)
<1> DEFINE h == c + 1
<1>1. Room(g, h, e)
  BY RoomNearer
<1>2. CASE e >= h
  <2>1. Room(g + 1, c, e)
    <3>1. 2 * g + 2 * h + (e - 1) * e <= MaxAttempts * (MaxAttempts + 1)
      BY <1>1, <1>2 DEF Room
    <3>2. 2 * (g + 1) + 2 * c + (e - 1) * e <= MaxAttempts * (MaxAttempts + 1)
      BY <3>1
    <3>3. QED
      BY <1>2, <3>2 DEF Room
  <2>2. f \in 1..e /\ c \in 1..c /\ c \in 1..MaxAttempts
    BY <1>2
  <2>3. QED
    BY <2>1, <2>2, RoomNearer
<1>3. CASE e < h
  <2>1. Room(g + 1, c, c)
    <3>1. 2 * g + 2 * e + (h - 1) * h <= MaxAttempts * (MaxAttempts + 1)
      BY <1>1, <1>3 DEF Room
    <3>2. (h - 1) * h = (c - 1) * c + 2 * c
      OBVIOUS
    <3>3. (c - 1) * c \in Nat
      BY Squares
    <3>4. 2 * (g + 1) + 2 * c + (c - 1) * c <= MaxAttempts * (MaxAttempts + 1)
      BY <3>1, <3>2, <3>3
    <3>5. QED
      BY <3>4 DEF Room
  <2>2. f \in 1..c /\ c \in 1..MaxAttempts
    BY <1>3
  <2>3. QED
    BY <2>1, <2>2, RoomNearer
<1>4. QED
  BY <1>2, <1>3

LEMMA ReachRange ==
  ASSUME TypeOK, NEW q \in Requests
  PROVE  /\ Reach(q) \in 1..MaxAttempts /\ Left(attempts) \in 1..MaxAttempts
         /\ Left(attempts) <= Reach(q)
         /\ reqs[q].pc = "fail" => reqs[q].attempts \in Nat /\ Left(reqs[q].attempts) <= Reach(q)
<1>1. reqs[q] \in Reqs /\ attempts \in Nat
  BY DEF TypeOK
<1>2. reqs[q].pc = "fail" => reqs[q].attempts \in Nat
  BY <1>1 DEF Reqs, Idle
<1>3. /\ Left(attempts) \in 1..MaxAttempts
      /\ reqs[q].pc = "fail" => Left(reqs[q].attempts) \in 1..MaxAttempts
  BY <1>1, <1>2, LeftRange
<1>4. QED
  BY <1>2, <1>3 DEF Reach

\* The count begins anew.
LEMMA GuessesCleared ==
  ASSUME TypeOK', guesses' = 0
  PROVE  GuessInv'
<1>1. \A q \in Requests : Reach(q)' \in 1..MaxAttempts
  <2>1. attempts' \in Nat /\ \A q \in Requests : reqs'[q].pc = "fail" => reqs'[q].attempts \in Nat
    BY DEF TypeOK, Reqs, Idle
  <2>2. /\ Left(attempts') \in 1..MaxAttempts
        /\ \A q \in Requests : reqs'[q].pc = "fail" => Left(reqs'[q].attempts) \in 1..MaxAttempts
    BY <2>1, LeftRange
  <2>3. QED
    BY <2>2 DEF Reach, Left
<1>2. QED
  BY <1>1, RoomAtFirst DEF GuessInv, Room

\* A request that fails later has read the count that stands, or was under way.
LEMMA GuessesKept ==
  ASSUME TypeOK, TypeOK', GuessInv, guesses' = guesses, attempts' = attempts,
         \A q \in Requests : reqs'[q].pc = "fail" =>
           reqs'[q].attempts = attempts \/ (reqs[q].pc = "fail" /\ reqs'[q].attempts = reqs[q].attempts)
  PROVE  GuessInv'
<1>1. ASSUME NEW q \in Requests PROVE Reach(q)' \in 1..Reach(q)
  <2>1. /\ Left(attempts)' = Left(attempts)
        /\ Left(attempts) \in 1..MaxAttempts /\ Reach(q) \in 1..MaxAttempts
        /\ Left(attempts) <= Reach(q)
    BY ReachRange DEF Left
  <2>2. CASE Reach(q)' = Left(attempts)'
    BY <2>1, <2>2
  <2>3. CASE reqs'[q].pc = "fail" /\ Reach(q)' = Left(reqs'[q].attempts)
    <3>1. CASE reqs'[q].attempts = attempts
      BY <2>1, <2>3, <3>1
    <3>2. CASE reqs[q].pc = "fail" /\ reqs'[q].attempts = reqs[q].attempts
      <4>1. /\ Left(reqs[q].attempts) <= Reach(q)
            /\ Left(reqs[q].attempts) \in 1..MaxAttempts
        BY <3>2, ReachRange, LeftRange
      <4>2. QED
        BY <2>1, <2>3, <3>2, <4>1
    <3>3. QED
      BY <2>3, <3>1, <3>2
  <2>4. QED
    BY <2>2, <2>3 DEF Reach, Left
<1>2. SUFFICES ASSUME NEW p \in Requests, NEW q \in Requests, p # q, Requests = {p, q}
               PROVE  Room(guesses, Reach(p), Reach(q))'
  BY DEF GuessInv
<1>3. Room(guesses, Reach(p)', Reach(q)')
  <2>1. Room(guesses, Reach(p), Reach(q)) /\ guesses \in Nat
    BY <1>2 DEF GuessInv, TypeOK
  <2>2. Reach(p) \in 1..MaxAttempts /\ Reach(q) \in 1..MaxAttempts
    BY ReachRange
  <2>3. QED
    BY <1>1, <2>1, <2>2, RoomNearer
<1>4. QED
  BY <1>3 DEF Room

\* A failure is recorded: the count is one more than the one that was read.
LEMMA GuessRecorded ==
  ASSUME TypeOK, TypeOK', GuessInv, NEW x \in Requests, FailedAttempt(x)
  PROVE  GuessInv'
<1> DEFINE n == reqs[x].attempts
<1>1. /\ reqs[x].pc = "fail" /\ n \in Nat /\ Left(n) \in 1..MaxAttempts /\ Left(n) <= Reach(x)
      /\ attempts' = n + 1 /\ reqs' = [reqs EXCEPT ![x] = Idle] /\ reqs'[x] = Idle
  <2>1. reqs[x].pc = "fail" /\ attempts' = n + 1 /\ reqs' = [reqs EXCEPT ![x] = Idle]
    BY DEF FailedAttempt, End
  <2>2. n \in Nat /\ Left(n) <= Reach(x)
    BY <2>1, ReachRange
  <2>3. reqs'[x] = Idle
    BY <2>1 DEF TypeOK
  <2>4. QED
    BY <2>1, <2>2, <2>3, LeftRange
<1>2. CASE (n + 1) % MaxAttempts = 0
  <2>1. guesses' = 0
    BY <1>2 DEF FailedAttempt
  <2>2. QED
    BY <2>1, GuessesCleared
<1>3. CASE (n + 1) % MaxAttempts # 0
  <2>1. guesses' = guesses + 1 /\ guesses \in Nat
    BY <1>3 DEF FailedAttempt, TypeOK
  <2> DEFINE c == Left(n + 1)
  <2>2. c = Left(n) - 1 /\ c \in 1..MaxAttempts
    BY <1>1, <1>3, LeftFalls, LeftRange
  <2>3. Left(attempts)' = c
    BY <1>1 DEF Left
  <2>4. Reach(x)' = c
    BY <1>1, <2>3 DEF Reach, Idle
  <2>5. ASSUME NEW y \in Requests, y # x
        PROVE  Reach(y)' \in 1..MaxAttempts /\ (Reach(y)' <= Reach(y) \/ Reach(y)' <= c)
    <3>1. reqs'[y] = reqs[y]
      BY <1>1, <2>5 DEF TypeOK
    <3>2. reqs[y].pc = "fail" =>
            Left(reqs[y].attempts) <= Reach(y) /\ Left(reqs[y].attempts) \in 1..MaxAttempts
      BY ReachRange, LeftRange
    <3>3. Reach(y)' = c \/ (reqs[y].pc = "fail" /\ Reach(y)' = Left(reqs[y].attempts))
      BY <2>3, <3>1 DEF Reach, Left
    <3> HIDE DEF c
    <3>4. QED
      BY <2>2, <3>2, <3>3
  <2>6. ASSUME NEW y \in Requests, y # x, Requests = {x, y}
        PROVE  Room(guesses', Reach(x)', Reach(y)')
    <3>1. Room(guesses, Reach(x), Reach(y))
      BY <2>6 DEF GuessInv
    <3>2. /\ Reach(x) \in 1..MaxAttempts /\ Reach(y) \in 1..MaxAttempts
          /\ Reach(y)' \in 1..MaxAttempts /\ (Reach(y)' <= Reach(y) \/ Reach(y)' <= c)
      BY <2>5, <2>6, ReachRange
    <3>3. c \in 1..Reach(x) - 1
      BY <1>1, <2>2, <3>2
    <3> HIDE DEF c
    <3>4. Room(guesses + 1, c, Reach(y)')
      BY <2>1, <3>1, <3>2, <3>3, RoomStep
    <3>5. QED
      BY <2>1, <2>4, <3>4
  <2>7. ASSUME NEW p \in Requests, NEW q \in Requests, p # q, Requests = {p, q}
        PROVE  Room(guesses', Reach(p)', Reach(q)')
    <3>1. CASE p = x
      BY <2>6, <2>7, <3>1
    <3>2. CASE q = x
      <4>1. Room(guesses', Reach(q)', Reach(p)')
        BY <2>6, <2>7, <3>2
      <4>2. Reach(p)' \in Int /\ Reach(q)' \in Int
        BY <2>2, <2>4, <2>5, <2>7, <3>2
      <4>3. QED
        BY <4>1, <4>2 DEF Room
    <3>3. QED
      BY <2>7, <3>1, <3>2
  <2>8. QED
    BY <2>7 DEF GuessInv, Room
<1>4. QED
  BY <1>2, <1>3

LEMMA GuessStep == Inv /\ GuessInv /\ [Next]_vars => GuessInv'
<1> SUFFICES ASSUME Inv, GuessInv, [Next]_vars PROVE GuessInv'
  OBVIOUS
<1>0. TypeOK /\ TypeOK'
  BY StepInv DEF Inv
<1>1. ASSUME guesses' = guesses, attempts' = attempts, reqs' = reqs PROVE GuessInv'
  BY <1>0, <1>1, GuessesKept
<1>2. ASSUME guesses' = guesses, attempts' = attempts, NEW x \in Requests, NEW r,
             reqs' = [reqs EXCEPT ![x] = r], r.pc = "fail" => r.attempts = attempts
      PROVE  GuessInv'
  BY <1>0, <1>2, GuessesKept DEF TypeOK
<1>3. ASSUME NEW x \in Requests, Serve(x) PROVE GuessInv'
  <2>1. CASE FailedAttempt(x)
    BY <1>0, <2>1, GuessRecorded
  <2>2. CASE ClearAttempts(x)
    BY <1>0, <2>2, GuessesCleared DEF ClearAttempts
  <2>3. CASE WrongGuess(x) \/ RightGuess(x) \/ ForgotReads(x)
    BY <1>2, <2>3 DEF WrongGuess, RightGuess, ForgotReads, Begin, counter
  <2>4. CASE CreateSession(x)
    <3>1. reqs[x] \in Reqs /\ reqs[x].pc = "session"
      BY <1>0, <2>4 DEF TypeOK, CreateSession
    <3>2. [reqs[x] EXCEPT !.pc = "clear"].pc # "fail"
      BY <3>1 DEF Reqs, Idle
    <3>3. reqs' = [reqs EXCEPT ![x] = [reqs[x] EXCEPT !.pc = "clear"]] /\ UNCHANGED counter
      BY <2>4 DEF CreateSession
    <3>4. QED
      BY <1>2, <3>2, <3>3 DEF counter
  <2>5. CASE LoginStops(x) \/ ForgotWrites(x) \/ ResetCommits(x) \/ SetCommits(x)
             \/ ChangeCommits(x) \/ RequestDies(x)
    <3>1. reqs' = [reqs EXCEPT ![x] = Idle] /\ UNCHANGED counter
      BY <2>5 DEF LoginStops, ForgotWrites, ResetCommits, SetCommits, ChangeCommits, RequestDies, End
    <3>2. QED
      BY <1>2, <3>1 DEF Idle, counter
  <2>6. CASE \E new \in PasswordSet : ResetReads(x, new) \/ SetReads(x, new)
    BY <1>2, <2>6 DEF ResetReads, SetReads, Renew, Begin, counter
  <2>7. CASE \E new \in PasswordSet, s \in Rows : ChangeReads(x, new, s)
    BY <1>2, <2>7 DEF ChangeReads, Begin, counter
  <2>8. CASE Rereads(x)
    <3> DEFINE r == [reqs[x] EXCEPT !.pc = IF reqs[x].pc = "reset" THEN "resetting" ELSE "changing", !.old = pw]
    <3>1. reqs' = [reqs EXCEPT ![x] = r] /\ UNCHANGED counter
      BY <2>8 DEF Rereads
    <3>2. reqs[x] \in Reqs /\ reqs[x].pc \in {"reset", "change"}
      BY <1>0, <2>8 DEF TypeOK, Rereads
    <3>3. r.pc # "fail"
      BY <3>2 DEF Reqs, Idle
    <3> HIDE DEF r
    <3>4. QED
      BY <1>2, <3>1, <3>3 DEF counter
  <2>9. CASE UnsuspendReads(x) \/ Unsuspend(x)
    BY <1>2, <2>9 DEF UnsuspendReads, Unsuspend, Begin, End, Idle, counter
  <2>10. QED
    BY <1>3, <2>1, <2>2, <2>3, <2>4, <2>5, <2>6, <2>7, <2>8, <2>9 DEF Serve
<1>4. CASE \E new \in PasswordSet : AdminSets(new)
  BY <1>0, <1>4, GuessesCleared DEF AdminSets
<1>5. CASE Suspend \/ LockExpires \/ ResetAges \/ SetLinkAges
  BY <1>1, <1>5 DEF Suspend, LockExpires, ResetAges, SetLinkAges, Act, counter
<1>6. CASE UNCHANGED vars
  BY <1>1, <1>6 DEF vars, counter
<1>7. QED
  BY <1>3, <1>4, <1>5, <1>6 DEF Next

\* Two requests at a time record fewer wrong guesses between two lockouts than the
\* bound, however they lose each other's failures.
THEOREM GuessesStayFew == Spec => []GuessesBounded
<1>1. Init => GuessInv
  <2> SUFFICES ASSUME Init PROVE GuessInv
    OBVIOUS
  <2>1. TypeOK /\ guesses = 0
    BY InitInv DEF Inv, Init
  <2>2. \A q \in Requests : Reach(q) \in 1..MaxAttempts
    BY <2>1, ReachRange
  <2>3. QED
    BY <2>1, <2>2, RoomAtFirst DEF GuessInv
<1>2. Inv /\ GuessInv => GuessesBounded
  <2> SUFFICES ASSUME Inv, GuessInv, Cardinality(Requests) = 2 PROVE guesses < GuessBound
    BY DEF GuessesBounded
  <2>1. PICK p \in Requests, q \in Requests : p # q /\ Requests = {p, q}
    <3>1. PICK p \in Requests : TRUE
      BY RequestsFinite, FS_EmptySet
    <3>2. IsFiniteSet(Requests \ {p}) /\ Cardinality(Requests \ {p}) = 1
      BY RequestsFinite, FS_RemoveElement
    <3>3. PICK q \in Requests \ {p} : TRUE
      BY <3>2, FS_EmptySet
    <3>4. IsFiniteSet((Requests \ {p}) \ {q}) /\ Cardinality((Requests \ {p}) \ {q}) = 0
      BY <3>2, FS_RemoveElement
    <3>5. (Requests \ {p}) \ {q} = {}
      BY <3>4, FS_EmptySet
    <3>6. QED
      BY <3>5
  <2>2. /\ Room(guesses, Reach(p), Reach(q)) /\ guesses \in Nat
        /\ Reach(p) \in 1..MaxAttempts /\ Reach(q) \in 1..MaxAttempts
    BY <2>1, ReachRange DEF GuessInv, Inv, TypeOK
  <2> DEFINE most == MaxAttempts * (MaxAttempts + 1)
  <2>3. 2 * guesses + 2 <= most /\ most \in Nat
    <3>1. /\ (Reach(p) - 1) * Reach(p) \in Nat
          /\ (Reach(q) - 1) * Reach(q) \in Nat
      BY <2>2, Squares
    <3>2. QED
      BY <2>2, <3>1 DEF Room
  <2> HIDE DEF most
  <2>4. guesses < most \div 2
    BY <2>2, <2>3
  <2>5. QED
    BY <2>4 DEF GuessBound, most
<1>3. QED
  BY <1>1, <1>2, InitInv, StepInv, GuessStep, PTL DEF Spec
=============================================================================
