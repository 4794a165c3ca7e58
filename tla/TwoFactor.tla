------------------------------- MODULE TwoFactor -------------------------------
(***************************************************************************)
(* The second factor of one user: enrolment, backup codes, trusted         *)
(* devices, the count of wrong codes, recovery and the administrator's     *)
(* hand in it.  Requests read the user's row and write it later; only      *)
(* verification and disabling hold the row locked in between (held).       *)
(***************************************************************************)
EXTENDS Endpoints

CONSTANTS
  Requests,      \* requests handled at the same time
  MaxAttempts,   \* app.twoFactor.maxAttempts
  MaxBegun,      \* bound: requests and acts of administrators
  None

ASSUME AttemptsPositive == MaxAttempts \in Nat \ {0}
ASSUME BegunPositive == MaxBegun \in Nat \ {0}

VARIABLES
  status,              \* ACTIVE, or suspended or deactivated
  enabled, enforced,   \* isTwoFactorEnabled, isTwoFactorEnforced
  grace,               \* twoFactorGracePeriodEnd
  secret,              \* twoFactorSecret: the number of the set-up that made it, 0 for null
  attempts, lockout,   \* twoFactorAttempts, twoFactorAttemptsLockout
  codes,               \* unused backup codes, one standing for each set of them
  devices,             \* trusted devices, with the secret they were trusted on
  recovery,            \* age of twoFactorRecoveryRequestedAt and its token
  held,                \* the request that holds the row FOR UPDATE
  reqs,                \* the requests under way
  begun,               \* how many began
  proved,              \* history: the secret that the enrolment was confirmed with
  raced,               \* history: it was not the secret of the row any more
  taken,               \* history: backup codes accepted, and how often
  unset                \* history: a lockout was due and its request died

factor == <<enabled, enforced, grace, secret>>
row == <<status, factor>>
count == <<attempts, lockout, unset>>
extras == <<codes, devices, recovery>>
history == <<proved, raced, taken>>
vars == <<row, count, extras, held, reqs, begun, history>>

Number == 0..MaxBegun
Idle == [pc |-> "idle"]

Reqs ==
  {Idle}
    \cup [pc : {"token", "code", "fail", "lock", "recover"}]
    \cup [pc : {"setup", "regenerate"}, n : Number]
    \cup [pc : {"confirm"}, n : Number, secret : Number \ {0}]
    \cup [pc : {"mark"}, code : Number]
    \cup [pc : {"record"}, expired : BOOLEAN]
    \cup [pc : {"passed"}, secret : Number, clears : BOOLEAN, trusts : BOOLEAN]

TypeOK ==
  /\ status \in {"ACTIVE", "SUSPENDED"}
  /\ enabled \in BOOLEAN /\ enforced \in BOOLEAN
  /\ grace \in {"none", "running", "over"}
  /\ secret \in Number
  /\ attempts \in Nat /\ lockout \in {"none", "active", "past"}
  /\ codes \in SUBSET [id : Number, late : BOOLEAN]
  /\ devices \in SUBSET [secret : Number, late : BOOLEAN]
  /\ recovery \in {"none", "recent", "valid", "expired"}
  /\ held \in Requests \cup {None}
  /\ reqs \in [Requests -> Reqs]
  /\ begun \in Number
  /\ proved \in Number /\ raced \in BOOLEAN
  /\ taken \in [Number -> 0..2]
  /\ unset \in BOOLEAN

\* Not enrolled, or enrolled by a first set-up.
Init ==
  /\ status = "ACTIVE"
  /\ enabled \in BOOLEAN
  /\ secret = IF enabled THEN 1 ELSE 0
  /\ begun = secret /\ proved = secret
  /\ codes = {[id |-> n, late |-> FALSE] : n \in {secret} \ {0}}
  /\ enforced = FALSE /\ grace = "none"
  /\ attempts = 0 /\ lockout = "none" /\ unset = FALSE
  /\ devices = {} /\ recovery = "none"
  /\ held = None
  /\ reqs = [q \in Requests |-> Idle]
  /\ raced = FALSE /\ taken = [n \in Number |-> 0]

-----------------------------------------------------------------------------
\* What JwtAuthGuard lets a user with a session reach.
Reaches(path) ==
  AccountAllows(At(path), [status |-> status, enabled |-> enabled, enforced |-> enforced,
                           inGrace |-> grace = "running"])

Begin(q, r) ==
  /\ reqs[q] = Idle
  /\ begun < MaxBegun
  /\ begun' = begun + 1
  /\ reqs' = [reqs EXCEPT ![q] = r]

Go(q, r) ==
  /\ reqs' = [reqs EXCEPT ![q] = r]
  /\ UNCHANGED begun

Act == begun < MaxBegun /\ begun' = begun + 1 /\ UNCHANGED reqs

ForgetAttempts ==
  attempts' = 0 /\ lockout' = "none" /\ unset' = FALSE

Late(things) == {[t EXCEPT !.late = TRUE] : t \in things}

\* generateSetup: not enabled when read; the secret is overwritten, and the
\* factor switched off, whatever the row holds by then.
SetupReads(q) ==
  /\ Reaches("setupTwoFactor")
  /\ ~enabled
  /\ Begin(q, [pc |-> "setup", n |-> begun'])
  /\ UNCHANGED <<row, count, extras, held, history>>

\* (mutant) Only the secret is written.
SetupWritesSecret(q) ==
  /\ reqs[q].pc = "setup"
  /\ held = None
  /\ secret' = reqs[q].n
  /\ codes' = IF enabled THEN Late(codes) ELSE codes
  /\ devices' = IF enabled THEN Late(devices) ELSE devices
  /\ Go(q, Idle)
  /\ UNCHANGED <<status, enabled, enforced, grace, count, recovery, held, history>>

SetupWrites(q) ==
  /\ reqs[q].pc = "setup"
  /\ held = None
  /\ secret' = reqs[q].n
  /\ enabled' = FALSE
  /\ codes' = IF enabled THEN Late(codes) ELSE codes
  /\ devices' = IF enabled THEN Late(devices) ELSE devices
  /\ Go(q, Idle)
  /\ UNCHANGED <<status, enforced, grace, count, recovery, held, history>>

\* confirmSetup: a code of the secret that was read, then, in a transaction,
\* the factor is switched on and its backup codes are replaced.
ConfirmReads(q) ==
  /\ Reaches("confirmTwoFactor")
  /\ secret # 0 /\ ~enabled
  /\ Begin(q, [pc |-> "confirm", n |-> begun', secret |-> secret])
  /\ UNCHANGED <<row, count, extras, held, history>>

ConfirmCommits(q) ==
  /\ reqs[q].pc = "confirm"
  /\ held = None
  /\ enabled' = TRUE /\ grace' = "none"
  /\ ForgetAttempts
  /\ codes' = {[id |-> reqs[q].n, late |-> FALSE]}
  /\ proved' = reqs[q].secret
  /\ raced' = (secret # reqs[q].secret)
  /\ Go(q, Idle)
  /\ UNCHANGED <<status, enforced, secret, devices, recovery, held, taken>>

\* regenerateBackupCodes: the check on the row that was read, and a transaction
\* over the codes only.
RegenerateReads(q) ==
  /\ Reaches("regenerateBackupCodes")
  /\ enabled /\ secret # 0
  /\ Begin(q, [pc |-> "regenerate", n |-> begun'])
  /\ UNCHANGED <<row, count, extras, held, history>>

RegenerateCommits(q) ==
  /\ reqs[q].pc = "regenerate"
  /\ codes' = {[id |-> reqs[q].n, late |-> ~enabled]}
  /\ Go(q, Idle)
  /\ UNCHANGED <<row, count, devices, recovery, held, history>>

\* What goes with the secret, wherever it is taken away.
RemoveFactor ==
  /\ enabled' = FALSE /\ secret' = 0 /\ grace' = "none"
  /\ codes' = {} /\ devices' = {}
  /\ ForgetAttempts

\* (mutant) The user's own wish is enough.
DisableEnforced ==
  /\ Act
  /\ Reaches("disableTwoFactor")
  /\ held = None
  /\ enabled /\ secret # 0
  /\ RemoveFactor
  /\ UNCHANGED <<status, enforced, recovery, held, history>>

\* disable: one transaction, under the lock of the row.
Disable ==
  /\ Act
  /\ Reaches("disableTwoFactor")
  /\ held = None
  /\ enabled /\ secret # 0 /\ ~enforced
  /\ RemoveFactor
  /\ UNCHANGED <<status, enforced, recovery, held, history>>

-----------------------------------------------------------------------------
\* login of a user with the factor, on no trusted device, answers with a token.
Login(q) ==
  /\ enabled /\ status = "ACTIVE"
  /\ Begin(q, [pc |-> "token"])
  /\ UNCHANGED <<row, count, extras, held, history>>

\* verifyTwoFactor checks the lockout, not whether the factor is still enabled.
Verify(q) ==
  /\ reqs[q].pc = "token"
  /\ lockout # "active"
  /\ Go(q, [pc |-> "code"])
  /\ UNCHANGED <<row, count, extras, held, history>>

\* The status is read again before a session is created and a device trusted.
Passed(s, trusts) == [pc |-> "passed", secret |-> s, clears |-> TRUE, trusts |-> trusts /\ status = "ACTIVE"]

\* verifyCode: a TOTP code against the secret, the row being locked.
CodeRight(q, trusts) ==
  /\ reqs[q].pc = "code"
  /\ held = None
  /\ secret # 0
  /\ Go(q, Passed(secret, trusts))
  /\ UNCHANGED <<row, count, extras, held, history>>

CodeWrong(q) ==
  /\ reqs[q].pc = "code"
  /\ held = None
  /\ Go(q, [pc |-> "fail"])
  /\ UNCHANGED <<row, count, extras, held, history>>

\* verifyBackupCode: the row is locked and an unused code matches ...
BackupFinds(q, c) ==
  /\ reqs[q].pc = "code"
  /\ held = None
  /\ c \in codes
  /\ held' = q
  /\ Go(q, [pc |-> "mark", code |-> c.id])
  /\ UNCHANGED <<row, count, extras, history>>

Unused(n) == {c \in codes : c.id = n}

\* (mutant) ... and is marked whatever has become of it.
BackupMarksAny(q, trusts) ==
  /\ reqs[q].pc = "mark"
  /\ held' = None
  /\ codes' = codes \ Unused(reqs[q].code)
  /\ taken' = [taken EXCEPT ![reqs[q].code] = @ + 1]
  /\ Go(q, Passed(secret, trusts))
  /\ UNCHANGED <<row, count, devices, recovery, proved, raced>>

\* ... and is marked if it is still there and unused.
BackupMarks(q, trusts) ==
  /\ reqs[q].pc = "mark"
  /\ held' = None
  /\ codes' = codes \ Unused(reqs[q].code)
  /\ IF Unused(reqs[q].code) # {}
       THEN /\ taken' = [taken EXCEPT ![reqs[q].code] = @ + 1]
            /\ Go(q, Passed(secret, trusts))
       ELSE /\ Go(q, [pc |-> "fail"])
            /\ UNCHANGED taken
  /\ UNCHANGED <<row, count, devices, recovery, proved, raced>>

\* checkAndRecordFailedAttempt: a transaction reads whether a lockout has
\* ended ...
RecordReads(q) ==
  /\ reqs[q].pc = "fail"
  /\ Go(q, [pc |-> "record", expired |-> lockout = "past"])
  /\ UNCHANGED <<row, count, extras, held, history>>

Attempts(q) == IF reqs[q].expired THEN 1 ELSE attempts + 1

\* (mutant) The lockout is due when the maximum is reached, not beyond.
RecordCountsOnce(q) ==
  /\ reqs[q].pc = "record"
  /\ held = None
  /\ attempts' = Attempts(q)
  /\ lockout' = "none"
  /\ unset' = (unset /\ attempts' > 1)
  /\ Go(q, IF attempts' = MaxAttempts THEN [pc |-> "lock"] ELSE Idle)
  /\ UNCHANGED <<row, extras, held, history>>

\* ... and counts, which also ends any lockout begun in between.
RecordCounts(q) ==
  /\ reqs[q].pc = "record"
  /\ held = None
  /\ attempts' = Attempts(q)
  /\ lockout' = "none"
  /\ unset' = (unset /\ attempts' > 1)
  /\ Go(q, IF attempts' >= MaxAttempts THEN [pc |-> "lock"] ELSE Idle)
  /\ UNCHANGED <<row, extras, held, history>>

\* setTwoFactorLockout, a statement of its own.
SetLockout(q) ==
  /\ reqs[q].pc = "lock"
  /\ held = None
  /\ lockout' = "active"
  /\ unset' = FALSE
  /\ Go(q, Idle)
  /\ UNCHANGED <<row, attempts, extras, held, history>>

LockoutEnds ==
  /\ lockout = "active"
  /\ lockout' = "past"
  /\ UNCHANGED <<row, attempts, unset, extras, held, reqs, begun, history>>

Done(r) == IF r.clears \/ r.trusts THEN r ELSE Idle

\* clearAttempts, which nobody awaits.
Clear(q) ==
  /\ reqs[q].pc = "passed" /\ reqs[q].clears
  /\ held = None
  /\ ForgetAttempts
  /\ Go(q, Done([reqs[q] EXCEPT !.clears = FALSE]))
  /\ UNCHANGED <<row, extras, held, history>>

\* createTrustToken, after the session was created.
Trust(q) ==
  /\ reqs[q].pc = "passed" /\ reqs[q].trusts
  /\ devices' = devices \cup
       {[secret |-> reqs[q].secret, late |-> ~enabled \/ secret # reqs[q].secret]}
  /\ Go(q, Done([reqs[q] EXCEPT !.trusts = FALSE]))
  /\ UNCHANGED <<row, count, codes, recovery, held, history>>

-----------------------------------------------------------------------------
\* requestTwoFactorRecovery, not within the cooldown.
RecoveryRequested ==
  /\ Act
  /\ enabled /\ recovery # "recent" /\ held = None
  /\ recovery' = "recent"
  /\ UNCHANGED <<row, count, codes, devices, held, history>>

RecoveryAges ==
  /\ recovery \in {"recent", "valid"}
  /\ recovery' = IF recovery = "recent" THEN "valid" ELSE "expired"
  /\ UNCHANGED <<row, count, codes, devices, held, reqs, begun, history>>

\* confirmTwoFactorRecovery, up to the reset.
RecoveryReads(q) ==
  /\ enabled /\ recovery \in {"recent", "valid"}
  /\ Begin(q, [pc |-> "recover"])
  /\ UNCHANGED <<row, count, extras, held, history>>

\* adminReset: also for the administrator's own request, and adminDisable,
\* whose check is made on an earlier read.
RecoveryResets(q) ==
  /\ reqs[q].pc = "recover"
  /\ held = None
  /\ RemoveFactor
  /\ enforced' = FALSE
  /\ recovery' = "none"
  /\ Go(q, Idle)
  /\ UNCHANGED <<status, held, history>>

AdminResets ==
  /\ Act
  /\ held = None
  /\ RemoveFactor
  /\ enforced' = FALSE
  /\ recovery' \in {recovery, "none"}
  /\ UNCHANGED <<status, held, history>>

\* (mutant) A suspension takes the codes and forgets the devices.
CleanupCodesOnly ==
  /\ Act
  /\ held = None
  /\ status = "ACTIVE"
  /\ status' = "SUSPENDED"
  /\ enabled' = FALSE /\ secret' = 0 /\ grace' = "none"
  /\ codes' = {}
  /\ ForgetAttempts
  /\ UNCHANGED <<enforced, devices, recovery, held, history>>

\* Suspension, deactivation and the end of credential login clean up.
Cleanup ==
  /\ Act
  /\ held = None
  /\ status = "ACTIVE"
  /\ status' = "SUSPENDED"
  /\ RemoveFactor
  /\ UNCHANGED <<enforced, recovery, held, history>>

\* unsuspendUser and reactivateUser leave the factor alone.
Restore ==
  /\ Act
  /\ held = None
  /\ status = "SUSPENDED"
  /\ status' = "ACTIVE"
  /\ UNCHANGED <<factor, count, extras, held, history>>

\* enforceTwoFactor and removeTwoFactorEnforcement.
Enforce ==
  /\ Act
  /\ held = None
  /\ ~enforced
  /\ enforced' = TRUE
  /\ grace' = IF enabled THEN grace ELSE "running"
  /\ UNCHANGED <<status, enabled, secret, count, extras, held, history>>

RemoveEnforcement ==
  /\ Act
  /\ held = None
  /\ enforced
  /\ enforced' = FALSE /\ grace' = "none"
  /\ UNCHANGED <<status, enabled, secret, count, extras, held, history>>

GraceEnds ==
  /\ grace = "running"
  /\ grace' = "over"
  /\ UNCHANGED <<status, enabled, enforced, secret, count, extras, held, reqs, begun, history>>

\* A request fails or its process dies; a transaction is rolled back.
RequestDies(q) ==
  /\ reqs[q] # Idle
  /\ unset' = (unset \/ reqs[q].pc = "lock")
  /\ held' = IF held = q THEN None ELSE held
  /\ Go(q, Idle)
  /\ UNCHANGED <<row, attempts, lockout, extras, history>>

EnrolStep(q) ==
  \/ SetupReads(q) \/ SetupWrites(q)
  \/ ConfirmReads(q) \/ ConfirmCommits(q)
  \/ RegenerateReads(q) \/ RegenerateCommits(q)

LoginStep(q) ==
  \/ Login(q) \/ Verify(q) \/ CodeWrong(q)
  \/ \E trusts \in BOOLEAN : CodeRight(q, trusts) \/ BackupMarks(q, trusts)
  \/ \E c \in codes : BackupFinds(q, c)
  \/ RecordReads(q) \/ RecordCounts(q) \/ SetLockout(q)
  \/ Clear(q) \/ Trust(q)

OnRow ==
  Disable \/ AdminResets \/ Cleanup \/ Restore \/ Enforce \/ RemoveEnforcement \/ RecoveryRequested

Next ==
  \/ \E q \in Requests : EnrolStep(q) \/ LoginStep(q) \/ RequestDies(q)
  \/ \E q \in Requests : RecoveryReads(q) \/ RecoveryResets(q)
  \/ OnRow
  \/ LockoutEnds \/ RecoveryAges \/ GraceEnds

Spec == Init /\ [][Next]_vars

-----------------------------------------------------------------------------
\* An enabled factor is one whose secret the user has given a code of, unless
\* the confirmation was itself overtaken by a set-up or a reset.
FactorProved == enabled /\ ~raced => secret = proved /\ secret # 0

\* A factor that is enforced is taken away by an administrator, who ends the
\* enforcement with it or suspends the user, by recovery, or by a set-up that
\* was begun before it was confirmed; not by its user.
EnforcedFactorStays ==
  [][enabled /\ enforced /\ ~enabled' =>
       \/ ~enforced'
       \/ \E q \in Requests : reqs[q].pc = "setup" /\ SetupWrites(q)
       \/ status' # "ACTIVE"]_vars

\* Codes and trusted devices belong to the enabled factor, unless they were
\* under way when it was switched off or replaced.
LeftoversAccountedFor ==
  /\ \A c \in codes : c.late \/ enabled
  /\ \A d \in devices : d.late \/ (enabled /\ d.secret = secret)

\* A backup code opens one login, and none once it was replaced.
BackupCodesOnce ==
  [][\A n \in Number : taken'[n] > taken[n] => taken[n] = 0 /\ Unused(n) # {}]_vars

\* Whatever failures are counted at the same time, a count that has reached the
\* maximum has a lockout, or a request on its way to set one, or lost it.
LockoutFollows ==
  attempts >= MaxAttempts =>
    lockout # "none" \/ unset \/ \E q \in Requests : reqs[q].pc = "lock"
=============================================================================
