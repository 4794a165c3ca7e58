---------------------------- MODULE TwoFactorProofs ----------------------------
(***************************************************************************)
(* What overlapping requests cannot break of the second factor, for any    *)
(* number of them and any number of attempts: every property of TwoFactor. *)
(* All but BackupCodesOnce are inductive with the types; that one rests on *)
(* an account of the numbers that backup codes get.                        *)
(***************************************************************************)
EXTENDS TwoFactor, TLAPS

Makes(r) == r.pc \in {"confirm", "regenerate"}

\* Codes that are in the row have opened nothing, and those about to be made have
\* numbers of their own.
CodesFresh ==
  /\ \A c \in codes : c.id <= begun /\ taken[c.id] = 0
  /\ \A q \in Requests : Makes(reqs[q]) =>
       reqs[q].n <= begun /\ taken[reqs[q].n] = 0 /\ \A c \in codes : c.id # reqs[q].n
  /\ \A p, q \in Requests : Makes(reqs[p]) /\ Makes(reqs[q]) /\ p # q => reqs[p].n # reqs[q].n
  /\ \A n \in Number : n > begun => taken[n] = 0

Inv == TypeOK /\ CodesFresh /\ FactorProved /\ LeftoversAccountedFor /\ LockoutFollows

USE AttemptsPositive, BegunPositive

-----------------------------------------------------------------------------
\* What begins without the factor, or enrolled by one set-up.
LEMMA InitInv == Init => Inv
<1> SUFFICES ASSUME Init PROVE Inv
  OBVIOUS
<1>1. secret \in {0, 1} /\ secret \in Number /\ 0 \in Number
  <2>1. secret \in {0, 1}
    BY Zenon DEF Init
  <2>2. 0 \in Number /\ 1 \in Number
    BY DEF Number
  <2>3. QED
    BY <2>1, <2>2
<1>2. codes \in SUBSET [id : Number, late : BOOLEAN] /\ \A c \in codes : c.id = 1 /\ c.id = secret
  <2>1. codes = {[id |-> n, late |-> FALSE] : n \in {secret} \ {0}}
    BY DEF Init
  <2>2. \A c \in codes : c = [id |-> secret, late |-> FALSE] /\ secret # 0
    BY <2>1
  <2>3. [id |-> secret, late |-> FALSE] \in [id : Number, late : BOOLEAN]
    BY <1>1
  <2>4. \A c \in codes : c.id = secret /\ secret # 0
    BY <2>2
  <2>5. \A c \in codes : c \in [id : Number, late : BOOLEAN]
    BY <2>2, <2>3, Zenon
  <2>6. QED
    BY <1>1, <2>4, <2>5
<1>3. TypeOK
  <2>1. status \in {"ACTIVE", "SUSPENDED"} /\ enabled \in BOOLEAN /\ enforced \in BOOLEAN
    BY DEF Init
  <2>2. grace \in {"none", "running", "over"} /\ lockout \in {"none", "active", "past"}
        /\ recovery \in {"none", "recent", "valid", "expired"}
    BY DEF Init
  <2>3. attempts \in Nat /\ begun \in Number /\ proved \in Number
    BY <1>1 DEF Init
  <2>4. devices \in SUBSET [secret : Number, late : BOOLEAN] /\ held \in Requests \cup {None}
    BY DEF Init
  <2>5. raced \in BOOLEAN /\ unset \in BOOLEAN
    BY DEF Init
  <2>6. reqs \in [Requests -> Reqs]
    BY DEF Init, Reqs
  <2>7. taken \in [Number -> 0..2]
    BY DEF Init
  <2>8. QED
    BY <1>1, <1>2, <2>1, <2>2, <2>3, <2>4, <2>5, <2>6, <2>7 DEF TypeOK
<1>4. CodesFresh
  BY <1>1, <1>2 DEF Init, CodesFresh, Makes, Idle, Number
<1>5. FactorProved
  BY DEF Init, FactorProved
<1>6. LeftoversAccountedFor
  BY <1>2 DEF Init, LeftoversAccountedFor
<1>7. LockoutFollows
  BY DEF Init, LockoutFollows
<1>8. QED
  BY <1>3, <1>4, <1>5, <1>6, <1>7 DEF Inv

-----------------------------------------------------------------------------
(***************************************************************************)
(* The requests.                                                           *)
(***************************************************************************)
\* A request goes on.  One that will make codes has just begun.
LEMMA RequestStep ==
  ASSUME Inv, NEW q \in Requests, NEW r \in Reqs,
         reqs' = [reqs EXCEPT ![q] = r],
         begun' \in Number, begun' \in {begun, begun + 1},
         Makes(r) => begun' = begun + 1 /\ r.n = begun',
         taken' = taken, \A c \in codes' : \E d \in codes : d.id = c.id
  PROVE  reqs' \in [Requests -> Reqs] /\ CodesFresh'
<1>1. reqs \in [Requests -> Reqs] /\ begun \in Nat /\ begun' \in Nat /\ begun <= begun'
  BY DEF Inv, TypeOK, Number
<1>2. reqs' \in [Requests -> Reqs]
  BY <1>1
<1>3. reqs'[q] = r /\ \A p \in Requests : p # q => reqs'[p] = reqs[p]
  BY <1>1
<1>4. \A p \in Requests : Makes(reqs[p]) => reqs[p].n \in Number
  BY <1>1 DEF Makes, Reqs, Idle
<1>5. \A c \in codes : c.id \in Number /\ c.id \in Nat
  BY DEF Inv, TypeOK, Number
<1>6. /\ \A c \in codes : c.id <= begun /\ taken[c.id] = 0
      /\ \A p \in Requests : Makes(reqs[p]) =>
           reqs[p].n <= begun /\ taken[reqs[p].n] = 0 /\ \A c \in codes : c.id # reqs[p].n
      /\ \A p, s \in Requests : Makes(reqs[p]) /\ Makes(reqs[s]) /\ p # s => reqs[p].n # reqs[s].n
      /\ \A n \in Number : n > begun => taken[n] = 0
  BY DEF Inv, CodesFresh
<1>7. ASSUME NEW c \in codes' PROVE c.id <= begun' /\ taken[c.id] = 0 /\ c.id <= begun
  BY <1>1, <1>5, <1>6
<1>8. ASSUME NEW p \in Requests, Makes(reqs'[p])
      PROVE  /\ reqs'[p].n \in Number /\ reqs'[p].n <= begun' /\ taken[reqs'[p].n] = 0
             /\ \A c \in codes' : c.id # reqs'[p].n
             /\ p # q => reqs'[p].n <= begun
             /\ p = q => reqs'[p].n = begun + 1
  <2>1. CASE p = q
    <3>1. r.n = begun' /\ begun' = begun + 1
      BY <1>3, <1>8, <2>1
    <3>2. taken[begun'] = 0
      BY <1>1, <1>6, <3>1
    <3>3. \A c \in codes' : c.id # begun'
      BY <1>1, <1>5, <1>7, <3>1
    <3>4. QED
      BY <1>1, <1>3, <2>1, <3>1, <3>2, <3>3
  <2>2. CASE p # q
    <3>1. reqs'[p] = reqs[p]
      BY <1>3, <2>2
    <3>2. reqs[p].n \in Number /\ reqs[p].n <= begun /\ taken[reqs[p].n] = 0
      BY <1>4, <1>6, <1>8, <3>1
    <3>3. \A c \in codes' : c.id # reqs[p].n
      BY <1>6, <1>8, <3>1
    <3>4. reqs[p].n <= begun'
      BY <1>1, <3>2 DEF Number
    <3>5. QED
      BY <2>2, <3>1, <3>2, <3>3, <3>4
  <2>3. QED
    BY <2>1, <2>2
<1>9. ASSUME NEW p \in Requests, NEW s \in Requests, Makes(reqs'[p]), Makes(reqs'[s]), p # s
      PROVE  reqs'[p].n # reqs'[s].n
  <2>1. CASE p # q /\ s # q
    BY <1>3, <1>6, <1>9, <2>1
  <2>2. CASE p = q \/ s = q
    BY <1>1, <1>8, <1>9, <2>2 DEF Number
  <2>3. QED
    BY <2>1, <2>2
<1>10. \A n \in Number : n > begun' => taken'[n] = 0
  BY <1>1, <1>6 DEF Number
<1>11. CodesFresh'
  BY <1>7, <1>8, <1>9, <1>10 DEF CodesFresh
<1>12. QED
  BY <1>2, <1>11

\* Somebody else acts.
LEMMA ActStep ==
  ASSUME Inv, reqs' = reqs, begun' \in Number, begun' \in {begun, begun + 1},
         taken' = taken, \A c \in codes' : c \in codes
  PROVE  reqs' \in [Requests -> Reqs] /\ CodesFresh'
<1>1. begun \in Nat /\ begun' \in Nat /\ begun <= begun'
  BY DEF Inv, TypeOK, Number
<1>2. \A q \in Requests : Makes(reqs[q]) => reqs[q].n \in Nat
  BY DEF Inv, TypeOK, Makes, Reqs, Idle, Number
<1>3. \A c \in codes : c.id \in Nat
  BY DEF Inv, TypeOK, Number
<1>4. /\ \A c \in codes' : c.id <= begun' /\ taken[c.id] = 0
      /\ \A n \in Number : n > begun' => taken[n] = 0
  BY <1>1, <1>3 DEF Inv, CodesFresh, Number
<1>5. /\ \A q \in Requests : Makes(reqs[q]) =>
           reqs[q].n <= begun' /\ taken[reqs[q].n] = 0 /\ \A c \in codes' : c.id # reqs[q].n
  BY <1>1, <1>2 DEF Inv, CodesFresh
<1>6. CodesFresh'
  BY <1>4, <1>5 DEF Inv, CodesFresh
<1>7. QED
  BY <1>6 DEF Inv, TypeOK

\* A lockout that is due stays due while nobody counts or sets it.
LEMMA StillDue ==
  ASSUME Inv, UNCHANGED count,
         \A p \in Requests : reqs[p].pc = "lock" => reqs'[p] = reqs[p]
  PROVE  LockoutFollows'
<1>1. UNCHANGED <<attempts, lockout, unset>>
  BY DEF count
<1>2. QED
  BY <1>1 DEF Inv, LockoutFollows

\* A step after which the attempts are forgotten.
LEMMA Forgotten ==
  ASSUME ForgetAttempts
  PROVE  attempts' \in Nat /\ lockout' = "none" /\ unset' \in BOOLEAN /\ LockoutFollows'
<1>1. attempts' = 0 /\ lockout' = "none" /\ unset' = FALSE
  BY DEF ForgetAttempts
<1>2. unset' \in BOOLEAN
  BY <1>1
<1>3. ~ (attempts' >= MaxAttempts)
  BY <1>1
<1>4. QED
  BY <1>1, <1>2, <1>3 DEF LockoutFollows

\* A request that reads: the row and what belongs to it stay.
LEMMA QuietStep ==
  ASSUME Inv, NEW q \in Requests, NEW r \in Reqs, reqs[q].pc # "lock",
         reqs' = [reqs EXCEPT ![q] = r],
         begun' \in Number, begun' \in {begun, begun + 1},
         Makes(r) => begun' = begun + 1 /\ r.n = begun',
         held' \in Requests \cup {None},
         UNCHANGED <<row, count, extras, history>>
  PROVE  Inv'
<1>1. UNCHANGED <<status, enabled, enforced, grace, secret, attempts, lockout, unset,
                  codes, devices, recovery, proved, raced, taken>>
  BY DEF row, factor, count, extras, history
<1>2. reqs' \in [Requests -> Reqs] /\ CodesFresh'
  BY <1>1, RequestStep
<1>3. TypeOK'
  BY <1>1, <1>2 DEF Inv, TypeOK
<1>4. LockoutFollows'
  <2>1. reqs \in [Requests -> Reqs]
    BY DEF Inv, TypeOK
  <2>2. \A p \in Requests : reqs[p].pc = "lock" => reqs'[p] = reqs[p]
    BY <2>1
  <2>3. QED
    BY <2>2, StillDue
<1>5. FactorProved' /\ LeftoversAccountedFor'
  BY <1>1 DEF Inv, FactorProved, LeftoversAccountedFor
<1>6. QED
  BY <1>2, <1>3, <1>4, <1>5 DEF Inv

-----------------------------------------------------------------------------
(***************************************************************************)
(* One lemma for each kind of step.                                        *)
(***************************************************************************)
\* What Begin and Go say of the counter of requests.
LEMMA Counted ==
  ASSUME Inv, NEW q \in Requests, NEW r, Begin(q, r) \/ Go(q, r)
  PROVE  /\ reqs' = [reqs EXCEPT ![q] = r]
         /\ begun' \in Number /\ begun' \in {begun, begun + 1}
         /\ Begin(q, r) => begun' = begun + 1 /\ reqs[q] = Idle
  BY DEF Begin, Go, Inv, TypeOK, Number

\* The requests that begin, other than a login.
LEMMA ReadsInv ==
  ASSUME Inv, NEW q \in Requests,
         SetupReads(q) \/ ConfirmReads(q) \/ RegenerateReads(q) \/ Login(q) \/ RecoveryReads(q)
  PROVE  Inv'
<1>1. PICK r : /\ Begin(q, r) /\ UNCHANGED <<row, count, extras, held, history>>
               /\ \/ r = [pc |-> "setup", n |-> begun']
                  \/ r = [pc |-> "confirm", n |-> begun', secret |-> secret] /\ secret # 0
                  \/ r = [pc |-> "regenerate", n |-> begun']
                  \/ r = [pc |-> "token"]
                  \/ r = [pc |-> "recover"]
  BY DEF SetupReads, ConfirmReads, RegenerateReads, Login, RecoveryReads
<1>2. /\ reqs' = [reqs EXCEPT ![q] = r] /\ begun' \in Number /\ begun' = begun + 1
      /\ reqs[q] = Idle
  BY <1>1, Counted
<1>3. secret \in Number /\ held' \in Requests \cup {None}
  BY <1>1 DEF Inv, TypeOK
<1>4. r \in Reqs
  BY <1>1, <1>2, <1>3 DEF Reqs
<1>5. Makes(r) => r.n = begun'
  BY <1>1 DEF Makes
<1>6. reqs[q].pc # "lock"
  BY <1>2 DEF Idle
<1>7. QED
  BY <1>1, <1>2, <1>3, <1>4, <1>5, <1>6, QuietStep

\* The steps of a login that only read.
LEMMA CodeInv ==
  ASSUME Inv, NEW q \in Requests,
         \/ Verify(q) \/ CodeWrong(q) \/ RecordReads(q)
         \/ \E trusts \in BOOLEAN : CodeRight(q, trusts)
         \/ \E c \in codes : BackupFinds(q, c)
  PROVE  Inv'
<1>1. PICK r : /\ Go(q, r) /\ UNCHANGED <<row, count, extras, history>>
               /\ held' \in {held, q}
               /\ reqs[q].pc \in {"token", "code", "fail"}
               /\ \/ r = [pc |-> "code"] \/ r = [pc |-> "fail"]
                  \/ \E b \in BOOLEAN : r = [pc |-> "record", expired |-> b]
                  \/ \E b \in BOOLEAN : r = [pc |-> "passed", secret |-> secret, clears |-> TRUE, trusts |-> b]
                  \/ \E c \in codes : r = [pc |-> "mark", code |-> c.id]
  <2>1. CASE Verify(q) \/ CodeWrong(q)
    BY <2>1 DEF Verify, CodeWrong
  <2>2. CASE RecordReads(q)
    <3>1. (lockout = "past") \in BOOLEAN
      OBVIOUS
    <3>2. QED
      BY <2>2, <3>1, Zenon DEF RecordReads
  <2>3. ASSUME NEW trusts \in BOOLEAN, CodeRight(q, trusts)
        PROVE  /\ Go(q, Passed(secret, trusts)) /\ UNCHANGED <<row, count, extras, history>>
               /\ held' = held /\ reqs[q].pc = "code"
               /\ \E b \in BOOLEAN :
                    Passed(secret, trusts) = [pc |-> "passed", secret |-> secret, clears |-> TRUE, trusts |-> b]
    <3>1. (trusts /\ status = "ACTIVE") \in BOOLEAN
      OBVIOUS
    <3>2. QED
      BY <2>3, <3>1, Zenon DEF CodeRight, Passed
  <2>4. CASE \E c \in codes : BackupFinds(q, c)
    BY <2>4, Zenon DEF BackupFinds
  <2>5. QED
    BY <2>1, <2>2, <2>3, <2>4, Zenon
<1>2. reqs' = [reqs EXCEPT ![q] = r] /\ begun' = begun /\ begun \in Number
  BY <1>1 DEF Go, Inv, TypeOK
<1>3. secret \in Number /\ held' \in Requests \cup {None} /\ \A c \in codes : c.id \in Number
  BY <1>1 DEF Inv, TypeOK
<1>4. r \in Reqs /\ ~Makes(r)
  <2>1. CASE r = [pc |-> "code"] \/ r = [pc |-> "fail"]
    BY <2>1 DEF Reqs, Makes
  <2>2. ASSUME NEW b \in BOOLEAN, r = [pc |-> "record", expired |-> b]
        PROVE  r \in Reqs /\ ~Makes(r)
    <3>1. r \in [pc : {"record"}, expired : BOOLEAN] /\ r.pc = "record"
      BY <2>2
    <3>2. QED
      BY <3>1, Zenon DEF Reqs, Makes
  <2>3. ASSUME NEW b \in BOOLEAN,
               r = [pc |-> "passed", secret |-> secret, clears |-> TRUE, trusts |-> b]
        PROVE  r \in Reqs /\ ~Makes(r)
    <3>1. TRUE \in BOOLEAN
      OBVIOUS
    <3>2. r \in [pc : {"passed"}, secret : Number, clears : BOOLEAN, trusts : BOOLEAN] /\ r.pc = "passed"
      BY <1>3, <2>3, <3>1
    <3>3. QED
      BY <3>2, Zenon DEF Reqs, Makes
  <2>4. ASSUME NEW c \in codes, r = [pc |-> "mark", code |-> c.id]
        PROVE  r \in Reqs /\ ~Makes(r)
    BY <1>3, <2>4 DEF Reqs, Makes
  <2>5. QED
    BY <1>1, <2>1, <2>2, <2>3, <2>4
<1>5. QED
  BY <1>1, <1>2, <1>3, <1>4, QuietStep

\* A set-up replaces the secret and switches the factor off.
LEMMA SetupInv ==
  ASSUME Inv, NEW q \in Requests, SetupWrites(q)
  PROVE  Inv'
<1>1. /\ reqs[q].pc = "setup" /\ secret' = reqs[q].n /\ enabled' = FALSE
      /\ codes' = IF enabled THEN Late(codes) ELSE codes
      /\ devices' = IF enabled THEN Late(devices) ELSE devices
      /\ Go(q, Idle)
      /\ UNCHANGED <<status, enforced, grace, count, recovery, held, history>>
  BY DEF SetupWrites
<1>2. Idle \in Reqs /\ ~Makes(Idle)
  BY DEF Reqs, Makes, Idle
<1>3. reqs[q] \in Reqs /\ reqs \in [Requests -> Reqs]
  BY DEF Inv, TypeOK
<1>4. secret' \in Number
  BY <1>1, <1>3 DEF Reqs, Idle
<1>5. /\ codes \in SUBSET [id : Number, late : BOOLEAN]
      /\ devices \in SUBSET [secret : Number, late : BOOLEAN]
  BY DEF Inv, TypeOK
<1>6. /\ codes' \in SUBSET [id : Number, late : BOOLEAN]
      /\ \A c \in codes' : \E d \in codes : d.id = c.id
      /\ \A c \in codes' : c.late
  <2>1. CASE enabled
    BY <1>1, <1>5, <2>1 DEF Late
  <2>2. CASE ~enabled
    BY <1>1, <1>5, <2>2 DEF Inv, LeftoversAccountedFor
  <2>3. QED
    BY <2>1, <2>2
<1>7. /\ devices' \in SUBSET [secret : Number, late : BOOLEAN]
      /\ \A d \in devices' : d.late
  <2>1. CASE enabled
    BY <1>1, <1>5, <2>1 DEF Late
  <2>2. CASE ~enabled
    BY <1>1, <1>5, <2>2 DEF Inv, LeftoversAccountedFor
  <2>3. QED
    BY <2>1, <2>2
<1>8. /\ reqs' = [reqs EXCEPT ![q] = Idle] /\ begun' = begun /\ begun' \in Number
      /\ UNCHANGED <<attempts, lockout, unset, proved, raced, taken>>
  BY <1>1 DEF Go, count, history, Inv, TypeOK
<1>9. reqs' \in [Requests -> Reqs] /\ CodesFresh'
  BY <1>2, <1>6, <1>8, RequestStep
<1>10. enabled' \in BOOLEAN
  BY <1>1
<1>11. TypeOK'
  BY <1>1, <1>4, <1>6, <1>7, <1>8, <1>9, <1>10 DEF Inv, TypeOK
<1>12. FactorProved' /\ LeftoversAccountedFor'
  BY <1>1, <1>6, <1>7 DEF FactorProved, LeftoversAccountedFor
<1>13. LockoutFollows'
  BY <1>1, <1>3, <1>8, StillDue
<1>14. QED
  BY <1>9, <1>11, <1>12, <1>13 DEF Inv

\* New codes take the place of the old ones: their number is their request's own.
LEMMA NewCodes ==
  ASSUME Inv, NEW q \in Requests, Makes(reqs[q]), reqs' = [reqs EXCEPT ![q] = Idle],
         begun' = begun, taken' = taken, \A c \in codes' : c.id = reqs[q].n
  PROVE  reqs' \in [Requests -> Reqs] /\ CodesFresh'
<1>1. Idle \in Reqs /\ ~Makes(Idle) /\ reqs \in [Requests -> Reqs]
  BY DEF Inv, TypeOK, Reqs, Idle, Makes
<1>2. reqs' \in [Requests -> Reqs]
  BY <1>1
<1>3. \A p \in Requests : Makes(reqs'[p]) => p # q /\ reqs'[p] = reqs[p]
  BY <1>1
<1>4. CodesFresh'
  <2>1. /\ reqs[q].n <= begun /\ taken[reqs[q].n] = 0
        /\ \A p \in Requests : Makes(reqs[p]) => reqs[p].n <= begun /\ taken[reqs[p].n] = 0
        /\ \A p, r \in Requests : Makes(reqs[p]) /\ Makes(reqs[r]) /\ p # r => reqs[p].n # reqs[r].n
        /\ \A n \in Number : n > begun => taken[n] = 0
    BY DEF Inv, CodesFresh
  <2>2. \A c \in codes' : c.id <= begun' /\ taken'[c.id] = 0
    BY <2>1
  <2>3. \A p \in Requests : Makes(reqs'[p]) =>
           reqs'[p].n <= begun' /\ taken'[reqs'[p].n] = 0 /\ \A c \in codes' : c.id # reqs'[p].n
    BY <1>3, <2>1
  <2>4. \A p, r \in Requests : Makes(reqs'[p]) /\ Makes(reqs'[r]) /\ p # r => reqs'[p].n # reqs'[r].n
    BY <1>3, <2>1
  <2>5. QED
    BY <2>1, <2>2, <2>3, <2>4 DEF CodesFresh
<1>5. QED
  BY <1>2, <1>4

LEMMA ConfirmInv ==
  ASSUME Inv, NEW q \in Requests, ConfirmCommits(q)
  PROVE  Inv'
<1>1. /\ reqs[q].pc = "confirm" /\ enabled' = TRUE /\ grace' = "none" /\ ForgetAttempts
      /\ codes' = {[id |-> reqs[q].n, late |-> FALSE]}
      /\ proved' = reqs[q].secret /\ raced' = (secret # reqs[q].secret)
      /\ reqs' = [reqs EXCEPT ![q] = Idle] /\ begun' = begun
      /\ UNCHANGED <<status, enforced, secret, devices, recovery, held, taken>>
  BY DEF ConfirmCommits, Go
<1>2. reqs[q] \in Reqs
  BY DEF Inv, TypeOK
<1>3. reqs[q].n \in Number /\ reqs[q].secret \in Number /\ reqs[q].secret # 0
  BY <1>1, <1>2 DEF Reqs, Idle, Number
<1>4. Makes(reqs[q]) /\ \A c \in codes' : c.id = reqs[q].n /\ c.late = FALSE
  BY <1>1 DEF Makes
<1>5. reqs' \in [Requests -> Reqs] /\ CodesFresh'
  BY <1>1, <1>4, NewCodes
<1>6. attempts' \in Nat /\ lockout' = "none" /\ unset' \in BOOLEAN /\ LockoutFollows'
  BY <1>1, Forgotten
<1>7. TypeOK'
  <2>1. codes' \in SUBSET [id : Number, late : BOOLEAN]
    BY <1>1, <1>3
  <2>2. raced' \in BOOLEAN /\ enabled' \in BOOLEAN
    BY <1>1
  <2>3. lockout' \in {"none", "active", "past"} /\ grace' \in {"none", "running", "over"}
    BY <1>1, <1>6
  <2>4. /\ status' \in {"ACTIVE", "SUSPENDED"} /\ enforced' \in BOOLEAN /\ secret' \in Number
        /\ devices' \in SUBSET [secret : Number, late : BOOLEAN]
        /\ recovery' \in {"none", "recent", "valid", "expired"} /\ held' \in Requests \cup {None}
        /\ begun' \in Number /\ taken' \in [Number -> 0..2] /\ proved' \in Number
    BY <1>1, <1>3 DEF Inv, TypeOK
  <2>5. QED
    BY <1>5, <1>6, <2>1, <2>2, <2>3, <2>4 DEF TypeOK
<1>8. FactorProved'
  BY <1>1, <1>3 DEF FactorProved
<1>9. LeftoversAccountedFor'
  BY <1>1 DEF Inv, LeftoversAccountedFor
<1>10. QED
  BY <1>5, <1>6, <1>7, <1>8, <1>9 DEF Inv

LEMMA RegenerateInv ==
  ASSUME Inv, NEW q \in Requests, RegenerateCommits(q)
  PROVE  Inv'
<1>1. /\ reqs[q].pc = "regenerate"
      /\ codes' = {[id |-> reqs[q].n, late |-> ~enabled]}
      /\ reqs' = [reqs EXCEPT ![q] = Idle] /\ begun' = begun
      /\ UNCHANGED <<row, count, devices, recovery, held, history>>
  BY DEF RegenerateCommits, Go
<1>2. UNCHANGED <<status, enabled, enforced, grace, secret, attempts, lockout, unset,
                  devices, recovery, held, proved, raced, taken>>
  BY <1>1 DEF row, factor, count, history
<1>3. reqs[q] \in Reqs /\ reqs \in [Requests -> Reqs]
  BY DEF Inv, TypeOK
<1>4. reqs[q].n \in Number
  BY <1>1, <1>3 DEF Reqs, Idle
<1>5. Makes(reqs[q]) /\ \A c \in codes' : c.id = reqs[q].n
  BY <1>1 DEF Makes
<1>6. reqs' \in [Requests -> Reqs] /\ CodesFresh'
  BY <1>1, <1>2, <1>5, NewCodes
<1>7. codes' \in SUBSET [id : Number, late : BOOLEAN] /\ \A c \in codes' : c.late \/ enabled
  <2>1. (~enabled) \in BOOLEAN
    OBVIOUS
  <2>2. [id |-> reqs[q].n, late |-> ~enabled] \in [id : Number, late : BOOLEAN]
    BY <1>4, <2>1
  <2>3. [id |-> reqs[q].n, late |-> ~enabled].late \/ enabled
    OBVIOUS
  <2>4. QED
    BY <1>1, <2>2, <2>3, Zenon
<1>8. TypeOK'
  BY <1>1, <1>2, <1>6, <1>7 DEF Inv, TypeOK
<1>9. FactorProved' /\ LeftoversAccountedFor'
  BY <1>2, <1>7 DEF Inv, FactorProved, LeftoversAccountedFor
<1>10. LockoutFollows'
  BY <1>1, <1>3, StillDue
<1>11. QED
  BY <1>6, <1>8, <1>9, <1>10 DEF Inv

\* The factor is taken away with all that goes with it.
LEMMA RemoveStep ==
  ASSUME Inv, RemoveFactor, reqs' \in [Requests -> Reqs], CodesFresh',
         begun' \in Number, UNCHANGED <<held, history>>,
         status' \in {"ACTIVE", "SUSPENDED"}, enforced' \in {enforced, FALSE},
         recovery' \in {recovery, "none"}
  PROVE  Inv'
<1>1. /\ enabled' = FALSE /\ secret' = 0 /\ grace' = "none"
      /\ codes' = {} /\ devices' = {} /\ ForgetAttempts
  BY DEF RemoveFactor
<1>2. attempts' \in Nat /\ lockout' = "none" /\ unset' \in BOOLEAN /\ LockoutFollows'
  BY <1>1, Forgotten
<1>3. TypeOK'
  <2>1. enabled' \in BOOLEAN
    BY <1>1
  <2>2. enforced' \in BOOLEAN
    BY Zenon DEF Inv, TypeOK
  <2>3. /\ secret' \in Number /\ grace' \in {"none", "running", "over"}
        /\ lockout' \in {"none", "active", "past"}
        /\ codes' \in SUBSET [id : Number, late : BOOLEAN]
        /\ devices' \in SUBSET [secret : Number, late : BOOLEAN]
        /\ recovery' \in {"none", "recent", "valid", "expired"}
    BY <1>1, <1>2 DEF Inv, TypeOK, Number
  <2>4. /\ held' \in Requests \cup {None} /\ proved' \in Number /\ raced' \in BOOLEAN
        /\ taken' \in [Number -> 0..2]
    BY DEF Inv, TypeOK, history
  <2>5. QED
    BY <1>2, <2>1, <2>2, <2>3, <2>4 DEF TypeOK
<1>4. FactorProved' /\ LeftoversAccountedFor'
  BY <1>1 DEF FactorProved, LeftoversAccountedFor
<1>5. QED
  BY <1>2, <1>3, <1>4 DEF Inv

LEMMA RemoveInv ==
  ASSUME Inv, Disable \/ AdminResets \/ Cleanup \/ \E q \in Requests : RecoveryResets(q)
  PROVE  Inv'
<1>1. /\ RemoveFactor /\ UNCHANGED <<held, history>>
      /\ status' \in {status, "SUSPENDED"} /\ enforced' \in {enforced, FALSE}
      /\ recovery' \in {recovery, "none"}
  BY DEF Disable, AdminResets, Cleanup, RecoveryResets
<1>2. codes' = {} /\ taken' = taken
  BY <1>1 DEF RemoveFactor, history
<1>3. reqs' \in [Requests -> Reqs] /\ CodesFresh' /\ begun' \in Number
  <2>1. CASE Disable \/ AdminResets \/ Cleanup
    <3>1. begun < MaxBegun /\ begun' = begun + 1 /\ reqs' = reqs
      BY <2>1 DEF Disable, AdminResets, Cleanup, Act
    <3>2. begun' \in Number
      BY <3>1 DEF Inv, TypeOK, Number
    <3>3. QED
      BY <1>2, <3>1, <3>2, ActStep
  <2>2. ASSUME NEW q \in Requests, RecoveryResets(q)
        PROVE  reqs' \in [Requests -> Reqs] /\ CodesFresh' /\ begun' \in Number
    <3>1. Idle \in Reqs /\ ~Makes(Idle)
      BY DEF Reqs, Makes, Idle
    <3>2. reqs' = [reqs EXCEPT ![q] = Idle] /\ begun' = begun /\ begun \in Number
      BY <2>2 DEF RecoveryResets, Go, Inv, TypeOK
    <3>3. QED
      BY <1>2, <3>1, <3>2, RequestStep
  <2>3. QED
    BY <2>1, <2>2
<1>4. status' \in {"ACTIVE", "SUSPENDED"}
  BY <1>1 DEF Inv, TypeOK
<1>5. QED
  BY <1>1, <1>3, <1>4, RemoveStep

\* A backup code that is found again is used up.
LEMMA MarkInv ==
  ASSUME Inv, NEW q \in Requests, NEW trusts \in BOOLEAN, BackupMarks(q, trusts)
  PROVE  Inv'
<1> DEFINE n == reqs[q].code
<1>1. /\ reqs[q].pc = "mark" /\ held' = None /\ codes' = codes \ Unused(n)
      /\ begun' = begun /\ UNCHANGED <<row, count, devices, recovery, proved, raced>>
  BY DEF BackupMarks, Go
<1>2. UNCHANGED <<status, enabled, enforced, grace, secret, attempts, lockout, unset>>
  BY <1>1 DEF row, factor, count
<1>3. PICK r : /\ reqs' = [reqs EXCEPT ![q] = r] /\ r \in Reqs /\ ~Makes(r)
  <2>1. CASE Unused(n) # {}
    <3>1. Go(q, Passed(secret, trusts))
      BY <2>1 DEF BackupMarks
    <3>2. (trusts /\ status = "ACTIVE") \in BOOLEAN /\ TRUE \in BOOLEAN
      OBVIOUS
    <3>3. secret \in Number
      BY DEF Inv, TypeOK
    <3>4. /\ Passed(secret, trusts) \in [pc : {"passed"}, secret : Number, clears : BOOLEAN, trusts : BOOLEAN]
          /\ Passed(secret, trusts).pc = "passed"
      BY <3>2, <3>3 DEF Passed
    <3>5. Passed(secret, trusts) \in Reqs /\ ~Makes(Passed(secret, trusts))
      BY <3>4, Zenon DEF Reqs, Makes
    <3>6. QED
      BY <3>1, <3>5 DEF Go
  <2>2. CASE Unused(n) = {}
    <3>1. Go(q, [pc |-> "fail"])
      BY <2>2 DEF BackupMarks
    <3>2. [pc |-> "fail"] \in Reqs /\ ~Makes([pc |-> "fail"])
      BY DEF Reqs, Makes
    <3>3. QED
      BY <3>1, <3>2 DEF Go
  <2>3. QED
    BY <2>1, <2>2
<1>4. reqs \in [Requests -> Reqs] /\ reqs[q] \in Reqs /\ taken \in [Number -> 0..2]
      /\ begun \in Number
  BY DEF Inv, TypeOK
<1>5. n \in Number
  BY <1>1, <1>4 DEF Reqs, Idle
<1>6. reqs' \in [Requests -> Reqs]
  BY <1>3, <1>4
<1>7. \A p \in Requests : Makes(reqs'[p]) => p # q /\ reqs'[p] = reqs[p]
  BY <1>3, <1>4
<1>8. taken' = taken \/ (Unused(n) # {} /\ taken' = [taken EXCEPT ![n] = @ + 1])
  BY DEF BackupMarks
<1>9. Unused(n) # {} => /\ taken[n] = 0 /\ n <= begun
                        /\ \A p \in Requests : Makes(reqs[p]) => reqs[p].n # n
  BY DEF Unused, Inv, CodesFresh
<1>10. /\ taken' \in [Number -> 0..2]
       /\ \A m \in Number : m # n => taken'[m] = taken[m]
       /\ Unused(n) = {} => taken' = taken
  BY <1>4, <1>5, <1>8, <1>9
<1>11. CodesFresh'
  <2>1. \A c \in codes : c.id \in Number
    BY DEF Inv, TypeOK
  <2>2. \A c \in codes' : c \in codes /\ c.id # n
    BY <1>1 DEF Unused
  <2>3. \A c \in codes' : c.id <= begun' /\ taken'[c.id] = 0
    BY <1>1, <1>10, <2>1, <2>2 DEF Inv, CodesFresh
  <2>4. \A p \in Requests : Makes(reqs'[p]) => reqs'[p].n \in Number
    BY <1>6 DEF Makes, Reqs, Idle
  <2>5. \A p \in Requests : Makes(reqs'[p]) =>
           reqs'[p].n <= begun' /\ taken[reqs'[p].n] = 0 /\ \A c \in codes' : c.id # reqs'[p].n
    BY <1>1, <1>7, <2>2 DEF Inv, CodesFresh
  <2>6. \A p \in Requests : Makes(reqs'[p]) => taken'[reqs'[p].n] = 0
    BY <1>7, <1>9, <1>10, <2>4, <2>5
  <2>7. \A p, s \in Requests : Makes(reqs'[p]) /\ Makes(reqs'[s]) /\ p # s => reqs'[p].n # reqs'[s].n
    BY <1>7 DEF Inv, CodesFresh
  <2>8. \A m \in Number : m > begun' => taken'[m] = 0
    BY <1>1, <1>4, <1>5, <1>9, <1>10 DEF Inv, CodesFresh, Number
  <2>9. QED
    BY <2>3, <2>5, <2>6, <2>7, <2>8 DEF CodesFresh
<1>12. TypeOK'
  <2>1. held' \in Requests \cup {None}
    BY <1>1
  <2>2. codes' \in SUBSET [id : Number, late : BOOLEAN]
    BY <1>1 DEF Inv, TypeOK
  <2>3. QED
    BY <1>1, <1>2, <1>6, <1>10, <2>1, <2>2 DEF Inv, TypeOK
<1>13. FactorProved' /\ LeftoversAccountedFor'
  BY <1>1, <1>2 DEF Inv, FactorProved, LeftoversAccountedFor
<1>14. LockoutFollows'
  BY <1>1, <1>3, <1>4, StillDue
<1>15. QED
  BY <1>11, <1>12, <1>13, <1>14 DEF Inv

\* The count and the lockout change, with their own account of it; a request may go on.
LEMMA CountStep ==
  ASSUME Inv, NEW q \in Requests, NEW r \in Reqs, ~Makes(r),
         reqs' = [reqs EXCEPT ![q] = r], begun' = begun,
         attempts' \in Nat, lockout' \in {"none", "active", "past"}, unset' \in BOOLEAN,
         held' \in Requests \cup {None},
         LockoutFollows', UNCHANGED <<row, extras, history>>
  PROVE  Inv'
<1>1. UNCHANGED <<status, enabled, enforced, grace, secret, codes, devices, recovery, proved, raced, taken>>
  BY DEF row, factor, extras, history
<1>2. begun' \in Number
  BY DEF Inv, TypeOK
<1>3. reqs' \in [Requests -> Reqs] /\ CodesFresh'
  BY <1>1, <1>2, RequestStep
<1>4. TypeOK'
  BY <1>1, <1>2, <1>3 DEF Inv, TypeOK
<1>5. FactorProved' /\ LeftoversAccountedFor'
  BY <1>1 DEF Inv, FactorProved, LeftoversAccountedFor
<1>6. QED
  BY <1>3, <1>4, <1>5 DEF Inv

\* Whoever counts the maximum goes on to set the lockout.
LEMMA RecordInv ==
  ASSUME Inv, NEW q \in Requests, RecordCounts(q)
  PROVE  Inv'
<1>1. /\ reqs[q].pc = "record" /\ attempts' = Attempts(q) /\ lockout' = "none"
      /\ unset' = (unset /\ attempts' > 1)
      /\ begun' = begun /\ UNCHANGED <<row, extras, held, history>>
      /\ reqs' = [reqs EXCEPT ![q] = IF attempts' >= MaxAttempts THEN [pc |-> "lock"] ELSE Idle]
  BY DEF RecordCounts, Go
<1>2. reqs \in [Requests -> Reqs] /\ attempts \in Nat
  BY DEF Inv, TypeOK
<1>3. attempts' \in Nat
  BY <1>1, <1>2 DEF Attempts
<1>4. PICK r : /\ reqs' = [reqs EXCEPT ![q] = r] /\ r \in Reqs /\ ~Makes(r)
               /\ attempts' >= MaxAttempts => r.pc = "lock"
  <2> DEFINE r == IF attempts' >= MaxAttempts THEN [pc |-> "lock"] ELSE Idle
  <2>1. r \in Reqs /\ ~Makes(r)
    BY DEF Reqs, Makes, Idle
  <2>2. attempts' >= MaxAttempts => r.pc = "lock"
    OBVIOUS
  <2>3. reqs' = [reqs EXCEPT ![q] = r]
    BY <1>1
  <2> HIDE DEF r
  <2>4. QED
    BY <2>1, <2>2, <2>3
<1>5. unset' \in BOOLEAN
  BY <1>1
<1>6. LockoutFollows'
  BY <1>2, <1>4 DEF LockoutFollows
<1>7. held' \in Requests \cup {None}
  BY <1>1 DEF Inv, TypeOK
<1>8. lockout' \in {"none", "active", "past"}
  BY <1>1
<1>9. QED
  BY <1>1, <1>3, <1>4, <1>5, <1>6, <1>7, <1>8, CountStep

LEMMA SetLockoutInv ==
  ASSUME Inv, NEW q \in Requests, SetLockout(q)
  PROVE  Inv'
<1>1. /\ lockout' = "active" /\ unset' = FALSE /\ attempts' = attempts
      /\ reqs' = [reqs EXCEPT ![q] = Idle] /\ begun' = begun
      /\ UNCHANGED <<row, extras, held, history>>
  BY DEF SetLockout, Go
<1>2. Idle \in Reqs /\ ~Makes(Idle)
  BY DEF Reqs, Makes, Idle
<1>3. /\ attempts' \in Nat /\ lockout' \in {"none", "active", "past"} /\ unset' \in BOOLEAN
      /\ held' \in Requests \cup {None}
  BY <1>1 DEF Inv, TypeOK
<1>4. LockoutFollows'
  BY <1>1 DEF LockoutFollows
<1>5. QED
  BY <1>1, <1>2, <1>3, <1>4, CountStep

\* A request that dies with the lockout in hand loses it.
LEMMA DiesInv ==
  ASSUME Inv, NEW q \in Requests, RequestDies(q)
  PROVE  Inv'
<1>1. /\ unset' = (unset \/ reqs[q].pc = "lock") /\ attempts' = attempts /\ lockout' = lockout
      /\ held' = IF held = q THEN None ELSE held
      /\ reqs' = [reqs EXCEPT ![q] = Idle] /\ begun' = begun
      /\ UNCHANGED <<row, extras, history>>
  BY DEF RequestDies, Go
<1>2. Idle \in Reqs /\ ~Makes(Idle)
  BY DEF Reqs, Makes, Idle
<1>3. unset' \in BOOLEAN
  BY <1>1, Zenon
<1>4. /\ attempts' \in Nat /\ lockout' \in {"none", "active", "past"}
      /\ held' \in Requests \cup {None}
  BY <1>1 DEF Inv, TypeOK
<1>5. LockoutFollows'
  <2>1. reqs \in [Requests -> Reqs]
    BY DEF Inv, TypeOK
  <2>2. SUFFICES ASSUME attempts >= MaxAttempts, lockout = "none", ~unset, reqs[q].pc # "lock"
                 PROVE  \E p \in Requests : reqs'[p].pc = "lock"
    BY <1>1 DEF LockoutFollows
  <2>3. PICK p \in Requests : reqs[p].pc = "lock"
    BY <2>2 DEF Inv, LockoutFollows
  <2>4. QED
    BY <1>1, <2>1, <2>2, <2>3
<1>6. QED
  BY <1>1, <1>2, <1>3, <1>4, <1>5, CountStep

\* What is left of a login that passed.
LEMMA PassedOn ==
  ASSUME Inv, NEW q \in Requests, reqs[q].pc = "passed", NEW r,
         r \in {[reqs[q] EXCEPT !.clears = FALSE], [reqs[q] EXCEPT !.trusts = FALSE]}
  PROVE  Done(r) \in Reqs /\ ~Makes(Done(r)) /\ reqs[q].secret \in Number
<1>1. reqs[q] \in Reqs
  BY DEF Inv, TypeOK
<1>2. reqs[q] \in [pc : {"passed"}, secret : Number, clears : BOOLEAN, trusts : BOOLEAN]
  BY <1>1 DEF Reqs, Idle
<1>3. r \in [pc : {"passed"}, secret : Number, clears : BOOLEAN, trusts : BOOLEAN] /\ r.pc = "passed"
  BY <1>2, Zenon
<1>4. Done(r) = r \/ Done(r) = Idle
  BY DEF Done
<1>5. r \in Reqs /\ Idle \in Reqs
  BY <1>3, Zenon DEF Reqs
<1>6. ~Makes(r) /\ ~Makes(Idle)
  BY <1>3 DEF Makes, Idle
<1>7. QED
  BY <1>2, <1>4, <1>5, <1>6

LEMMA ClearInv ==
  ASSUME Inv, NEW q \in Requests, Clear(q)
  PROVE  Inv'
<1> DEFINE r == Done([reqs[q] EXCEPT !.clears = FALSE])
<1>1. /\ reqs[q].pc = "passed" /\ ForgetAttempts
      /\ reqs' = [reqs EXCEPT ![q] = r] /\ begun' = begun
      /\ UNCHANGED <<row, extras, held, history>>
  BY DEF Clear, Go
<1>2. r \in Reqs /\ ~Makes(r)
  BY <1>1, PassedOn
<1>3. attempts' \in Nat /\ lockout' = "none" /\ unset' \in BOOLEAN /\ LockoutFollows'
  BY <1>1, Forgotten
<1>4. held' \in Requests \cup {None}
  BY <1>1 DEF Inv, TypeOK
<1> HIDE DEF r
<1>5. QED
  BY <1>1, <1>2, <1>3, <1>4, CountStep

LEMMA TrustInv ==
  ASSUME Inv, NEW q \in Requests, Trust(q)
  PROVE  Inv'
<1> DEFINE r == Done([reqs[q] EXCEPT !.trusts = FALSE])
           late == ~enabled \/ secret # reqs[q].secret
<1>1. /\ reqs[q].pc = "passed"
      /\ devices' = devices \cup {[secret |-> reqs[q].secret, late |-> late]}
      /\ reqs' = [reqs EXCEPT ![q] = r] /\ begun' = begun
      /\ UNCHANGED <<row, count, codes, recovery, held, history>>
  BY DEF Trust, Go
<1>2. r \in Reqs /\ ~Makes(r) /\ reqs[q].secret \in Number
  BY <1>1, PassedOn
<1>3. UNCHANGED <<status, enabled, enforced, grace, secret, attempts, lockout, unset, proved, raced, taken>>
  BY <1>1 DEF row, factor, count, history
<1>4. late \in BOOLEAN /\ (late \/ (enabled /\ reqs[q].secret = secret))
  OBVIOUS
<1> HIDE DEF r, late
<1>5. begun' \in Number
  BY <1>1 DEF Inv, TypeOK
<1>6. reqs' \in [Requests -> Reqs] /\ CodesFresh'
  BY <1>1, <1>2, <1>3, <1>5, RequestStep
<1>7. devices' \in SUBSET [secret : Number, late : BOOLEAN]
  <2>1. [secret |-> reqs[q].secret, late |-> late] \in [secret : Number, late : BOOLEAN]
    BY <1>2, <1>4
  <2>2. QED
    BY <1>1, <2>1, Zenon DEF Inv, TypeOK
<1>8. TypeOK'
  BY <1>1, <1>3, <1>5, <1>6, <1>7 DEF Inv, TypeOK
<1>9. LeftoversAccountedFor'
  <2>1. ASSUME NEW d \in devices' PROVE d.late \/ (enabled /\ d.secret = secret)
    <3>1. CASE d \in devices
      BY <3>1 DEF Inv, LeftoversAccountedFor
    <3>2. CASE d = [secret |-> reqs[q].secret, late |-> late]
      BY <1>4, <3>2, Zenon
    <3>3. QED
      BY <1>1, <3>1, <3>2
  <2>2. \A c \in codes' : c.late \/ enabled'
    BY <1>1, <1>3 DEF Inv, LeftoversAccountedFor
  <2>3. \A d \in devices' : d.late \/ (enabled' /\ d.secret = secret')
    BY <1>3, <2>1
  <2>4. QED
    BY <2>2, <2>3 DEF LeftoversAccountedFor
<1>10. FactorProved'
  BY <1>3 DEF Inv, FactorProved
<1>11. LockoutFollows'
  <2>1. reqs \in [Requests -> Reqs]
    BY DEF Inv, TypeOK
  <2>2. \A p \in Requests : reqs[p].pc = "lock" => reqs'[p] = reqs[p]
    BY <1>1, <2>1
  <2>3. QED
    BY <1>1, <2>2, StillDue
<1>12. QED
  BY <1>6, <1>8, <1>9, <1>10, <1>11 DEF Inv

\* Steps that leave the secret, the codes and the devices alone.
LEMMA SideInv ==
  ASSUME Inv,
         \/ Restore \/ Enforce \/ RemoveEnforcement \/ RecoveryRequested
         \/ LockoutEnds \/ RecoveryAges \/ GraceEnds
  PROVE  Inv'
<1>1. UNCHANGED <<enabled, secret, codes, devices, attempts, unset, held, reqs, proved, raced, taken>>
  BY DEF Restore, Enforce, RemoveEnforcement, RecoveryRequested, LockoutEnds, RecoveryAges, GraceEnds,
         Act, row, factor, count, extras, history
<1>2. begun' \in Number /\ begun' \in {begun, begun + 1}
  BY DEF Restore, Enforce, RemoveEnforcement, RecoveryRequested, LockoutEnds, RecoveryAges, GraceEnds,
         Act, Inv, TypeOK, Number
<1>3. lockout' = lockout \/ lockout' = "past"
  BY DEF Restore, Enforce, RemoveEnforcement, RecoveryRequested, LockoutEnds, RecoveryAges, GraceEnds,
         count
<1>4. /\ status' \in {status, "ACTIVE"} /\ enforced' \in {enforced, TRUE, FALSE}
      /\ grace' \in {grace, "running", "none", "over"}
      /\ recovery' \in {recovery, "recent", "valid", "expired"}
  BY DEF Restore, Enforce, RemoveEnforcement, RecoveryRequested, LockoutEnds, RecoveryAges, GraceEnds,
         row, factor, extras
<1>5. reqs' \in [Requests -> Reqs] /\ CodesFresh'
  BY <1>1, <1>2, ActStep
<1>6. TypeOK'
  <2>1. enforced' \in BOOLEAN
    BY <1>4, Zenon DEF Inv, TypeOK
  <2>2. /\ status' \in {"ACTIVE", "SUSPENDED"} /\ grace' \in {"none", "running", "over"}
        /\ recovery' \in {"none", "recent", "valid", "expired"}
        /\ lockout' \in {"none", "active", "past"}
    BY <1>3, <1>4 DEF Inv, TypeOK
  <2>3. QED
    BY <1>1, <1>2, <1>5, <2>1, <2>2 DEF Inv, TypeOK
<1>7. FactorProved' /\ LeftoversAccountedFor'
  BY <1>1 DEF Inv, FactorProved, LeftoversAccountedFor
<1>8. LockoutFollows'
  BY <1>1, <1>3 DEF Inv, LockoutFollows
<1>9. QED
  BY <1>5, <1>6, <1>7, <1>8 DEF Inv

LEMMA StutterInv ==
  ASSUME Inv, UNCHANGED vars
  PROVE  Inv'
<1>1. UNCHANGED <<status, enabled, enforced, grace, secret, attempts, lockout, unset, codes, devices,
                  recovery, held, reqs, begun, proved, raced, taken>>
  BY DEF vars, row, factor, count, extras, history
<1>2. TypeOK' /\ FactorProved' /\ LeftoversAccountedFor'
  BY <1>1 DEF Inv, TypeOK, FactorProved, LeftoversAccountedFor
<1>3. LockoutFollows' /\ CodesFresh'
  BY <1>1 DEF Inv, LockoutFollows, CodesFresh
<1>4. QED
  BY <1>2, <1>3 DEF Inv

LEMMA StepInv == Inv /\ [Next]_vars => Inv'
<1> SUFFICES ASSUME Inv, [Next]_vars PROVE Inv'
  OBVIOUS
<1>1. ASSUME NEW q \in Requests, EnrolStep(q) PROVE Inv'
  BY <1>1, ReadsInv, SetupInv, ConfirmInv, RegenerateInv DEF EnrolStep
<1>2. ASSUME NEW q \in Requests, LoginStep(q) PROVE Inv'
  <2>1. CASE Login(q)
    BY <2>1, ReadsInv
  <2>2. CASE \/ Verify(q) \/ CodeWrong(q) \/ RecordReads(q)
             \/ \E trusts \in BOOLEAN : CodeRight(q, trusts)
             \/ \E c \in codes : BackupFinds(q, c)
    BY <2>2, CodeInv, Zenon
  <2>3. ASSUME NEW trusts \in BOOLEAN, BackupMarks(q, trusts) PROVE Inv'
    BY <2>3, MarkInv
  <2>4. CASE RecordCounts(q)
    BY <2>4, RecordInv
  <2>5. CASE SetLockout(q)
    BY <2>5, SetLockoutInv
  <2>6. CASE Clear(q)
    BY <2>6, ClearInv
  <2>7. CASE Trust(q)
    BY <2>7, TrustInv
  <2>8. QED
    BY <1>2, <2>1, <2>2, <2>3, <2>4, <2>5, <2>6, <2>7, Zenon DEF LoginStep
<1>3. ASSUME NEW q \in Requests, RequestDies(q) PROVE Inv'
  BY <1>3, DiesInv
<1>4. CASE \E q \in Requests : RecoveryReads(q) \/ RecoveryResets(q)
  BY <1>4, ReadsInv, RemoveInv
<1>5. CASE OnRow
  BY <1>5, RemoveInv, SideInv DEF OnRow
<1>6. CASE LockoutEnds \/ RecoveryAges \/ GraceEnds
  BY <1>6, SideInv
<1>7. CASE UNCHANGED vars
  BY <1>7, StutterInv
<1>8. QED
  BY <1>1, <1>2, <1>3, <1>4, <1>5, <1>6, <1>7, Zenon DEF Next

LEMMA AlwaysInv == Spec => []Inv
  BY InitInv, StepInv, PTL DEF Spec

-----------------------------------------------------------------------------
\* Only a marked backup code is counted as taken.
LEMMA TakenByMarks ==
  ASSUME [Next]_vars, taken' # taken
  PROVE  \E q \in Requests : \E trusts \in BOOLEAN : BackupMarks(q, trusts)
<1>1. ASSUME NEW q \in Requests, EnrolStep(q) PROVE taken' = taken
  BY <1>1 DEF EnrolStep, SetupReads, SetupWrites, ConfirmReads, ConfirmCommits,
              RegenerateReads, RegenerateCommits, history
<1>2. ASSUME NEW q \in Requests,
             \/ Login(q) \/ Verify(q) \/ CodeWrong(q) \/ \E trusts \in BOOLEAN : CodeRight(q, trusts)
             \/ \E c \in codes : BackupFinds(q, c)
             \/ RecordReads(q) \/ RecordCounts(q) \/ SetLockout(q) \/ Clear(q) \/ Trust(q)
             \/ RequestDies(q) \/ RecoveryReads(q) \/ RecoveryResets(q)
      PROVE  taken' = taken
  BY <1>2 DEF Login, Verify, CodeWrong, CodeRight, BackupFinds, RecordReads, RecordCounts, SetLockout,
              Clear, Trust, RequestDies, RecoveryReads, RecoveryResets, history
<1>3. CASE OnRow \/ LockoutEnds \/ RecoveryAges \/ GraceEnds \/ UNCHANGED vars
  BY <1>3 DEF OnRow, Disable, AdminResets, Cleanup, Restore, Enforce, RemoveEnforcement,
              RecoveryRequested, LockoutEnds, RecoveryAges, GraceEnds, vars, history
<1>4. QED
  BY <1>1, <1>2, <1>3, Zenon DEF Next, LoginStep

\* What takes an enforced factor away.
LEMMA TakesAway ==
  ASSUME [Next]_vars, enabled, enforced, ~enabled'
  PROVE  \/ \E q \in Requests : SetupWrites(q) \/ RecoveryResets(q)
         \/ AdminResets \/ Cleanup
<1>1. ASSUME NEW q \in Requests, EnrolStep(q), ~SetupWrites(q) PROVE FALSE
  BY <1>1 DEF EnrolStep, SetupReads, ConfirmReads, ConfirmCommits,
              RegenerateReads, RegenerateCommits, row, factor
<1>2. ASSUME NEW q \in Requests, LoginStep(q) \/ RequestDies(q) \/ RecoveryReads(q) PROVE FALSE
  BY <1>2 DEF LoginStep, Login, Verify, CodeWrong, CodeRight, BackupFinds, BackupMarks, RecordReads,
              RecordCounts, SetLockout, Clear, Trust, RequestDies, RecoveryReads, row, factor
<1>3. CASE OnRow \/ LockoutEnds \/ RecoveryAges \/ GraceEnds \/ UNCHANGED vars
  BY <1>3 DEF OnRow, Disable, Restore, Enforce, RemoveEnforcement,
              RecoveryRequested, LockoutEnds, RecoveryAges, GraceEnds, vars, row, factor
<1>4. QED
  BY <1>1, <1>2, <1>3, Zenon DEF Next

\* Every variable keeps to the values that its comment gives, for any number of
\* requests, of attempts and of codes.
THEOREM TypeCorrect == Spec => []TypeOK
<1>1. Inv => TypeOK
  BY DEF Inv
<1>2. QED
  BY <1>1, AlwaysInv, PTL

\* Whatever set-ups, confirmations and resets overlap, confirmSetup enables no
\* factor without a code of its secret, but for one it was overtaken on.
THEOREM EnabledIsProved == Spec => []FactorProved
<1>1. Inv => FactorProved
  BY DEF Inv
<1>2. QED
  BY <1>1, AlwaysInv, PTL

\* What the factor leaves behind was under way when it was taken away or replaced.
THEOREM LeftoversComeLate == Spec => []LeftoversAccountedFor
<1>1. Inv => LeftoversAccountedFor
  BY DEF Inv
<1>2. QED
  BY <1>1, AlwaysInv, PTL

\* checkAndRecordFailedAttempt counts no maximum that has no lockout, but for one
\* that was lost with its request.
THEOREM MaximumLocksOut == Spec => []LockoutFollows
<1>1. Inv => LockoutFollows
  BY DEF Inv
<1>2. QED
  BY <1>1, AlwaysInv, PTL

\* A backup code opens one login: one that was taken was unused in the row, and no
\* request makes it anew.
THEOREM BackupCodesOpenOnce == Spec => BackupCodesOnce
<1>1. Inv /\ [Next]_vars =>
        [\A n \in Number : taken'[n] > taken[n] => taken[n] = 0 /\ Unused(n) # {}]_vars
  <2> SUFFICES ASSUME Inv, [Next]_vars
               PROVE  \A n \in Number : taken'[n] > taken[n] => taken[n] = 0 /\ Unused(n) # {}
    OBVIOUS
  <2>1. taken \in [Number -> 0..2]
    BY DEF Inv, TypeOK
  <2>2. CASE UNCHANGED taken
    BY <2>1, <2>2
  <2>3. ASSUME NEW q \in Requests, NEW trusts \in BOOLEAN, BackupMarks(q, trusts), taken' # taken
        PROVE  \A n \in Number : taken'[n] > taken[n] => taken[n] = 0 /\ Unused(n) # {}
    <3>1. Unused(reqs[q].code) # {} /\ taken' = [taken EXCEPT ![reqs[q].code] = @ + 1]
      BY <2>3 DEF BackupMarks
    <3>2. \A n \in Number : n # reqs[q].code => taken'[n] = taken[n]
      BY <2>1, <3>1
    <3>3. taken[reqs[q].code] = 0
      BY <3>1 DEF Unused, Inv, CodesFresh
    <3>4. QED
      BY <2>1, <3>1, <3>2, <3>3
  <2>4. QED
    BY <2>2, <2>3, TakenByMarks
<1>2. QED
  BY <1>1, AlwaysInv, PTL DEF Spec, BackupCodesOnce

\* disable never takes an enforced factor away from an active user.
THEOREM EnforcementHolds == Spec => EnforcedFactorStays
<1>1. Inv /\ [Next]_vars =>
        [enabled /\ enforced /\ ~enabled' =>
           \/ ~enforced'
           \/ \E q \in Requests : reqs[q].pc = "setup" /\ SetupWrites(q)
           \/ status' # "ACTIVE"]_vars
  <2> SUFFICES ASSUME Inv, [Next]_vars, enabled, enforced, ~enabled'
               PROVE  \/ ~enforced'
                      \/ \E q \in Requests : reqs[q].pc = "setup" /\ SetupWrites(q)
                      \/ status' # "ACTIVE"
    OBVIOUS
  <2>1. CASE \E q \in Requests : SetupWrites(q)
    BY <2>1 DEF SetupWrites
  <2>2. CASE \E q \in Requests : RecoveryResets(q)
    BY <2>2 DEF RecoveryResets
  <2>3. CASE AdminResets \/ Cleanup
    BY <2>3 DEF AdminResets, Cleanup
  <2>4. QED
    BY <2>1, <2>2, <2>3, TakesAway
<1>2. QED
  BY <1>1, AlwaysInv, PTL DEF Spec, EnforcedFactorStays
=============================================================================
