------------------------------ MODULE CacheProofs ------------------------------
(***************************************************************************)
(* The two caches of the authentication library: how long an outdated       *)
(* session is accepted (SessionCache), and what will take outdated          *)
(* permissions away (RbacCache), for any number of processes.               *)
(***************************************************************************)
EXTENDS SessionCache, RbacCache, FiniteSetTheorems, TLAPS

-----------------------------------------------------------------------------
(***************************************************************************)
(* Sessions: an account of how late each copy can be, NoCopyOutlives.       *)
(***************************************************************************)

\* The row has changed when its age counts, and when it is being invalidated.
ChangeFirst ==
  /\ truth = "old" => age = 0
  /\ inval # Absent => truth # "old"

\* No copy outlives what it was copied from by more than a delay.
ReadsExpire ==
  \A r \in reads : r.val = "old" =>
    IF r.from = "db" THEN age + r.left <= Delay ELSE age + r.left + r.ttl <= Bound
SetsExpire == \A s \in sets : s.val = "old" => age + s.left <= 2 * Delay
RedisExpires == Old(l2) => age + l2.ttl <= TTL + 2 * Delay
EntriesExpire == \A p \in Processes : Old(l1[p]) => age + l1[p].ttl <= Bound

NoCopyOutlives == ReadsExpire /\ SetsExpire /\ RedisExpires /\ EntriesExpire

\* Outdated values in Redis come from the database only, which has none left.
CleanStays == clean => truth # "old" /\ ~Old(l2) /\ ~OldUnderWay

KeyInv == KeyTypeOK /\ ChangeFirst /\ NoCopyOutlives /\ CleanStays

USE TTLPositive, DelayNat, HorizonNat

-----------------------------------------------------------------------------
\* An entry that is a tick older is an entry, or gone.
LEMMA OlderEntry ==
  ASSUME NEW e \in Entry \cup {Absent}
  PROVE  /\ Older(e) \in Entry \cup {Absent}
         /\ Older(e) # Absent => /\ e # Absent /\ Older(e).val = e.val
                               /\ Older(e).ttl = e.ttl - 1
<1>1. CASE e = Absent \/ e.ttl = 1
  BY <1>1 DEF Older
<1>2. CASE ~(e = Absent \/ e.ttl = 1)
  <2>1. e \in Entry /\ e.ttl - 1 \in 1..TTL
    BY <1>2 DEF Entry
  <2>2. Older(e) = [e EXCEPT !.ttl = e.ttl - 1]
    BY <1>2 DEF Older
  <2>3. QED
    BY <1>2, <2>1, <2>2 DEF Entry
<1>3. QED
  BY <1>1, <1>2

\* A reply that is a tick nearer keeps what it carries.
LEMMA NearerRead ==
  ASSUME NEW r \in Read, r.left > 0
  PROVE  /\ Nearer(r) \in Read
         /\ Nearer(r).left = r.left - 1
         /\ Nearer(r).val = r.val /\ Nearer(r).ttl = r.ttl /\ Nearer(r).from = r.from
  BY DEF Read, Nearer, Values

\* So does a command.
LEMMA NearerWrite ==
  ASSUME NEW s \in Write, s.left > 0
  PROVE  Nearer(s) \in Write /\ Nearer(s).left = s.left - 1 /\ Nearer(s).val = s.val
  BY DEF Write, Nearer, Values

\* At first nothing is cached.
LEMMA KeyInitInv == KeyInit => KeyInv
<1> SUFFICES ASSUME KeyInit PROVE KeyInv
  OBVIOUS
<1>1. KeyTypeOK
  <2>1. l1 \in [Processes -> Entry \cup {Absent}]
    BY DEF KeyInit
  <2>2. truth \in Values /\ age \in 0..Horizon
    BY DEF KeyInit, Values
  <2>3. reads \subseteq Read /\ sets \subseteq Write /\ clean \in BOOLEAN
    BY Zenon DEF KeyInit
  <2>4. QED
    BY <2>1, <2>2, <2>3, Zenon DEF KeyInit, KeyTypeOK
<1>2. ChangeFirst /\ CleanStays
  BY DEF KeyInit, ChangeFirst, CleanStays
<1>3. NoCopyOutlives
  BY DEF KeyInit, NoCopyOutlives, ReadsExpire, SetsExpire, RedisExpires, EntriesExpire, Old
<1>4. QED
  BY <1>1, <1>2, <1>3 DEF KeyInv

-----------------------------------------------------------------------------
\* The row changes.
LEMMA ChangeInv ==
  ASSUME KeyInv, NEW p \in Processes, Change(p)
  PROVE  KeyInv'
<1>1. KeyTypeOK'
  BY DEF KeyInv, KeyTypeOK, Change, Values
<1>2. ChangeFirst'
  BY DEF KeyInv, ChangeFirst, Change
<1>3. NoCopyOutlives'
  BY DEF KeyInv, NoCopyOutlives, ReadsExpire, SetsExpire, RedisExpires, EntriesExpire, Old, Change
<1>4. CleanStays'
  BY DEF KeyInv, CleanStays, Change, Old, OldUnderWay
<1>5. QED
  BY <1>1, <1>2, <1>3, <1>4 DEF KeyInv

\* A reply sets out: from Redis no later than its entry, from the database not
\* outdated any more once the row has changed.
LEMMA ReadInv ==
  ASSUME KeyInv, NEW p \in Processes, ReadRedis(p) \/ ReadDb(p)
  PROVE  KeyInv'
<1>1. PICK r : /\ reads' = reads \cup {r}
               /\ r \in Read /\ r.left = Delay
               /\ \/ r.from = "db" /\ r.val = truth
                  \/ r.from = "redis" /\ l2 # Absent /\ r.val = l2.val /\ r.ttl = l2.ttl
  <2>1. CASE ReadRedis(p)
    <3> DEFINE r == [proc |-> p, from |-> "redis", val |-> l2.val, ttl |-> l2.ttl, left |-> Delay]
    <3>1. l2 \in Entry /\ reads' = reads \cup {r}
      BY <2>1 DEF ReadRedis, Answer, KeyInv, KeyTypeOK
    <3>2. r \in Read
      BY <3>1 DEF Read, Entry
    <3>3. QED
      BY <2>1, <3>1, <3>2 DEF ReadRedis
  <2>2. CASE ReadDb(p)
    <3> DEFINE r == [proc |-> p, from |-> "db", val |-> truth, ttl |-> TTL, left |-> Delay]
    <3>1. truth \in Values /\ reads' = reads \cup {r}
      BY <2>2 DEF ReadDb, Answer, KeyInv, KeyTypeOK
    <3>2. r \in Read
      BY <3>1 DEF Read, Values
    <3>3. QED
      BY <3>1, <3>2
  <2>3. QED
    BY <2>1, <2>2
<1>2. UNCHANGED <<truth, age, l1, l2, sets, inval, clean>>
  BY DEF ReadRedis, ReadDb
<1>3. KeyTypeOK'
  BY <1>1, <1>2 DEF KeyInv, KeyTypeOK
<1>4. ReadsExpire'
  <2>1. r.val = "old" => IF r.from = "db" THEN age + r.left <= Delay
                                          ELSE age + r.left + r.ttl <= Bound
    BY <1>1 DEF KeyInv, KeyTypeOK, ChangeFirst, NoCopyOutlives, RedisExpires, Old, Bound, Entry, Read
  <2>2. QED
    BY <1>1, <1>2, <2>1 DEF KeyInv, NoCopyOutlives, ReadsExpire, Bound
<1>5. SetsExpire' /\ RedisExpires' /\ EntriesExpire' /\ ChangeFirst'
  BY <1>2 DEF KeyInv, NoCopyOutlives, SetsExpire, RedisExpires, EntriesExpire, ChangeFirst, Old
<1>6. CleanStays'
  BY <1>1, <1>2 DEF KeyInv, CleanStays, OldUnderWay, Old
<1>7. QED
  BY <1>3, <1>4, <1>5, <1>6 DEF KeyInv, NoCopyOutlives

\* A reply is stored, and what came from the database is sent to Redis.
LEMMA HandleReadInv ==
  ASSUME KeyInv, NEW r \in reads, HandleRead(r)
  PROVE  KeyInv'
<1> DEFINE e == [val |-> r.val, ttl |-> r.ttl]
           s == [val |-> r.val, left |-> Delay]
<1>1. r \in Read /\ e \in Entry /\ s \in Write
  BY DEF KeyInv, KeyTypeOK, Read, Entry, Write
<1>2. /\ l1' = [l1 EXCEPT ![r.proc] = e]
      /\ reads' \subseteq reads
      /\ sets' \subseteq sets \cup {s}
      /\ r.from # "db" => sets' = sets
      /\ UNCHANGED <<truth, age, l2, inval, clean>>
  BY DEF HandleRead
<1>3. KeyTypeOK'
  <2>1. l1' \in [Processes -> Entry \cup {Absent}]
    BY <1>1, <1>2 DEF KeyInv, KeyTypeOK
  <2>2. QED
    BY <1>1, <1>2, <2>1 DEF KeyInv, KeyTypeOK
<1>4. ReadsExpire' /\ RedisExpires' /\ ChangeFirst'
  BY <1>2 DEF KeyInv, NoCopyOutlives, ReadsExpire, RedisExpires, ChangeFirst, Old, Bound
<1>5. r.val = "old" => IF r.from = "db" THEN age + r.left <= Delay
                                        ELSE age + r.left + r.ttl <= Bound
  BY DEF KeyInv, NoCopyOutlives, ReadsExpire
<1>6. SetsExpire'
  <2>1. r.from = "db" /\ s.val = "old" => age + s.left <= 2 * Delay
    BY <1>1, <1>5 DEF KeyInv, KeyTypeOK, Read
  <2>2. QED
    BY <1>2, <2>1 DEF KeyInv, NoCopyOutlives, SetsExpire
<1>7. EntriesExpire'
  <2>1. r.val = "old" => age + r.ttl <= Bound
    BY <1>1, <1>5 DEF KeyInv, KeyTypeOK, Read, Bound
  <2>2. QED
    BY <1>1, <1>2, <2>1 DEF KeyInv, KeyTypeOK, NoCopyOutlives, EntriesExpire, Old, Bound
<1>8. CleanStays'
  BY <1>2 DEF KeyInv, CleanStays, OldUnderWay, Old
<1>9. QED
  BY <1>3, <1>4, <1>6, <1>7, <1>8 DEF KeyInv, NoCopyOutlives

\* A SET arrives, or fails.
LEMMA RedisSetInv ==
  ASSUME KeyInv, NEW s \in sets, RedisSet(s)
  PROVE  KeyInv'
<1> DEFINE e == [val |-> s.val, ttl |-> TTL]
<1>1. s \in Write /\ e \in Entry
  BY DEF KeyInv, KeyTypeOK, Write, Entry
<1>2. /\ l2' \in {e, l2}
      /\ sets' = sets \ {s}
      /\ UNCHANGED <<truth, age, l1, reads, inval, clean>>
  BY DEF RedisSet
<1>3. KeyTypeOK'
  BY <1>1, <1>2 DEF KeyInv, KeyTypeOK
<1>4. ReadsExpire' /\ SetsExpire' /\ EntriesExpire' /\ ChangeFirst'
  BY <1>2 DEF KeyInv, NoCopyOutlives, ReadsExpire, SetsExpire, EntriesExpire, ChangeFirst, Old, Bound
<1>5. RedisExpires'
  BY <1>1, <1>2 DEF KeyInv, KeyTypeOK, NoCopyOutlives, SetsExpire, RedisExpires, Old, Write
<1>6. CleanStays'
  BY <1>1, <1>2 DEF KeyInv, CleanStays, OldUnderWay, Old
<1>7. QED
  BY <1>3, <1>4, <1>5, <1>6 DEF KeyInv, NoCopyOutlives

\* The invalidation, and what forgets an entry of a process.
LEMMA InvalidationInv ==
  ASSUME KeyInv, DeleteL1 \/ RedisDel \/ InvalidationLost
  PROVE  KeyInv'
<1>1. CASE DeleteL1
  <2>1. KeyTypeOK'
    <3>1. l1' \in [Processes -> Entry \cup {Absent}]
      BY <1>1 DEF DeleteL1, KeyInv, KeyTypeOK
    <3>2. inval' \in [proc : Processes, pc : {"delete", "redisDel"}]
      BY <1>1 DEF DeleteL1, KeyInv, KeyTypeOK
    <3>3. QED
      BY <1>1, <3>1, <3>2 DEF DeleteL1, KeyInv, KeyTypeOK
  <2>2. EntriesExpire'
    BY <1>1 DEF DeleteL1, KeyInv, KeyTypeOK, NoCopyOutlives, EntriesExpire, Old, Bound
  <2>3. ReadsExpire' /\ SetsExpire' /\ RedisExpires' /\ ChangeFirst' /\ CleanStays'
    BY <1>1 DEF DeleteL1, KeyInv, NoCopyOutlives, ReadsExpire, SetsExpire, RedisExpires, ChangeFirst,
                CleanStays, OldUnderWay, Old, Bound
  <2>4. QED
    BY <2>1, <2>2, <2>3 DEF KeyInv, NoCopyOutlives
<1>2. CASE RedisDel
  <2>1. KeyTypeOK'
    BY <1>2 DEF RedisDel, KeyInv, KeyTypeOK
  <2>2. NoCopyOutlives' /\ ChangeFirst'
    BY <1>2 DEF RedisDel, KeyInv, NoCopyOutlives, ReadsExpire, SetsExpire, RedisExpires, EntriesExpire,
                ChangeFirst, Old, Bound
  <2>3. CleanStays'
    BY <1>2 DEF RedisDel, KeyInv, CleanStays, ChangeFirst, OldUnderWay, Old
  <2>4. QED
    BY <2>1, <2>2, <2>3 DEF KeyInv
<1>3. CASE InvalidationLost
  BY <1>3 DEF InvalidationLost, KeyInv, KeyTypeOK, NoCopyOutlives, ReadsExpire, SetsExpire, RedisExpires,
              EntriesExpire, ChangeFirst, CleanStays, OldUnderWay, Old, Bound
<1>4. QED
  BY <1>1, <1>2, <1>3

LEMMA EvictInv ==
  ASSUME KeyInv, NEW p \in Processes, Evict(p)
  PROVE  KeyInv'
<1>1. KeyTypeOK'
  BY DEF Evict, KeyInv, KeyTypeOK
<1>2. EntriesExpire'
  BY DEF Evict, KeyInv, KeyTypeOK, NoCopyOutlives, EntriesExpire, Old, Bound
<1>3. ReadsExpire' /\ SetsExpire' /\ RedisExpires' /\ ChangeFirst' /\ CleanStays'
  BY DEF Evict, KeyInv, NoCopyOutlives, ReadsExpire, SetsExpire, RedisExpires, ChangeFirst,
         CleanStays, OldUnderWay, Old, Bound
<1>4. QED
  BY <1>1, <1>2, <1>3 DEF KeyInv, NoCopyOutlives

\* A tick takes from every copy what it adds to the age.
LEMMA TickInv ==
  ASSUME KeyInv, Tick
  PROVE  KeyInv'
<1>1. /\ age' \in {0, age + 1} /\ age' \in 0..Horizon
      /\ truth = "old" => age' = 0
      /\ UNCHANGED <<truth, inval, clean>>
  BY DEF Tick, KeyInv, KeyTypeOK
<1>2. \A r \in reads' : \E o \in reads : o \in Read /\ o.left > 0 /\ r = Nearer(o)
  BY DEF Tick, KeyInv, KeyTypeOK
<1>3. \A s \in sets' : \E o \in sets : o \in Write /\ o.left > 0 /\ s = Nearer(o)
  BY DEF Tick, KeyInv, KeyTypeOK
<1>4. l2' = Older(l2) /\ l2 \in Entry \cup {Absent}
  BY DEF Tick, KeyInv, KeyTypeOK
<1>5. /\ l1' = [p \in Processes |-> Older(l1[p])]
      /\ \A p \in Processes : l1[p] \in Entry \cup {Absent}
  BY DEF Tick, KeyInv, KeyTypeOK
<1>6. KeyTypeOK'
  <2>1. reads' \subseteq Read
    BY <1>2, NearerRead
  <2>2. sets' \subseteq Write
    BY <1>3, NearerWrite
  <2>3. l2' \in Entry \cup {Absent} /\ l1' \in [Processes -> Entry \cup {Absent}]
    BY <1>4, <1>5, OlderEntry
  <2>4. QED
    BY <1>1, <2>1, <2>2, <2>3 DEF KeyInv, KeyTypeOK
<1>7. age \in Nat /\ age' \in Nat /\ age' <= age + 1
  BY <1>1 DEF KeyInv, KeyTypeOK
<1>8. ReadsExpire'
  <2> SUFFICES ASSUME NEW r \in reads', r.val = "old"
               PROVE  IF r.from = "db" THEN age' + r.left <= Delay
                                       ELSE age' + r.left + r.ttl <= Bound
    BY DEF ReadsExpire, Bound
  <2>1. PICK o \in reads : o \in Read /\ o.left > 0 /\ r = Nearer(o)
    BY <1>2
  <2>2. /\ r.left = o.left - 1 /\ r.val = o.val /\ r.ttl = o.ttl /\ r.from = o.from
        /\ o.left \in Nat /\ o.ttl \in Nat
    BY <2>1, NearerRead DEF Read
  <2>3. IF o.from = "db" THEN age + o.left <= Delay ELSE age + o.left + o.ttl <= Bound
    BY <2>2 DEF KeyInv, NoCopyOutlives, ReadsExpire
  <2>4. QED
    BY <1>7, <2>2, <2>3 DEF Bound
<1>9. SetsExpire'
  <2> SUFFICES ASSUME NEW s \in sets', s.val = "old"
               PROVE  age' + s.left <= 2 * Delay
    BY DEF SetsExpire
  <2>1. PICK o \in sets : o \in Write /\ o.left > 0 /\ s = Nearer(o)
    BY <1>3
  <2>2. s.left = o.left - 1 /\ s.val = o.val /\ o.left \in Nat
    BY <2>1, NearerWrite DEF Write
  <2>3. age + o.left <= 2 * Delay
    BY <2>2 DEF KeyInv, NoCopyOutlives, SetsExpire
  <2>4. QED
    BY <1>7, <2>2, <2>3
<1>10. RedisExpires'
  <2> SUFFICES ASSUME Old(l2)'
               PROVE  age' + l2'.ttl <= TTL + 2 * Delay
    BY DEF RedisExpires
  <2>1. l2 # Absent /\ l2.val = "old" /\ l2'.ttl = l2.ttl - 1 /\ l2.ttl \in Nat
    BY <1>4, OlderEntry DEF Old, Entry
  <2>2. age + l2.ttl <= TTL + 2 * Delay
    BY <2>1 DEF KeyInv, NoCopyOutlives, RedisExpires, Old
  <2>3. QED
    BY <1>7, <2>1, <2>2
<1>11. EntriesExpire'
  <2> SUFFICES ASSUME NEW p \in Processes, Old(l1[p])'
               PROVE  age' + l1'[p].ttl <= Bound
    BY DEF EntriesExpire, Bound
  <2>0. l1'[p] = Older(l1[p])
    BY <1>5
  <2>1. l1[p] # Absent /\ l1[p].val = "old" /\ l1'[p].ttl = l1[p].ttl - 1 /\ l1[p].ttl \in Nat
    BY <2>0, <1>5, OlderEntry DEF Old, Entry
  <2>2. age + l1[p].ttl <= Bound
    BY <2>1 DEF KeyInv, NoCopyOutlives, EntriesExpire, Old
  <2>3. QED
    BY <1>7, <2>1, <2>2 DEF Bound
<1>12. CleanStays'
  <2>1. Old(l2)' => Old(l2)
    BY <1>4, OlderEntry DEF Old
  <2>2. OldUnderWay' => OldUnderWay
    BY <1>2, <1>3, NearerRead, NearerWrite DEF OldUnderWay
  <2>3. QED
    BY <1>1, <2>1, <2>2 DEF KeyInv, CleanStays
<1>13. ChangeFirst'
  BY <1>1 DEF KeyInv, ChangeFirst
<1>14. QED
  BY <1>6, <1>8, <1>9, <1>10, <1>11, <1>12, <1>13 DEF KeyInv, NoCopyOutlives

-----------------------------------------------------------------------------
\* KeyInv is inductive.
LEMMA KeyStepInv == KeyInv /\ [KeyNext]_keyVars => KeyInv'
<1> SUFFICES ASSUME KeyInv, [KeyNext]_keyVars PROVE KeyInv'
  OBVIOUS
<1>1. ASSUME NEW p \in Processes, Change(p) \/ ReadRedis(p) \/ ReadDb(p) \/ Evict(p) PROVE KeyInv'
  BY <1>1, ChangeInv, ReadInv, EvictInv
<1>2. ASSUME NEW r \in reads, HandleRead(r) PROVE KeyInv'
  BY <1>2, HandleReadInv
<1>3. ASSUME NEW s \in sets, RedisSet(s) PROVE KeyInv'
  BY <1>3, RedisSetInv
<1>4. CASE DeleteL1 \/ RedisDel \/ InvalidationLost
  BY <1>4, InvalidationInv
<1>5. CASE Tick
  BY <1>5, TickInv
<1>6. CASE UNCHANGED keyVars
  BY <1>6 DEF keyVars, KeyInv, KeyTypeOK, NoCopyOutlives, ReadsExpire, SetsExpire, RedisExpires,
              EntriesExpire, ChangeFirst, CleanStays, OldUnderWay, Old, Bound
<1>7. QED
  BY <1>1, <1>2, <1>3, <1>4, <1>5, <1>6 DEF KeyNext

LEMMA AlwaysKeyInv == KeySpec => []KeyInv
<1>1. QED
  BY KeyInitInv, KeyStepInv, PTL DEF KeySpec

\* The cache's state is well typed: an entry has at least one tick left, and a reply
\* is never late.
THEOREM KeyTypeCorrect == KeySpec => []KeyTypeOK
<1>1. KeyInv => KeyTypeOK
  BY DEF KeyInv
<1>2. QED
  BY <1>1, AlwaysKeyInv, PTL

\* Whatever overlaps with it, a revoked session is accepted by no process from TTL
\* and three delays on.
THEOREM RevocationTakesEffect == KeySpec => []StalenessBounded
<1>1. KeyInv => StalenessBounded
  <2> SUFFICES ASSUME KeyInv, age >= Bound
               PROVE  /\ \A p \in Processes : ~Old(l1[p])
                      /\ \A r \in reads : r.val # "old"
    BY DEF StalenessBounded
  <2>1. ASSUME NEW p \in Processes PROVE ~Old(l1[p])
    <3>1. l1[p] # Absent => l1[p].ttl \in 1..TTL
      BY DEF KeyInv, KeyTypeOK, Entry
    <3>2. QED
      BY <3>1 DEF KeyInv, KeyTypeOK, NoCopyOutlives, EntriesExpire, Old, Bound
  <2>2. ASSUME NEW r \in reads PROVE r.val # "old"
    <3>1. r.ttl \in 1..TTL /\ r.left \in 0..Delay
      BY DEF KeyInv, KeyTypeOK, Read
    <3>2. QED
      BY <3>1 DEF KeyInv, KeyTypeOK, NoCopyOutlives, ReadsExpire, Bound
  <2>3. QED
    BY <2>1, <2>2
<1>2. QED
  BY <1>1, AlwaysKeyInv, PTL

\* A DEL that met no outdated value under way keeps Redis clean for good.
THEOREM CleanDelStays == KeySpec => []CleanDelIsFinal
<1>1. KeyInv => CleanDelIsFinal
  BY DEF KeyInv, CleanStays, CleanDelIsFinal
<1>2. QED
  BY <1>1, AlwaysKeyInv, PTL

-----------------------------------------------------------------------------
(***************************************************************************)
(* A process that serves outdated permissions always has something that    *)
(* will take them away, or one of the excuses: for any number of           *)
(* processes, roles, changes and fills in flight.                          *)
(*                                                                         *)
(* That is not inductive.  A version difference that awaits the sweep says *)
(* nothing of the role, and another change that the process makes itself   *)
(* may adopt the difference away.  What is inductive says which number     *)
(* accounts for the entry: one above the version the process knows that no *)
(* request is about to adopt.                                              *)
(***************************************************************************)

\* Change a has yet to reach process i, or to leave it a version to find.
Serves(a, i, r) ==
  /\ op[a].pc \in {"invalidate", "incr", "adopt"}
  /\ op[a].role = r
  /\ op[a].pc # "invalidate" => i # op[a].at
  /\ op[a].pc = "adopt" => op[a].ver > lastKnown[i]

\* No request is about to adopt version v.
Settled(v) == \A a \in Changes : op[a].pc = "adopt" => op[a].ver # v

Reached(i, r) ==
  \/ \E a \in Changes : Serves(a, i, r)
  \/ r \in inbox[i]
  \/ \E v \in lastKnown[i] + 1..version : Settled(v)
  \/ <<i, r>> \in excused

StaleInv == \A i \in Instances, r \in Roles : Stale(i, r) => Reached(i, r)

\* The changes that are done with the counter.
Counted == {a \in 1..begun : op[a].pc \notin {"invalidate", "incr"}}

\* Each change is counted once at most, each number is adopted once at most, and
\* no process knows a version that has not been reached.
OrderInv ==
  /\ \A a \in Changes : a > begun => op[a] = Idle
  /\ \A r \in Roles : perms[r] <= begun
  /\ version <= Cardinality(Counted)
  /\ \A i \in Instances : lastKnown[i] <= version
  /\ \A i \in Instances : swept[i] # None => swept[i] <= version
  /\ \A a \in Changes : op[a].pc = "adopt" => op[a].ver <= version
  /\ \A a, b \in Changes :
       op[a].pc = "adopt" /\ op[b].pc = "adopt" /\ op[a].ver = op[b].ver => a = b

Inv == TypeOK /\ OrderInv

-----------------------------------------------------------------------------
(* The change in progress *)

LEMMA OpShape ==
  ASSUME TypeOK, NEW a \in Changes
  PROVE  /\ op[a].pc \in {"idle", "invalidate", "incr", "adopt", "publish"}
         /\ op[a] = Idle <=> op[a].pc = "idle"
         /\ op[a].pc # "idle" => op[a].at \in Instances /\ op[a].role \in Roles
         /\ op[a].pc = "adopt" => op[a].ver \in 0..MaxChanges
  <1>1. op[a] \in Ops
    BY DEF TypeOK
  <1> QED
    BY <1>1 DEF Ops, Idle

\* Change a goes on to pc; the others stay where they are.
Moves(a, pc) ==
  /\ op' \in [Changes -> Ops]
  /\ \A b \in Changes \ {a} : op'[b] = op[b]
  /\ op'[a].pc = pc
  /\ pc # "idle" => op'[a].at = op[a].at /\ op'[a].role = op[a].role

LEMMA Begun ==
  ASSUME Inv, NEW a \in Changes, op[a].pc # "idle"
  PROVE  a \in 1..begun
  <1>1. op[a] # Idle
    BY OpShape DEF Inv
  <1> QED
    BY <1>1, ChangesBounded DEF Inv, TypeOK, OrderInv, Changes

\* The counter is never past the changes committed, and a change about to be
\* counted still has a number to come.
LEMMA CounterBounded ==
  ASSUME Inv
  PROVE  /\ IsFiniteSet(1..begun) /\ Cardinality(1..begun) = begun
         /\ Cardinality(Counted) \in 0..begun
         /\ \A a \in Changes : op[a].pc = "incr" =>
              /\ Cardinality(Counted \union {a}) = Cardinality(Counted) + 1
              /\ version + 1 \in 0..begun
  <1>1. begun \in Nat /\ version \in Nat /\ version <= Cardinality(Counted)
    BY ChangesBounded DEF Inv, TypeOK, OrderInv
  <1>2. IsFiniteSet(1..begun) /\ Cardinality(1..begun) = begun
    BY <1>1, FS_Interval
  <1>3. ASSUME NEW S, S \subseteq 1..begun PROVE IsFiniteSet(S) /\ Cardinality(S) \in 0..begun
    <2>1. IsFiniteSet(S) /\ Cardinality(S) <= Cardinality(1..begun)
      BY <1>2, <1>3, FS_Subset
    <2> QED
      BY <1>1, <1>2, <2>1, FS_CardinalityType
  <1>4. ASSUME NEW a \in Changes, op[a].pc = "incr"
        PROVE  /\ Cardinality(Counted \union {a}) = Cardinality(Counted) + 1
               /\ version + 1 \in 0..begun
    <2>1. a \in 1..begun /\ a \notin Counted
      BY <1>4, Begun DEF Counted
    <2>2. IsFiniteSet(Counted) /\ Counted \union {a} \subseteq 1..begun
      BY <1>3, <2>1 DEF Counted
    <2>3. Cardinality(Counted \union {a}) = Cardinality(Counted) + 1
      BY <2>1, <2>2, FS_AddElement
    <2>4. Cardinality(Counted \union {a}) \in 0..begun /\ Cardinality(Counted) \in 0..begun
      BY <1>3, <2>2
    <2> QED
      BY <1>1, <2>3, <2>4
  <1> QED
    BY <1>2, <1>3, <1>4 DEF Counted

LEMMA CountGrows ==
  ASSUME begun' \in Nat, version' \in Nat, NEW S \in SUBSET Counted', version' <= Cardinality(S)
  PROVE  version' <= Cardinality(Counted')
  <1>1. IsFiniteSet(1..begun') /\ Counted' \in SUBSET (1..begun')
    BY FS_Interval DEF Counted
  <1>2. IsFiniteSet(Counted') /\ IsFiniteSet(S)
    BY <1>1, FS_Subset
  <1>3. Cardinality(S) <= Cardinality(Counted')
        /\ Cardinality(S) \in Nat /\ Cardinality(Counted') \in Nat
    BY <1>2, FS_Subset, FS_CardinalityType
  <1> QED
    BY <1>3

LEMMA InvalidateMoves ==
  ASSUME TypeOK, NEW a \in Changes, InvalidateLocal(a)
  PROVE  Moves(a, "incr")
  <1>1. op[a].at \in Instances /\ op[a].role \in Roles
    BY OpShape DEF InvalidateLocal
  <1>2. op[a] = [pc |-> "invalidate", at |-> op[a].at, role |-> op[a].role]
    BY OpShape DEF InvalidateLocal, TypeOK, Ops, Idle
  <1>3. op' = [op EXCEPT ![a].pc = "incr"]
    BY DEF InvalidateLocal
  <1>4. op'[a] = [pc |-> "incr", at |-> op[a].at, role |-> op[a].role]
    BY <1>2, <1>3 DEF TypeOK
  <1>5. op'[a] \in Ops
    BY <1>1, <1>4 DEF Ops
  <1> QED
    BY <1>3, <1>4, <1>5 DEF Moves, TypeOK

LEMMA IncrMoves ==
  ASSUME Inv, NEW a \in Changes, Incr(a)
  PROVE  Moves(a, "adopt") /\ op'[a].ver = version + 1 /\ version + 1 \in 0..MaxChanges
  <1>1. op[a].at \in Instances /\ op[a].role \in Roles
    BY OpShape DEF Incr, Inv
  <1>2. version + 1 \in 0..MaxChanges
    <2>1. op[a].pc = "incr"
      BY DEF Incr
    <2>2. version + 1 \in 0..begun
      BY <2>1, CounterBounded
    <2> QED
      BY <2>2, ChangesBounded DEF Inv, TypeOK
  <1>3. op' = [op EXCEPT ![a] = [pc |-> "adopt", at |-> op[a].at, role |-> op[a].role,
                                 ver |-> version + 1]]
    BY DEF Incr, Inv, TypeOK
  <1>4. op'[a] = [pc |-> "adopt", at |-> op[a].at, role |-> op[a].role, ver |-> version + 1]
    BY <1>3 DEF Inv, TypeOK
  <1>5. op'[a] \in Ops
    BY <1>1, <1>2, <1>4 DEF Ops
  <1> QED
    BY <1>2, <1>3, <1>4, <1>5 DEF Moves, Inv, TypeOK

LEMMA PublishNext ==
  ASSUME TypeOK, NEW a \in Changes, op[a].pc \in {"incr", "adopt"}, ToPublish(a)
  PROVE  Moves(a, "publish")
  <1>1. op[a].at \in Instances /\ op[a].role \in Roles
    BY OpShape
  <1>2. op' = [op EXCEPT ![a] = [pc |-> "publish", at |-> op[a].at, role |-> op[a].role]]
    BY DEF ToPublish, TypeOK
  <1>3. op'[a] = [pc |-> "publish", at |-> op[a].at, role |-> op[a].role]
    BY <1>2 DEF TypeOK
  <1>4. op'[a] \in Ops
    BY <1>1, <1>3 DEF Ops
  <1> QED
    BY <1>2, <1>3, <1>4 DEF Moves, TypeOK

LEMMA PublishEnds ==
  ASSUME TypeOK, NEW a \in Changes, Publish(a)
  PROVE  Moves(a, "idle")
  <1>1. op' = [op EXCEPT ![a] = Idle]
    BY DEF Publish
  <1> QED
    BY <1>1 DEF Moves, TypeOK, Ops, Idle

-----------------------------------------------------------------------------
(* Types and order *)

\* A change that goes on without being counted disturbs the order only by the
\* version that is adopted.
LEMMA OrderMoves ==
  ASSUME Inv, NEW a \in Changes, NEW pc, pc \in {"incr", "publish", "idle"},
         op[a].pc # "idle",
         pc = "incr" => op[a].pc = "invalidate",
         Moves(a, pc), UNCHANGED <<perms, begun, version, swept>>,
         \A i \in Instances : lastKnown'[i] <= version
  PROVE  OrderInv'
  <1>1. \A b \in Changes : b > begun' => op'[b] = Idle
    BY Begun, ChangesBounded DEF Inv, OrderInv, TypeOK, Moves, Changes
  <1>2. version' <= Cardinality(Counted')
    <2>1. Counted \in SUBSET Counted'
      BY ChangesBounded DEF Counted, Moves, Inv, TypeOK, Changes
    <2>2. begun' \in Nat /\ version' \in Nat /\ version' <= Cardinality(Counted)
      BY ChangesBounded DEF Inv, TypeOK, OrderInv
    <2> QED
      BY <2>1, <2>2, CountGrows
  <1>3. \A b \in Changes : op'[b].pc = "adopt" => op'[b] = op[b]
    BY DEF Moves
  <1> QED
    BY <1>1, <1>2, <1>3 DEF Inv, OrderInv

LEMMA IncrOrder ==
  ASSUME Inv, NEW a \in Changes, Incr(a)
  PROVE  Inv'
  <1>1. Moves(a, "adopt") /\ op'[a].ver = version + 1 /\ version + 1 \in 0..MaxChanges
    BY IncrMoves
  <1>2. version' = version + 1 /\ UNCHANGED <<perms, begun, cached, fills, lastKnown, swept, inbox, excused>>
    BY DEF Incr
  <1>3. TypeOK'
    BY <1>1, <1>2 DEF Inv, TypeOK, Moves
  <1>4. \A b \in Changes : b > begun' => op'[b] = Idle
    <2>1. a \in 1..begun
      BY Begun DEF Incr
    <2> QED
      BY <1>1, <1>2, <2>1, ChangesBounded DEF Inv, OrderInv, TypeOK, Moves, Changes
  <1>5. version' <= Cardinality(Counted')
    <2>1. Counted \union {a} \in SUBSET Counted'
      BY <1>1, <1>2, Begun, ChangesBounded DEF Incr, Counted, Moves, Inv, TypeOK, Changes
    <2>2. begun' \in Nat /\ version' \in Nat /\ version' <= Cardinality(Counted \union {a})
      BY <1>2, CounterBounded, ChangesBounded DEF Incr, Inv, TypeOK, OrderInv
    <2> QED
      BY <2>1, <2>2, CountGrows
  <1>6. \A b \in Changes : op'[b].pc = "adopt" => op'[b].ver <= version'
                              /\ (b # a /\ op'[b].pc = "adopt" => op'[b].ver < version')
    BY <1>1, <1>2, OpShape, ChangesBounded DEF Inv, OrderInv, TypeOK, Moves
  <1>7. \A b, c \in Changes :
          op'[b].pc = "adopt" /\ op'[c].pc = "adopt" /\ op'[b].ver = op'[c].ver => b = c
    BY <1>1, <1>2, <1>6, OpShape, ChangesBounded DEF Inv, OrderInv, TypeOK, Moves
  <1>8. /\ \A i \in Instances : lastKnown'[i] <= version'
        /\ \A i \in Instances : swept'[i] # None => swept'[i] <= version'
        /\ \A r \in Roles : perms'[r] <= begun'
    BY <1>2, ChangesBounded, NoneIsNoVersion DEF Inv, OrderInv, TypeOK
  <1> QED
    BY <1>3, <1>4, <1>5, <1>6, <1>7, <1>8 DEF Inv, OrderInv

LEMMA AnnounceOrder ==
  ASSUME Inv, NEW a \in Changes, Announce(a)
  PROVE  Inv'
  <1>1. CASE InvalidateLocal(a)
    <2>1. Moves(a, "incr") /\ UNCHANGED <<perms, begun, fills, version, lastKnown, swept, inbox>>
      BY <1>1, InvalidateMoves DEF Inv, InvalidateLocal
    <2>2. op[a].at \in Instances /\ op[a].role \in Roles
      BY <1>1, OpShape DEF InvalidateLocal, Inv
    <2>3. TypeOK'
      BY <1>1, <2>1, <2>2 DEF InvalidateLocal, Inv, TypeOK, Moves
    <2> QED
      BY <1>1, <2>1, <2>3, OrderMoves DEF InvalidateLocal, Inv, OrderInv
  <1>2. CASE Incr(a)
    BY <1>2, IncrOrder
  <1>3. CASE Adopt(a)
    <2>1. Moves(a, "publish") /\ op[a].at \in Instances /\ op[a].ver \in 0..MaxChanges
      BY <1>3, PublishNext, OpShape DEF Inv, Adopt
    <2>2. /\ lastKnown' = [lastKnown EXCEPT ![op[a].at] = op[a].ver]
          /\ UNCHANGED <<perms, begun, cached, fills, version, swept, inbox>>
          /\ excused' \in SUBSET (Instances \X Roles)
      BY <1>3 DEF Adopt, Inv, TypeOK, StalePairs
    <2>3. TypeOK'
      BY <2>1, <2>2 DEF Inv, TypeOK, Moves
    <2>4. \A i \in Instances : lastKnown'[i] <= version
      BY <1>3, <2>1, <2>2 DEF Adopt, Inv, OrderInv, TypeOK
    <2> QED
      BY <1>3, <2>1, <2>2, <2>3, <2>4, OrderMoves DEF Adopt, Inv
  <1>4. CASE IncrFails(a)
    <2>1. Moves(a, "publish")
      BY <1>4, PublishNext DEF Inv, IncrFails
    <2>2. /\ UNCHANGED <<perms, begun, cached, fills, version, lastKnown, swept, inbox>>
          /\ excused' \in SUBSET (Instances \X Roles)
      BY <1>4 DEF IncrFails, Inv, TypeOK, StalePairs
    <2>3. TypeOK'
      BY <2>1, <2>2 DEF Inv, TypeOK, Moves
    <2> QED
      BY <1>4, <2>1, <2>2, <2>3, OrderMoves DEF IncrFails, Inv, OrderInv
  <1>5. CASE Publish(a)
    <2>1. Moves(a, "idle")
      BY <1>5, PublishEnds DEF Inv
    <2>2. /\ UNCHANGED <<perms, begun, cached, fills, version, lastKnown, swept, excused>>
          /\ inbox' \in [Instances -> SUBSET Roles]
      BY <1>5, WatchedAreRoles DEF Publish, Inv, TypeOK
    <2>3. TypeOK'
      BY <2>1, <2>2 DEF Inv, TypeOK, Moves
    <2> QED
      BY <1>5, <2>1, <2>2, <2>3, OrderMoves DEF Publish, Inv, OrderInv
  <1> QED
    BY <1>1, <1>2, <1>3, <1>4, <1>5 DEF Announce

LEMMA CommitOrder ==
  ASSUME Inv, NEW a \in Changes, NEW i \in Instances, NEW r \in Roles, Commit(a, i, r)
  PROVE  Inv'
  <1>1. /\ op' = [op EXCEPT ![a] = [pc |-> "invalidate", at |-> i, role |-> r]]
        /\ perms' = [perms EXCEPT ![r] = @ + 1]
        /\ begun' = begun + 1 /\ a = begun + 1 /\ begun \in 0..MaxChanges
        /\ UNCHANGED <<version, excused, cached, fills, lastKnown, swept, inbox>>
    BY DEF Commit, cacheVars, Inv, TypeOK
  <1>2. a \in 1..MaxChanges /\ [pc |-> "invalidate", at |-> i, role |-> r] \in Ops
    BY DEF Changes, Ops
  <1>3. \A q \in Roles : perms[q] \in Nat /\ perms[q] <= begun
    BY ChangesBounded DEF Inv, OrderInv, TypeOK
  <1>4. \A q \in Roles : perms'[q] \in Nat /\ perms'[q] <= begun + 1
    BY <1>1, <1>3 DEF Inv, TypeOK
  <1>5. TypeOK'
    <2>1. perms' \in [Roles -> 0..MaxChanges] /\ begun' \in 0..MaxChanges
      BY <1>1, <1>2, <1>4, ChangesBounded DEF Inv, TypeOK
    <2>2. op' \in [Changes -> Ops]
      BY <1>1, <1>2 DEF Inv, TypeOK
    <2> QED
      BY <1>1, <2>1, <2>2 DEF Inv, TypeOK
  <1>6. op'[a].pc = "invalidate" /\ \A b \in Changes \ {a} : op'[b] = op[b]
    BY <1>1 DEF Inv, TypeOK
  <1>7. \A b \in Changes : b > begun' => op'[b] = Idle
    BY <1>1, <1>6, ChangesBounded DEF Inv, OrderInv, Changes
  <1>8. version' <= Cardinality(Counted')
    <2>1. Counted \in SUBSET Counted'
      BY <1>1, <1>2, <1>6, ChangesBounded DEF Counted, Changes
    <2>2. begun' \in Nat /\ version' \in Nat /\ version' <= Cardinality(Counted)
      BY <1>1, ChangesBounded DEF Inv, TypeOK, OrderInv
    <2> QED
      BY <2>1, <2>2, CountGrows
  <1>9. \A b \in Changes : op'[b].pc = "adopt" => op'[b] = op[b]
    BY <1>6
  <1> QED
    BY <1>1, <1>4, <1>5, <1>7, <1>8, <1>9 DEF Inv, OrderInv

LEMMA EntryOrder ==
  ASSUME Inv, NEW i \in Instances,
         \/ FillStores(i)
         \/ \E r \in Watched : FillReads(i, r) \/ Forget(i, r) \/ HandleMessage(i, r)
  PROVE  Inv'
  <1>1. UNCHANGED <<perms, begun, op, version, lastKnown, swept>>
    BY DEF FillStores, FillReads, Forget, HandleMessage
  <1>2. CASE FillStores(i)
    <2>1. PICK f \in fills[i] :
            /\ cached' = [cached EXCEPT ![i][f[1]] = f[2]]
            /\ fills' = [fills EXCEPT ![i] = @ \ {f}]
            /\ excused' = IF f[2] = perms[f[1]] THEN excused \ {<<i, f[1]>>}
                                                ELSE excused \union {<<i, f[1]>>}
            /\ inbox' = inbox
      BY <1>2 DEF FillStores
    <2>2. f \in Roles \X (0..MaxChanges)
      BY <2>1 DEF Inv, TypeOK
    <2>3. f[1] \in Roles /\ f[2] \in 0..MaxChanges
      BY <2>2
    <2>4. cached' \in [Instances -> [Roles -> 0..MaxChanges \union {None}]]
      BY <2>1, <2>3 DEF Inv, TypeOK
    <2>5. fills' \in [Instances -> SUBSET (Roles \X (0..MaxChanges))]
      BY <2>1 DEF Inv, TypeOK
    <2>6. excused' \in SUBSET (Instances \X Roles)
      BY <2>1, <2>3 DEF Inv, TypeOK
    <2> QED
      BY <1>1, <2>1, <2>4, <2>5, <2>6 DEF Inv, TypeOK, OrderInv, Counted
  <1>3. ASSUME NEW r \in Watched, FillReads(i, r) PROVE Inv'
    <2>1. r \in Roles /\ <<r, perms[r]>> \in Roles \X (0..MaxChanges)
      BY WatchedAreRoles DEF Inv, TypeOK
    <2>2. fills' \in [Instances -> SUBSET (Roles \X (0..MaxChanges))]
      BY <1>3, <2>1 DEF FillReads, Inv, TypeOK
    <2> QED
      BY <1>1, <1>3, <2>2 DEF FillReads, Inv, TypeOK, OrderInv, Counted
  <1>4. ASSUME NEW r \in Watched, Forget(i, r) \/ HandleMessage(i, r) PROVE Inv'
    <2>1. r \in Roles
      BY WatchedAreRoles
    <2>2. cached' = [cached EXCEPT ![i][r] = None] /\ fills' = fills
          /\ excused' = excused \ {<<i, r>>}
          /\ (inbox' = inbox \/ inbox' = [inbox EXCEPT ![i] = @ \ {r}])
      BY <1>4 DEF Forget, HandleMessage
    <2>3. /\ cached' \in [Instances -> [Roles -> 0..MaxChanges \union {None}]]
          /\ inbox' \in [Instances -> SUBSET Roles]
          /\ excused' \in SUBSET (Instances \X Roles)
      BY <2>1, <2>2 DEF Inv, TypeOK
    <2> QED
      BY <1>1, <2>2, <2>3 DEF Inv, TypeOK, OrderInv, Counted
  <1> QED
    BY <1>2, <1>3, <1>4

LEMMA SweepOrder ==
  ASSUME Inv, NEW i \in Instances, SweepReads(i) \/ SweepCompares(i)
  PROVE  Inv'
  <1>1. UNCHANGED <<perms, begun, op, fills, version, inbox>>
    BY DEF SweepReads, SweepCompares
  <1>2. version \in 0..MaxChanges /\ version \in Nat
    BY ChangesBounded DEF Inv, TypeOK
  <1>3. CASE SweepReads(i)
    <2>1. swept' = [swept EXCEPT ![i] = version] /\ UNCHANGED <<cached, excused, lastKnown>>
      BY <1>3 DEF SweepReads
    <2> QED
      BY <1>1, <1>2, <2>1 DEF Inv, TypeOK, OrderInv, Counted
  <1>4. CASE SweepCompares(i)
    <2>1. /\ swept[i] \in 0..MaxChanges /\ swept[i] <= version
          /\ swept' = [swept EXCEPT ![i] = None]
      BY <1>4 DEF SweepCompares, Inv, TypeOK, OrderInv
    <2>2. \/ /\ cached' = [cached EXCEPT ![i] = Empty]
             /\ lastKnown' = [lastKnown EXCEPT ![i] = swept[i]]
             /\ excused' = {p \in excused : p[1] # i}
          \/ UNCHANGED <<cached, lastKnown, excused>>
      BY <1>4 DEF SweepCompares
    <2>3. Empty \in [Roles -> 0..MaxChanges \union {None}]
      BY DEF Empty
    <2>4. /\ cached' \in [Instances -> [Roles -> 0..MaxChanges \union {None}]]
          /\ lastKnown' \in [Instances -> 0..MaxChanges]
          /\ excused' \in SUBSET (Instances \X Roles)
          /\ swept' \in [Instances -> 0..MaxChanges \union {None}]
      BY <2>1, <2>2, <2>3 DEF Inv, TypeOK
    <2>5. \A k \in Instances : lastKnown'[k] <= version
      BY <2>1, <2>2 DEF Inv, TypeOK, OrderInv
    <2>6. \A k \in Instances : swept'[k] # None => swept'[k] <= version
      BY <2>1 DEF Inv, TypeOK, OrderInv
    <2> QED
      BY <1>1, <2>4, <2>5, <2>6 DEF Inv, TypeOK, OrderInv, Counted
  <1> QED
    BY <1>3, <1>4

LEMMA RestartOrder ==
  ASSUME Inv, NEW i \in Instances, Restart(i)
  PROVE  Inv'
  <1> DEFINE died == {a \in Changes : op[a] # Idle /\ op[a].at = i}
  <1>1. /\ op' = [a \in Changes |-> IF a \in died THEN Idle ELSE op[a]]
        /\ cached' = [cached EXCEPT ![i] = Empty]
        /\ fills' = [fills EXCEPT ![i] = {}]
        /\ lastKnown' = [lastKnown EXCEPT ![i] = 0]
        /\ swept' = [swept EXCEPT ![i] = None]
        /\ inbox' = [inbox EXCEPT ![i] = {}]
        /\ UNCHANGED <<perms, begun, version>>
    BY DEF Restart
  <1>2. \A a \in Changes : op'[a] = Idle \/ op'[a] = op[a]
    BY <1>1
  <1>3. excused' \in SUBSET (Instances \X Roles)
    BY DEF Restart, StalePairs, Inv, TypeOK
  <1>4. op' \in [Changes -> Ops]
    BY <1>1 DEF Inv, TypeOK, Ops
  <1>5. Empty \in [Roles -> 0..MaxChanges \union {None}] /\ 0 \in 0..MaxChanges
    BY ChangesBounded DEF Empty
  <1>6. TypeOK'
    BY <1>1, <1>3, <1>4, <1>5 DEF Inv, TypeOK
  <1>7. version' <= Cardinality(Counted')
    <2>1. Idle.pc \notin {"invalidate", "incr"}
      BY DEF Idle
    <2>2. Counted \in SUBSET Counted'
      BY <1>1, <1>2, <2>1, ChangesBounded DEF Counted, Changes, Inv, TypeOK
    <2>3. begun' \in Nat /\ version' \in Nat /\ version' <= Cardinality(Counted)
      BY <1>1, ChangesBounded DEF Inv, TypeOK, OrderInv
    <2> QED
      BY <2>2, <2>3, CountGrows
  <1>8. \A a \in Changes : op'[a].pc = "adopt" => op'[a] = op[a]
    BY <1>2 DEF Idle
  <1>9. /\ \A k \in Instances : lastKnown'[k] <= version
        /\ \A k \in Instances : swept'[k] # None => swept'[k] <= version
    BY <1>1, ChangesBounded DEF Inv, TypeOK, OrderInv
  <1>10. \A a \in Changes : a > begun' => op'[a] = Idle
    BY <1>1, <1>2 DEF Inv, OrderInv
  <1> QED
    BY <1>1, <1>6, <1>7, <1>8, <1>9, <1>10 DEF Inv, OrderInv

LEMMA NextOrder ==
  ASSUME Inv, [Next]_vars
  PROVE  Inv'
  <1>1. ASSUME NEW a \in Changes, NEW i \in Instances, NEW r \in Roles, Commit(a, i, r)
        PROVE  Inv'
    BY <1>1, CommitOrder
  <1>2. ASSUME NEW a \in Changes, Announce(a) PROVE Inv'
    BY <1>2, AnnounceOrder
  <1>3. ASSUME NEW i \in Instances, ProcessStep(i) PROVE Inv'
    <2>1. CASE FillStores(i) \/ \E r \in Watched : FillReads(i, r) \/ Forget(i, r) \/ HandleMessage(i, r)
      BY <2>1, EntryOrder
    <2>2. CASE SweepReads(i) \/ SweepCompares(i)
      BY <2>2, SweepOrder
    <2>3. CASE Restart(i)
      BY <2>3, RestartOrder
    <2> QED
      BY <1>3, <2>1, <2>2, <2>3 DEF ProcessStep
  <1>4. CASE UNCHANGED vars
    BY <1>4 DEF vars, cacheVars, Inv, TypeOK, OrderInv, Counted
  <1> QED
    BY <1>1, <1>2, <1>3, <1>4 DEF Next

LEMMA InitOrder ==
  ASSUME Init
  PROVE  Inv
  <1>1. TypeOK
    BY ChangesBounded DEF Init, TypeOK, Ops
  <1>2. Cardinality(Counted) \in Nat
    <2>1. Counted \subseteq 1..0
      BY DEF Init, Counted
    <2>2. Counted = {}
      BY <2>1
    <2> QED
      BY <2>2, FS_EmptySet
  <1>3. \A a \in Changes : op[a].pc = "idle"
    BY DEF Init, Idle
  <1> QED
    BY <1>1, <1>2, <1>3, ChangesBounded, NoneIsNoVersion DEF Inv, OrderInv, Init, Idle

\* Every reachable state of the permission cache is well typed: in particular the
\* counter, and every version a process holds, stays within the changes made.
THEOREM TypeCorrect == Spec => []TypeOK
  <1>1. Init => Inv
    BY InitOrder
  <1>2. Inv /\ [Next]_vars => Inv'
    BY NextOrder
  <1>3. Inv => TypeOK
    BY DEF Inv
  <1> QED
    BY <1>1, <1>2, <1>3, PTL DEF Spec

-----------------------------------------------------------------------------
(* Stale entries *)

\* Change a goes on, no process learns of a version and nothing is taken from
\* what accounts for the entry.
Keeps(a, k, q) ==
  /\ \A b \in Changes \ {a} : op'[b] = op[b]
  /\ op'[a].pc = "adopt" => op'[a].ver > version
  /\ lastKnown'[k] \in Nat /\ lastKnown'[k] <= lastKnown[k]
  /\ version' \in Nat /\ version <= version'
  /\ q \in inbox[k] => q \in inbox'[k]
  /\ <<k, q>> \in excused => <<k, q>> \in excused'

\* Then only what change a itself did for the entry has to be made up for.
LEMMA MovedReach ==
  ASSUME Inv, NEW a \in Changes, NEW k \in Instances, NEW q \in Roles, Reached(k, q),
         Keeps(a, k, q), ~ Serves(a, k, q)
  PROVE  Reached(k, q)'
  <1>1. lastKnown[k] \in Nat /\ version \in Nat
    BY ChangesBounded DEF Inv, TypeOK
  <1>2. ASSUME NEW b \in Changes \ {a}, Serves(b, k, q) PROVE Reached(k, q)'
    <2>1. op'[b] = op[b] /\ (op[b].pc = "adopt" => op[b].ver \in Nat)
      BY <1>2, OpShape, ChangesBounded DEF Inv, Keeps
    <2>2. Serves(b, k, q)'
      BY <1>1, <1>2, <2>1 DEF Serves, Keeps
    <2> QED
      BY <2>2 DEF Reached
  <1>3. ASSUME NEW v \in lastKnown[k] + 1..version, Settled(v) PROVE Reached(k, q)'
    <2>1. v \in lastKnown'[k] + 1..version'
      BY <1>1, <1>3 DEF Keeps
    <2>2. ASSUME NEW b \in Changes, op'[b].pc = "adopt" PROVE op'[b].ver # v
      BY <1>1, <1>3, <2>2 DEF Settled, Keeps
    <2>3. Settled(v)'
      BY <2>2 DEF Settled
    <2> QED
      BY <2>1, <2>3 DEF Reached
  <1>4. CASE q \in inbox[k] \/ <<k, q>> \in excused
    BY <1>4 DEF Reached, Keeps
  <1> QED
    BY <1>2, <1>3, <1>4 DEF Reached

\* The number that a change leaves behind is settled: nobody else adopts it.
LEMMA LeavesNumber ==
  ASSUME Inv, NEW a \in Changes, NEW k \in Instances, NEW q \in Roles,
         op[a].pc = "adopt", Moves(a, "publish"), op[a].ver > lastKnown[k],
         lastKnown'[k] = lastKnown[k], version' = version
  PROVE  Reached(k, q)'
  <1>1. /\ op[a].ver \in Nat /\ op[a].ver <= version
        /\ lastKnown[k] \in Nat /\ version \in Nat
    BY OpShape, ChangesBounded DEF Inv, TypeOK, OrderInv
  <1>2. op[a].ver \in lastKnown'[k] + 1..version'
    BY <1>1
  <1>3. ASSUME NEW b \in Changes, op'[b].pc = "adopt" PROVE op'[b].ver # op[a].ver
    BY <1>3 DEF Moves, Inv, OrderInv
  <1> DEFINE v == op[a].ver
  <1> HIDE DEF v
  <1>4. \A b \in Changes : op'[b].pc = "adopt" => op'[b].ver # v
    BY <1>3 DEF v
  <1>5. v \in lastKnown'[k] + 1..version'
    BY <1>2 DEF v
  <1> QED
    BY <1>4, <1>5 DEF Reached, Settled

LEMMA AdoptStale ==
  ASSUME Inv, StaleInv, NEW a \in Changes, Adopt(a),
         NEW k \in Instances, NEW q \in Roles, Stale(k, q)
  PROVE  Reached(k, q)'
  <1>1. /\ op[a].pc = "adopt" /\ Moves(a, "publish")
        /\ op[a].at \in Instances /\ op[a].role \in Roles /\ op[a].ver \in Nat
    BY PublishNext, OpShape, ChangesBounded DEF Inv, Adopt
  <1>2. /\ lastKnown' = [lastKnown EXCEPT ![op[a].at] = op[a].ver]
        /\ version' = version /\ inbox' = inbox
        /\ excused' = excused \union {p \in StalePairs : p[1] = op[a].at
                                                /\ op[a].ver > lastKnown[p[1]] + 1}
    BY DEF Adopt
  <1>3. Reached(k, q) /\ lastKnown[k] \in Nat /\ version \in Nat
    BY ChangesBounded DEF StaleInv, Inv, TypeOK
  <1>4. lastKnown'[k] \in Nat /\ lastKnown'[k] <= lastKnown[k] => Keeps(a, k, q)
    BY <1>1, <1>2, <1>3 DEF Moves, Keeps
  <1>5. CASE k # op[a].at
    <2>1. lastKnown'[k] = lastKnown[k]
      BY <1>2, <1>5 DEF Inv, TypeOK
    <2>2. CASE Serves(a, k, q)
      BY <1>1, <1>2, <2>1, <2>2, LeavesNumber DEF Serves
    <2>3. CASE ~ Serves(a, k, q)
      <3>1. Keeps(a, k, q)
        BY <1>3, <1>4, <2>1
      <3> QED
        BY <1>3, <2>3, <3>1, MovedReach
    <2> QED
      BY <2>2, <2>3
  <1>6. CASE k = op[a].at
    <2>1. lastKnown'[k] = op[a].ver
      BY <1>1, <1>2, <1>6 DEF Inv, TypeOK
    <2>2. ~ Serves(a, k, q)
      BY <1>1, <1>6 DEF Serves
    <2>3. CASE op[a].ver <= lastKnown[k]
      <3>1. Keeps(a, k, q)
        BY <1>1, <1>4, <2>1, <2>3
      <3> QED
        BY <1>3, <2>2, <3>1, MovedReach
    <2>4. CASE op[a].ver > lastKnown[k] + 1
      <3>1. <<k, q>> \in StalePairs
        BY DEF StalePairs
      <3>2. <<k, q>> \in excused'
        BY <1>2, <1>6, <2>4, <3>1
      <3> QED
        BY <3>2 DEF Reached
    <2>5. CASE op[a].ver = lastKnown[k] + 1
      <3>1. ASSUME NEW b \in Changes, Serves(b, k, q) PROVE Reached(k, q)'
        <4>1. b # a /\ op'[b] = op[b]
          BY <1>1, <2>2, <3>1 DEF Moves
        <4>2. op[b].pc = "adopt" => op[b].ver \in Nat /\ op[b].ver # op[a].ver
          BY <1>1, <4>1, OpShape, ChangesBounded DEF Inv, OrderInv
        <4>3. Serves(b, k, q)'
          BY <1>1, <1>3, <2>1, <2>5, <3>1, <4>1, <4>2 DEF Serves
        <4> QED
          BY <4>3 DEF Reached
      <3>2. ASSUME NEW v \in lastKnown[k] + 1..version, Settled(v) PROVE Reached(k, q)'
        <4>1. v # op[a].ver
          BY <1>1, <3>2 DEF Settled
        <4>2. v \in lastKnown'[k] + 1..version'
          BY <1>1, <1>2, <1>3, <2>1, <2>5, <4>1
        <4>3. Settled(v)'
          BY <1>1, <3>2 DEF Settled, Moves
        <4> QED
          BY <4>2, <4>3 DEF Reached
      <3>3. CASE q \in inbox[k] \/ <<k, q>> \in excused
        BY <1>2, <3>3 DEF Reached
      <3> QED
        BY <1>3, <3>1, <3>2, <3>3 DEF Reached
    <2> QED
      BY <1>1, <1>3, <2>3, <2>4, <2>5
  <1> QED
    BY <1>5, <1>6

LEMMA AnnounceStale ==
  ASSUME Inv, StaleInv, NEW a \in Changes, Announce(a),
         NEW k \in Instances, NEW q \in Roles, Stale(k, q)'
  PROVE  Reached(k, q)'
  <1>1. lastKnown[k] \in Nat /\ version \in Nat
    BY ChangesBounded DEF Inv, TypeOK
  <1>2. CASE InvalidateLocal(a)
    <2>1. Moves(a, "incr") /\ op[a].at \in Instances /\ op[a].role \in Roles
      BY <1>2, InvalidateMoves, OpShape DEF Inv, InvalidateLocal
    <2>2. /\ cached' = [cached EXCEPT ![op[a].at][op[a].role] = None]
          /\ excused' = excused \ {<<op[a].at, op[a].role>>}
          /\ UNCHANGED <<perms, version, lastKnown, inbox>>
      BY <1>2 DEF InvalidateLocal
    <2>3. cached \in [Instances -> [Roles -> 0..MaxChanges \union {None}]]
      BY DEF Inv, TypeOK
    <2>4. ~ (k = op[a].at /\ q = op[a].role)
      BY <2>1, <2>2, <2>3 DEF Stale
    <2>5. Stale(k, q)
      BY <2>1, <2>2, <2>3, <2>4 DEF Stale
    <2>6. Keeps(a, k, q)
      BY <1>1, <2>1, <2>2, <2>4 DEF Keeps, Moves
    <2>7. CASE Serves(a, k, q)
      <3>1. Serves(a, k, q)'
        BY <2>1, <2>4, <2>7 DEF Serves, Moves
      <3> QED
        BY <3>1 DEF Reached
    <2>8. CASE ~ Serves(a, k, q)
      BY <2>5, <2>6, <2>8, MovedReach DEF StaleInv
    <2> QED
      BY <2>7, <2>8
  <1>3. CASE Incr(a)
    <2>1. Moves(a, "adopt") /\ op'[a].ver = version + 1
      BY <1>3, IncrMoves
    <2>2. /\ op[a].pc = "incr" /\ version' = version + 1
          /\ UNCHANGED <<perms, cached, lastKnown, inbox, excused>>
      BY <1>3 DEF Incr
    <2>3. Stale(k, q) /\ Keeps(a, k, q)
      BY <1>1, <2>1, <2>2 DEF Stale, Keeps, Moves
    <2>4. CASE Serves(a, k, q)
      <3>1. lastKnown[k] <= version
        BY DEF Inv, OrderInv
      <3>2. Serves(a, k, q)'
        BY <1>1, <2>1, <2>2, <2>4, <3>1 DEF Serves, Moves
      <3> QED
        BY <3>2 DEF Reached
    <2>5. CASE ~ Serves(a, k, q)
      BY <2>3, <2>5, MovedReach DEF StaleInv
    <2> QED
      BY <2>4, <2>5
  <1>4. CASE Adopt(a)
    <2>1. Stale(k, q)
      BY <1>4 DEF Adopt, Stale
    <2> QED
      BY <1>4, <2>1, AdoptStale
  <1>5. CASE IncrFails(a)
    <2>1. Moves(a, "publish") /\ op[a].pc \in {"incr", "adopt"}
      BY <1>5, PublishNext DEF Inv, IncrFails
    <2>2. /\ excused \subseteq excused'
          /\ op[a].pc = "incr" => {p \in StalePairs : p[2] = op[a].role} \subseteq excused'
          /\ UNCHANGED <<perms, cached, version, lastKnown, inbox>>
      BY <1>5 DEF IncrFails
    <2>3. Stale(k, q) /\ Keeps(a, k, q)
      BY <1>1, <2>1, <2>2 DEF Stale, Keeps, Moves
    <2>4. CASE Serves(a, k, q) /\ op[a].pc = "incr"
      <3>1. <<k, q>> \in {p \in StalePairs : p[2] = op[a].role}
        BY <2>3, <2>4 DEF StalePairs, Serves
      <3> QED
        BY <2>2, <2>4, <3>1 DEF Reached
    <2>5. CASE Serves(a, k, q) /\ op[a].pc = "adopt"
      BY <2>1, <2>2, <2>5, LeavesNumber DEF Serves
    <2>6. CASE ~ Serves(a, k, q)
      BY <2>3, <2>6, MovedReach DEF StaleInv
    <2> QED
      BY <2>1, <2>4, <2>5, <2>6
  <1>6. CASE Publish(a)
    <2>1. Moves(a, "idle")
      BY <1>6, PublishEnds DEF Inv
    <2>2. /\ op[a].pc = "publish" /\ inbox[k] \subseteq inbox'[k]
          /\ UNCHANGED <<perms, cached, version, lastKnown, excused>>
      BY <1>6 DEF Publish
    <2>3. Stale(k, q) /\ Keeps(a, k, q) /\ ~ Serves(a, k, q)
      BY <1>1, <2>1, <2>2 DEF Stale, Keeps, Moves, Serves
    <2> QED
      BY <2>3, MovedReach DEF StaleInv
  <1> QED
    BY <1>2, <1>3, <1>4, <1>5, <1>6 DEF Announce

LEMMA CommitStale ==
  ASSUME Inv, StaleInv, NEW a \in Changes, NEW i \in Instances, NEW r \in Roles,
         Commit(a, i, r), NEW k \in Instances, NEW q \in Roles, Stale(k, q)'
  PROVE  Reached(k, q)'
  <1>1. /\ op' = [op EXCEPT ![a] = [pc |-> "invalidate", at |-> i, role |-> r]]
        /\ perms' = [perms EXCEPT ![r] = @ + 1]
        /\ a = begun + 1 /\ begun \in Nat
        /\ UNCHANGED <<version, excused, cached, lastKnown, inbox>>
    BY ChangesBounded DEF Commit, cacheVars, Inv, TypeOK
  <1>2. op[a] = Idle
    BY <1>1 DEF Inv, OrderInv
  <1>3. op'[a].pc = "invalidate" /\ op'[a].role = r /\ \A b \in Changes \ {a} : op'[b] = op[b]
    BY <1>1 DEF Inv, TypeOK
  <1>4. CASE q = r
    <2>1. Serves(a, k, q)'
      BY <1>3, <1>4 DEF Serves
    <2> QED
      BY <2>1 DEF Reached
  <1>5. CASE q # r
    <2>1. Stale(k, q)
      BY <1>1, <1>5 DEF Stale, Inv, TypeOK
    <2>2. ~ Serves(a, k, q)
      BY <1>2 DEF Serves, Idle
    <2>3. lastKnown[k] \in Nat /\ version \in Nat
      BY ChangesBounded DEF Inv, TypeOK
    <2>4. Keeps(a, k, q)
      BY <1>1, <1>3, <2>3 DEF Keeps
    <2> QED
      BY <2>1, <2>2, <2>4, MovedReach DEF StaleInv
  <1> QED
    BY <1>4, <1>5

\* A step that changes no request and neither version keeps an entry accounted
\* for, unless it excuses it or takes it away itself.
LEMMA EntryReach ==
  ASSUME NEW k \in Instances, NEW q \in Roles, Reached(k, q),
         UNCHANGED <<op, version>>, lastKnown'[k] = lastKnown[k],
         q \in inbox[k] => q \in inbox'[k],
         <<k, q>> \in excused => <<k, q>> \in excused'
  PROVE  Reached(k, q)'
  BY DEF Reached, Serves, Settled

LEMMA ProcessStale ==
  ASSUME Inv, StaleInv, NEW i \in Instances, ProcessStep(i),
         NEW k \in Instances, NEW q \in Roles, Stale(k, q)'
  PROVE  Reached(k, q)'
  <1>1. /\ cached \in [Instances -> [Roles -> 0..MaxChanges \union {None}]]
        /\ inbox \in [Instances -> SUBSET Roles] /\ lastKnown \in [Instances -> 0..MaxChanges]
    BY DEF Inv, TypeOK
  <1>2. CASE FillStores(i)
    <2>1. PICK f \in fills[i] :
            /\ cached' = [cached EXCEPT ![i][f[1]] = f[2]]
            /\ excused' = IF f[2] = perms[f[1]] THEN excused \ {<<i, f[1]>>}
                                                ELSE excused \union {<<i, f[1]>>}
            /\ UNCHANGED <<perms, op, version, lastKnown, inbox>>
      BY <1>2 DEF FillStores
    <2>2. f[1] \in Roles
      BY <2>1 DEF Inv, TypeOK
    <2>3. CASE k = i /\ q = f[1]
      <3>1. f[2] # perms[f[1]]
        BY <1>1, <2>1, <2>2, <2>3 DEF Stale
      <3> QED
        BY <2>1, <2>3, <3>1 DEF Reached
    <2>4. CASE ~ (k = i /\ q = f[1])
      <3>1. Stale(k, q)
        BY <1>1, <2>1, <2>2, <2>4 DEF Stale
      <3>2. <<k, q>> \in excused => <<k, q>> \in excused'
        BY <2>1, <2>4
      <3> QED
        BY <2>1, <3>1, <3>2, EntryReach DEF StaleInv
    <2> QED
      BY <2>3, <2>4
  <1>3. ASSUME NEW r \in Watched, FillReads(i, r) PROVE Reached(k, q)'
    BY <1>3, EntryReach DEF FillReads, Stale, StaleInv
  <1>4. ASSUME NEW r \in Watched, Forget(i, r) \/ HandleMessage(i, r) PROVE Reached(k, q)'
    <2>1. r \in Roles
      BY WatchedAreRoles
    <2>2. /\ cached' = [cached EXCEPT ![i][r] = None] /\ excused' = excused \ {<<i, r>>}
          /\ (inbox' = inbox \/ inbox' = [inbox EXCEPT ![i] = @ \ {r}])
          /\ UNCHANGED <<perms, op, version, lastKnown>>
      BY <1>4 DEF Forget, HandleMessage
    <2>3. ~ (k = i /\ q = r)
      BY <1>1, <2>1, <2>2 DEF Stale
    <2>4. Stale(k, q)
      BY <1>1, <2>1, <2>2, <2>3 DEF Stale
    <2>5. /\ q \in inbox[k] => q \in inbox'[k]
          /\ <<k, q>> \in excused => <<k, q>> \in excused'
      BY <1>1, <2>2, <2>3
    <2> QED
      BY <2>2, <2>4, <2>5, EntryReach DEF StaleInv
  <1>5. CASE SweepReads(i)
    BY <1>5, EntryReach DEF SweepReads, Stale, StaleInv
  <1>6. CASE SweepCompares(i)
    <2>1. UNCHANGED <<perms, op, version, inbox>>
      BY <1>6 DEF SweepCompares
    <2>2. CASE UNCHANGED <<cached, lastKnown, excused>>
      BY <2>1, <2>2, EntryReach DEF Stale, StaleInv
    <2>3. CASE /\ cached' = [cached EXCEPT ![i] = Empty]
               /\ lastKnown' = [lastKnown EXCEPT ![i] = swept[i]]
               /\ excused' = {p \in excused : p[1] # i}
      <3>1. k # i
        BY <1>1, <2>3 DEF Stale, Empty
      <3>2. Stale(k, q) /\ lastKnown'[k] = lastKnown[k]
        BY <1>1, <2>1, <2>3, <3>1 DEF Stale
      <3>3. <<k, q>> \in excused => <<k, q>> \in excused'
        BY <2>3, <3>1
      <3> QED
        BY <2>1, <3>2, <3>3, EntryReach DEF StaleInv
    <2> QED
      BY <1>6, <2>2, <2>3 DEF SweepCompares
  <1>7. CASE Restart(i)
    <2> DEFINE died == {a \in Changes : op[a] # Idle /\ op[a].at = i}
    <2>1. /\ op' = [a \in Changes |-> IF a \in died THEN Idle ELSE op[a]]
          /\ cached' = [cached EXCEPT ![i] = Empty]
          /\ lastKnown' = [lastKnown EXCEPT ![i] = 0]
          /\ inbox' = [inbox EXCEPT ![i] = {}]
          /\ excused' = {p \in excused : p[1] # i} \union
               {p \in StalePairs : p[1] # i /\ \E a \in died : op[a].role = p[2]}
          /\ UNCHANGED <<perms, version>>
      BY <1>7 DEF Restart
    <2>2. k # i
      BY <1>1, <2>1 DEF Stale, Empty
    <2>3. /\ Stale(k, q) /\ lastKnown'[k] = lastKnown[k] /\ inbox'[k] = inbox[k]
          /\ <<k, q>> \in excused => <<k, q>> \in excused'
      BY <1>1, <2>1, <2>2 DEF Stale
    <2>4. Reached(k, q)
      BY <2>3 DEF StaleInv
    <2>5. CASE \E a \in died : op[a].role = q
      <3>1. <<k, q>> \in StalePairs
        BY <2>3 DEF StalePairs
      <3>2. <<k, q>> \in excused'
        BY <2>1, <2>2, <2>5, <3>1
      <3> QED
        BY <3>2 DEF Reached
    <2>6. ASSUME ~ \E a \in died : op[a].role = q, NEW a \in Changes, Serves(a, k, q)
          PROVE  Reached(k, q)'
      <3>1. a \notin died /\ op'[a] = op[a]
        BY <2>1, <2>6 DEF Serves
      <3>2. Serves(a, k, q)'
        BY <2>3, <2>6, <3>1 DEF Serves
      <3> QED
        BY <3>2 DEF Reached
    <2>7. ASSUME NEW v \in lastKnown[k] + 1..version, Settled(v) PROVE Reached(k, q)'
      <3>1. Settled(v)'
        BY <2>1, <2>7 DEF Settled, Idle
      <3> QED
        BY <2>1, <2>3, <3>1 DEF Reached
    <2>8. CASE q \in inbox[k] \/ <<k, q>> \in excused
      BY <2>3, <2>8 DEF Reached
    <2> HIDE DEF died
    <2> QED
      BY <2>4, <2>5, <2>6, <2>7, <2>8 DEF Reached
  <1> QED
    BY <1>2, <1>3, <1>4, <1>5, <1>6, <1>7 DEF ProcessStep

LEMMA NextStale ==
  ASSUME Inv, StaleInv, [Next]_vars
  PROVE  StaleInv'
  <1>1. SUFFICES ASSUME NEW k \in Instances, NEW q \in Roles, Stale(k, q)'
                 PROVE  Reached(k, q)'
    BY DEF StaleInv
  <1>2. ASSUME NEW a \in Changes, NEW i \in Instances, NEW r \in Roles, Commit(a, i, r)
        PROVE  Reached(k, q)'
    BY <1>1, <1>2, CommitStale
  <1>3. ASSUME NEW a \in Changes, Announce(a) PROVE Reached(k, q)'
    BY <1>1, <1>3, AnnounceStale
  <1>4. ASSUME NEW i \in Instances, ProcessStep(i) PROVE Reached(k, q)'
    BY <1>1, <1>4, ProcessStale
  <1>5. CASE UNCHANGED vars
    BY <1>1, <1>5, EntryReach DEF vars, cacheVars, Stale, StaleInv
  <1> QED
    BY <1>2, <1>3, <1>4, <1>5 DEF Next

\* A process that serves outdated permissions has an invalidation under way, a
\* message in its inbox or a version difference that its next sweep finds, or one
\* of the excuses.
THEOREM StaleHasACause == Spec => []StaleAccountedFor
  <1>1. Init => Inv /\ StaleInv
    BY InitOrder DEF Init, StaleInv, Stale
  <1>2. Inv /\ StaleInv /\ [Next]_vars => (Inv /\ StaleInv)'
    BY NextOrder, NextStale
  <1>3. Inv /\ StaleInv => StaleAccountedFor
    <2> SUFFICES ASSUME Inv, StaleInv, NEW k \in Instances, NEW q \in Roles, Stale(k, q)
                 PROVE  Pending(k, q) \/ <<k, q>> \in excused
      BY DEF StaleAccountedFor
    <2>1. Reached(k, q) /\ lastKnown[k] \in Nat /\ version \in Nat
      BY ChangesBounded DEF StaleInv, Inv, TypeOK
    <2>2. ASSUME NEW a \in Changes, Serves(a, k, q) PROVE op[a] # Idle /\ op[a].role = q
      BY <2>2 DEF Serves, Idle
    <2>3. ASSUME NEW v \in lastKnown[k] + 1..version PROVE version # lastKnown[k]
      BY <2>1
    <2> QED
      BY <2>1, <2>2, <2>3 DEF Reached, Pending
  <1> QED
    BY <1>1, <1>2, <1>3, PTL DEF Spec

=============================================================================
