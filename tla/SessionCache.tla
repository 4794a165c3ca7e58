----------------------------- MODULE SessionCache -----------------------------
(***************************************************************************)
(* One key of the two-level cache that JwtAuthGuard reads sessions through *)
(* (SessionCacheService over CacheService): an LruCache in every process   *)
(* (L1), Redis (L2), and the database row.  The row changes once: it is    *)
(* updated (status, roles) or deleted, and the process that changed it     *)
(* then invalidates the key.  Time passes in ticks; every call in flight   *)
(* is answered within Delay ticks.                                         *)
(***************************************************************************)
EXTENDS Naturals, FiniteSets

CONSTANTS
  Processes,
  TTL,        \* SESSION_CACHE_TTL
  Delay,      \* assumed: ticks a reply or a command may be under way
  Horizon,    \* bound: ticks modelled after the change
  MaxReads,   \* bound: reads in flight in one process
  Absent

ASSUME TTLPositive == TTL \in Nat \ {0}
ASSUME DelayNat == Delay \in Nat
ASSUME HorizonNat == Horizon \in Nat

VARIABLES
  truth,   \* the row: "old", then "new" or "gone"
  age,     \* ticks since the row changed, 0 before
  l1,      \* per process: the L1 entry, its value and the ticks it has left
  l2,      \* the Redis entry
  reads,   \* replies of Redis and the database on their way to a process
  sets,    \* SET commands on their way to Redis
  inval,   \* the process that has still to invalidate, and where it stands
  clean    \* history: the DEL met no outdated value under way to Redis

keyVars == <<truth, age, l1, l2, reads, sets, inval, clean>>

Values == {"old", "new"}
Entry == [val : Values, ttl : 1..TTL]
Read == [proc : Processes, from : {"db", "redis"}, val : Values, ttl : 1..TTL,
         left : 0..Delay]
Write == [val : Values, left : 0..Delay]

KeyTypeOK ==
  /\ truth \in Values \cup {"gone"}
  /\ age \in 0..Horizon
  /\ l1 \in [Processes -> Entry \cup {Absent}]
  /\ l2 \in Entry \cup {Absent}
  /\ reads \in SUBSET Read
  /\ sets \in SUBSET Write
  /\ inval \in {Absent} \cup [proc : Processes, pc : {"delete", "redisDel"}]
  /\ clean \in BOOLEAN

KeyInit ==
  /\ truth = "old" /\ age = 0
  /\ l1 = [p \in Processes |-> Absent] /\ l2 = Absent
  /\ reads = {} /\ sets = {}
  /\ inval = Absent /\ clean = FALSE

-----------------------------------------------------------------------------
\* A session operation, a status or a role change commits in process p.
Change(p) ==
  /\ truth = "old"
  /\ truth' \in {"new", "gone"}
  /\ inval' = [proc |-> p, pc |-> "delete"]
  /\ UNCHANGED <<age, l1, l2, reads, sets, clean>>

MayRead(p) ==
  /\ l1[p] = Absent
  /\ Cardinality({r \in reads : r.proc = p}) < MaxReads

Answer(p, from, val, ttl) ==
  reads' = reads \cup {[proc |-> p, from |-> from, val |-> val, ttl |-> ttl, left |-> Delay]}

\* (mutant) an entry of Redis is kept for the whole TTL.
ReadRedisAnew(p) ==
  /\ MayRead(p)
  /\ l2 # Absent
  /\ Answer(p, "redis", l2.val, TTL)
  /\ UNCHANGED <<truth, age, l1, l2, sets, inval, clean>>

\* CacheService.get after an L1 miss: GET and TTL in one pipeline.
ReadRedis(p) ==
  /\ MayRead(p)
  /\ l2 # Absent
  /\ Answer(p, "redis", l2.val, l2.ttl)
  /\ UNCHANGED <<truth, age, l1, l2, sets, inval, clean>>

\* fetchAndCacheSession after a miss in Redis too, or an error of Redis; a
\* row that is gone is not cached.
ReadDb(p) ==
  /\ MayRead(p)
  /\ truth # "gone"
  /\ Answer(p, "db", truth, TTL)
  /\ UNCHANGED <<truth, age, l1, l2, sets, inval, clean>>

\* What was read from Redis is kept for the ticks Redis reported; what was
\* read from the database is set in L1 and sent to Redis without waiting.
HandleRead(r) ==
  /\ r \in reads
  /\ reads' = reads \ {r}
  /\ l1' = [l1 EXCEPT ![r.proc] = [val |-> r.val, ttl |-> r.ttl]]
  /\ sets' = IF r.from = "db" THEN sets \cup {[val |-> r.val, left |-> Delay]} ELSE sets
  /\ UNCHANGED <<truth, age, l2, inval, clean>>

RedisSet(s) ==
  /\ s \in sets
  /\ sets' = sets \ {s}
  /\ \/ l2' = [val |-> s.val, ttl |-> TTL]
     \/ UNCHANGED l2                         \* the command failed
  /\ UNCHANGED <<truth, age, l1, reads, inval, clean>>

\* CacheService.delete: L1 first, then the DEL it awaits.
DeleteL1 ==
  /\ inval # Absent /\ inval.pc = "delete"
  /\ l1' = [l1 EXCEPT ![inval.proc] = Absent]
  /\ inval' = [inval EXCEPT !.pc = "redisDel"]
  /\ UNCHANGED <<truth, age, l2, reads, sets, clean>>

OldUnderWay ==
  \/ \E r \in reads : r.from = "db" /\ r.val = "old"
  \/ \E s \in sets : s.val = "old"

\* (mutant) the invalidation ends without the DEL.
RedisDelNothing ==
  /\ inval # Absent /\ inval.pc = "redisDel"
  /\ inval' = Absent
  /\ clean' = ~ OldUnderWay
  /\ UNCHANGED <<truth, age, l1, l2, reads, sets>>

RedisDel ==
  /\ inval # Absent /\ inval.pc = "redisDel"
  /\ l2' = Absent
  /\ inval' = Absent
  /\ clean' = ~ OldUnderWay
  /\ UNCHANGED <<truth, age, l1, reads, sets>>

\* The DEL failed, or the process died before it: a warning at most.
InvalidationLost ==
  /\ inval # Absent
  /\ inval' = Absent
  /\ UNCHANGED <<truth, age, l1, l2, reads, sets, clean>>

\* The LruCache makes room, or the process is restarted.
Evict(p) ==
  /\ l1[p] # Absent
  /\ l1' = [l1 EXCEPT ![p] = Absent]
  /\ UNCHANGED <<truth, age, l2, reads, sets, inval, clean>>

Older(e) == IF e = Absent \/ e.ttl = 1 THEN Absent ELSE [e EXCEPT !.ttl = @ - 1]
Nearer(m) == [m EXCEPT !.left = @ - 1]

\* A tick, which waits for the replies that are due.
Tick ==
  /\ \A m \in reads \cup sets : m.left > 0
  /\ age < Horizon
  /\ age' = IF truth = "old" THEN 0 ELSE age + 1
  /\ l1' = [p \in Processes |-> Older(l1[p])]
  /\ l2' = Older(l2)
  /\ reads' = {Nearer(r) : r \in reads}
  /\ sets' = {Nearer(s) : s \in sets}
  /\ UNCHANGED <<truth, inval, clean>>

KeyNext ==
  \/ \E p \in Processes : Change(p) \/ ReadRedis(p) \/ ReadDb(p) \/ Evict(p)
  \/ \E r \in reads : HandleRead(r)
  \/ \E s \in sets : RedisSet(s)
  \/ DeleteL1 \/ RedisDel \/ InvalidationLost
  \/ Tick

KeySpec == KeyInit /\ [][KeyNext]_keyVars

-----------------------------------------------------------------------------
Bound == TTL + 3 * Delay

Old(e) == e # Absent /\ e.val = "old"

\* A request is let in on the strength of a revoked or changed session for
\* less than the TTL and three delays (the read that was overtaken, its SET,
\* and the read of Redis that copies it), whatever the invalidation does.
StalenessBounded ==
  age >= Bound =>
    /\ \A p \in Processes : ~ Old(l1[p])
    /\ \A r \in reads : r.val # "old"

\* A DEL that met no outdated value on its way to Redis is final: from then
\* on only entries already in some L1, or in a reply that Redis has sent
\* before, are outdated, and Redis spreads no more of them.
CleanDelIsFinal ==
  clean => ~ Old(l2) /\ ~ OldUnderWay
=============================================================================
