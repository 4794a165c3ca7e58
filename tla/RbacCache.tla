---------------------------- MODULE RbacCache ----------------------------
(***************************************************************************)
(* The permission cache of every process (RbacService): fills on a miss,   *)
(* and, once the roles service has changed a role, invalidation of the     *)
(* local entry, a version counter in Redis, a publication to the other     *)
(* processes, and a periodic sweep that compares versions.                 *)
(* A cached entry is the value of perms it was read from.                  *)
(***************************************************************************)
EXTENDS Naturals, FiniteSets

CONSTANTS
  Instances,   \* processes of the API
  Roles,
  Watched,     \* bound: the roles whose permissions requests ask for
  MaxChanges,  \* bound: role changes committed
  MaxFills,    \* bound: fills in flight in one process
  None         \* no entry, no reply

ASSUME ChangesBounded == MaxChanges \in Nat
ASSUME NoneIsNoVersion == None \notin Nat
ASSUME WatchedAreRoles == Watched \subseteq Roles

VARIABLES
  perms,      \* how often each role's permission rows were replaced
  begun,      \* role changes committed so far
  op,         \* per change: the request that made it, past its commit
  cached,     \* per process and role: the entry in its LruCache
  fills,      \* per process: permission rows read and not yet cached
  version,    \* the counter rbac:inv:version
  lastKnown,  \* per process: lastKnownVersion
  swept,      \* per process: the version a sweep has read and not yet compared
  inbox,      \* per process: publications delivered and not yet handled
  excused     \* history: process and role whose entry nothing will invalidate

cacheVars == <<cached, fills, lastKnown, swept, inbox>>
vars == <<perms, begun, op, version, excused, cacheVars>>

Changes == 1..MaxChanges

Idle == [pc |-> "idle"]
Ops ==
  {Idle}
    \cup [pc : {"invalidate", "incr", "publish"}, at : Instances, role : Roles]
    \cup [pc : {"adopt"}, at : Instances, role : Roles, ver : 0..MaxChanges]

TypeOK ==
  /\ perms \in [Roles -> 0..MaxChanges]
  /\ begun \in 0..MaxChanges
  /\ op \in [Changes -> Ops]
  /\ cached \in [Instances -> [Roles -> 0..MaxChanges \cup {None}]]
  /\ fills \in [Instances -> SUBSET (Roles \X (0..MaxChanges))]
  /\ version \in 0..MaxChanges
  /\ lastKnown \in [Instances -> 0..MaxChanges]
  /\ swept \in [Instances -> 0..MaxChanges \cup {None}]
  /\ inbox \in [Instances -> SUBSET Roles]
  /\ excused \in SUBSET (Instances \X Roles)

Init ==
  /\ perms = [r \in Roles |-> 0]
  /\ begun = 0
  /\ op = [a \in Changes |-> Idle]
  /\ cached = [i \in Instances |-> [r \in Roles |-> None]]
  /\ fills = [i \in Instances |-> {}]
  /\ version = 0
  /\ lastKnown = [i \in Instances |-> 0]
  /\ swept = [i \in Instances |-> None]
  /\ inbox = [i \in Instances |-> {}]
  /\ excused = {}

-----------------------------------------------------------------------------
Empty == [r \in Roles |-> None]

Stale(i, r) == cached[i][r] # None /\ cached[i][r] # perms[r]

\* What will still take a stale entry away, apart from its TTL.
Pending(i, r) ==
  \/ \E a \in Changes : op[a] # Idle /\ op[a].role = r
  \/ r \in inbox[i]
  \/ version # lastKnown[i]

StalePairs == {p \in Instances \X Roles : Stale(p[1], p[2])}

\* getPermissionsForRole: a miss, the rows read, and the entry cached.
FillReads(i, r) ==
  /\ cached[i][r] = None
  /\ Cardinality(fills[i]) < MaxFills
  /\ fills' = [fills EXCEPT ![i] = @ \cup {<<r, perms[r]>>}]
  /\ UNCHANGED <<perms, begun, op, version, excused, cached, lastKnown, swept, inbox>>

FillStores(i) ==
  \E f \in fills[i] :
    /\ cached' = [cached EXCEPT ![i][f[1]] = f[2]]
    /\ fills' = [fills EXCEPT ![i] = @ \ {f}]
    /\ excused' = IF f[2] = perms[f[1]] THEN excused \ {<<i, f[1]>>}
                                        ELSE excused \cup {<<i, f[1]>>}
    /\ UNCHANGED <<perms, begun, op, version, lastKnown, swept, inbox>>

\* LruCache: an entry past its TTL is dropped, and so is the oldest when full.
Forget(i, r) ==
  /\ cached[i][r] # None
  /\ cached' = [cached EXCEPT ![i][r] = None]
  /\ excused' = excused \ {<<i, r>>}
  /\ UNCHANGED <<perms, begun, op, fills, version, lastKnown, swept, inbox>>

\* RolesService.update and remove: the transaction that replaces the role's
\* permissions, renames it or soft-deletes it, on the process of the request.
Commit(a, i, r) ==
  /\ a = begun + 1
  /\ begun' = a
  /\ op' = [op EXCEPT ![a] = [pc |-> "invalidate", at |-> i, role |-> r]]
  /\ perms' = [perms EXCEPT ![r] = @ + 1]
  /\ UNCHANGED <<version, excused, cacheVars>>

\* invalidateRole, up to the INCR it awaits.
InvalidateLocal(a) ==
  /\ op[a].pc = "invalidate"
  /\ cached' = [cached EXCEPT ![op[a].at][op[a].role] = None]
  /\ excused' = excused \ {<<op[a].at, op[a].role>>}
  /\ op' = [op EXCEPT ![a].pc = "incr"]
  /\ UNCHANGED <<perms, begun, fills, version, lastKnown, swept, inbox>>

\* incrementVersion: Redis counts, and the process adopts the reply.  Replies
\* come in the order of the commands, so a sweep's earlier GET is first.
Incr(a) ==
  /\ op[a].pc = "incr"
  /\ version' = version + 1
  /\ op' = [op EXCEPT ![a] = [pc |-> "adopt", at |-> @.at, role |-> @.role,
                              ver |-> version + 1]]
  /\ UNCHANGED <<perms, begun, cached, fills, lastKnown, swept, inbox, excused>>

ToPublish(a) ==
  op' = [op EXCEPT ![a] = [pc |-> "publish", at |-> @.at, role |-> @.role]]

Adopt(a) ==
  /\ op[a].pc = "adopt"
  /\ swept[op[a].at] # None => swept[op[a].at] >= op[a].ver
  /\ lastKnown' = [lastKnown EXCEPT ![op[a].at] = op[a].ver]
  /\ excused' =
       excused \cup {p \in StalePairs : p[1] = op[a].at
                                          /\ op[a].ver > lastKnown[p[1]] + 1}
  /\ ToPublish(a)
  /\ UNCHANGED <<perms, begun, cached, fills, version, swept, inbox>>

\* Redis did not count, or its reply was lost: only the warning is logged.
IncrFails(a) ==
  /\ op[a].pc \in {"incr", "adopt"}
  /\ excused' =
       IF op[a].pc = "incr" THEN excused \cup {p \in StalePairs : p[2] = op[a].role}
                            ELSE excused
  /\ ToPublish(a)
  /\ UNCHANGED <<perms, begun, cached, fills, version, lastKnown, swept, inbox>>

\* publish: the message of one of two attempts reaches the processes that are
\* subscribed at that moment, none when both fail.  A second copy would only
\* drop an entry again; messages about roles nobody asks for are not kept.
Publish(a) ==
  /\ op[a].pc = "publish"
  /\ \E got \in SUBSET Instances :
       inbox' = [i \in Instances |->
                   inbox[i] \cup {r \in Watched : r = op[a].role /\ i \in got}]
  /\ op' = [op EXCEPT ![a] = Idle]
  /\ UNCHANGED <<perms, begun, cached, fills, version, lastKnown, swept, excused>>

\* handleInvalidationMessage
HandleMessage(i, r) ==
  /\ r \in inbox[i]
  /\ inbox' = [inbox EXCEPT ![i] = @ \ {r}]
  /\ cached' = [cached EXCEPT ![i][r] = None]
  /\ excused' = excused \ {<<i, r>>}
  /\ UNCHANGED <<perms, begun, op, fills, version, lastKnown, swept>>

\* (mutant) a sweep that takes the first version for no version.
SweepReadsLate(i) ==
  /\ swept[i] = None
  /\ version > 1
  /\ swept' = [swept EXCEPT ![i] = version]
  /\ UNCHANGED <<perms, begun, op, version, excused, cached, fills, lastKnown, inbox>>

\* sweep, up to and after the GET it awaits; without the key it returns.
SweepReads(i) ==
  /\ swept[i] = None
  /\ version > 0
  /\ swept' = [swept EXCEPT ![i] = version]
  /\ UNCHANGED <<perms, begun, op, version, excused, cached, fills, lastKnown, inbox>>

\* (mutant) a sweep that adopts the version and keeps its entries.
SweepAdopts(i) ==
  /\ swept[i] # None
  /\ swept' = [swept EXCEPT ![i] = None]
  /\ lastKnown' = [lastKnown EXCEPT ![i] = swept[i]]
  /\ UNCHANGED <<perms, begun, op, version, excused, cached, fills, inbox>>

SweepCompares(i) ==
  /\ swept[i] # None
  /\ swept' = [swept EXCEPT ![i] = None]
  /\ IF swept[i] # lastKnown[i]
       THEN /\ cached' = [cached EXCEPT ![i] = Empty]
            /\ lastKnown' = [lastKnown EXCEPT ![i] = swept[i]]
            /\ excused' = {p \in excused : p[1] # i}
       ELSE UNCHANGED <<cached, lastKnown, excused>>
  /\ UNCHANGED <<perms, begun, op, fills, version, inbox>>

\* A process is restarted: its memory, its subscription and the requests it
\* was serving are gone.
Restart(i) ==
  LET died == {a \in Changes : op[a] # Idle /\ op[a].at = i}
  IN /\ op' = [a \in Changes |-> IF a \in died THEN Idle ELSE op[a]]
     /\ cached' = [cached EXCEPT ![i] = Empty]
     /\ fills' = [fills EXCEPT ![i] = {}]
     /\ lastKnown' = [lastKnown EXCEPT ![i] = 0]
     /\ swept' = [swept EXCEPT ![i] = None]
     /\ inbox' = [inbox EXCEPT ![i] = {}]
     /\ excused' = {p \in excused : p[1] # i}
          \cup {p \in StalePairs : p[1] # i /\ \E a \in died : op[a].role = p[2]}
     /\ UNCHANGED <<perms, begun, version>>

Announce(a) ==
  InvalidateLocal(a) \/ Incr(a) \/ Adopt(a) \/ IncrFails(a) \/ Publish(a)

ProcessStep(i) ==
  \/ \E r \in Watched : FillReads(i, r) \/ Forget(i, r) \/ HandleMessage(i, r)
  \/ FillStores(i)
  \/ SweepReads(i) \/ SweepCompares(i)
  \/ Restart(i)

Next ==
  \/ \E a \in Changes, i \in Instances, r \in Roles : Commit(a, i, r)
  \/ \E a \in Changes : Announce(a)
  \/ \E i \in Instances : ProcessStep(i)

\* Code that has been entered runs on; messages in the socket are handled; the
\* sweep's timer fires for ever.  Nobody has to restart, fill or expire.
Fairness ==
  /\ \A a \in Changes : WF_vars(Announce(a))
  /\ \A i \in Instances :
       /\ WF_vars(SweepReads(i) \/ SweepCompares(i))
       /\ \A r \in Watched : WF_vars(HandleMessage(i, r))

Spec == Init /\ [][Next]_vars /\ Fairness

-----------------------------------------------------------------------------
\* Whatever is lost, a process that serves outdated permissions of a role has
\* an invalidation under way, or a version difference its next sweep will
\* find, or one of the excuses: a fill that was overtaken by the update, an
\* update whose process died or could not count, a version adopted over
\* increments of others.
StaleAccountedFor ==
  \A i \in Instances, r \in Roles :
    Stale(i, r) => Pending(i, r) \/ <<i, r>> \in excused

\* And such an entry does go away, without waiting for its TTL, unless an
\* excuse arises first: messages and sweeps make progress.
StaleEnds ==
  \A i \in Instances, r \in Watched :
    Stale(i, r) ~> (~ Stale(i, r) \/ <<i, r>> \in excused)
=============================================================================
