# TLA+ models of the API's session and account machinery

This directory specifies the parts of the repository whose correctness depends
on the order in which concurrent steps happen. The program is a NestJS
monorepo: `apps/api` (users, roles, invitations, cases, stages, audit) on top of
`libs/auth` (login, sessions, two-factor, RBAC), `libs/core` (cache, throttler,
logging) and `libs/database` (Prisma with a soft-delete extension). It runs as
several Node processes over one PostgreSQL database and one Redis. The
repository has no tests for the application code, so the interleavings below are
not exercised anywhere else.

`PROJECT.json` lists the components, the runs, the map from definitions to
source lines, the hazards and the theorems in machine-readable form.

## 1. Inventory

| Component | State | Operations | Hard behaviour | What makes it correct |
|---|---|---|---|---|
| Login sessions (`auth.service.ts`, `session.repository.ts`) | `Session` rows, the Redis lock and consumed-token keys | login, verifyTwoFactor, resolveSessionConflict, refresh, logout, logoutAll, terminateSession, revocation by password and status changes | every await is an interleaving point; the lock is best effort; tokens are retried and replayed | the limit is overshot by a bounded amount; a login is one row; a revoked login stays dead; a single-use token logs in once |
| Access-token check (`jwt-auth.guard.ts`, `session-cache.service.ts`, `cache.service.ts`, `lru-cache.ts`) | L1 per process, L2 in Redis, TTL 60 s | get, fill on a miss, invalidate | fills racing with invalidations; L1 of other processes | a revoked session is accepted only for a bounded time |
| User status (`user-status.service.ts`, `users.repository.ts`) | `User.status`, trash flag, credential fields | approve, reject, unreject, suspend, unsuspend, deactivate, reactivate, delete, restore, switch provider | read, decide, write under a status precondition | only legal transitions; a suspension ends the sessions it sees |
| Invitations (`invitations.service.ts`) | `UserInvitation.status`, token, expiry | send, resend, revoke, accept | two tables written in one transaction with different preconditions | invitation status and user status agree |
| Password and recovery tokens (`auth.service.ts`) | token hash and request time on the user row | forgot, reset, set, recover, change | lookup outside the consuming transaction; a hash computed between read and write | a suspension ends the password; the previous password is the one replaced, unless two transactions overlap |
| Login lockout (`user.service.ts`) | `loginAttempts`, `loginAttemptsLockout` | recordFailedAttempt, clearLoginAttempts | lost updates of the counter | a bounded number of guesses between two lockouts |
| Two-factor (`two-factor/*`) | secret, flags, backup codes, attempts, trusted devices | setup, confirm, verify, disable, regenerate, record failure | row lock in some operations, none in others | a backup code works once; an enabled factor was proved |
| RBAC cache (`rbac.service.ts`) | LRU per process, version in Redis | getPermissionsForRole, invalidateRole, sweep, message | lost or delayed publications, version adopted by the writer | a changed role is eventually seen by every process |
| Roles, permissions (`roles.service.ts`, `user-roles.service.ts`) | rows | create, update, remove, assign | count then delete; guards that look at cached roles and at the body before it is converted | where the guards look, roles only descend; no user keeps a deleted role |
| Endpoints and guards (`*.controller.ts`, `guards/*`) | none | public, pending, two-factor, permission, scope, hierarchy, entity checks | the declarations of 100 handlers in ten files; two paths to a scope | more roles never open less; both answers about scopes agree |
| Throttling (`app-throttler.guard.ts`, `throttler-redis-storage.ts`) | one counter per bucket in Redis | increment | windows that begin with a request; shared counters | the limit over any period as long as a window |
| Soft-delete extension (`soft-delete.extension.ts`) | none | rewriting of every query | explicit conditions, nested AND, deletion as an update | a trashed row is reached only by who asks for it |
| Audit buffer (`audit.service.ts`) | buffer, flush in flight | log, flush, shutdown | re-queue, overflow, shutdown during a flush | entries are written in order, once, unless the buffer overflows |
| Case board (`cases.repository.ts`, `stage.service.ts`) | cases, stages with `caseCount` | create, move, update, delete; create and remove stages; the paged board | counter updated in separate statements; a page put together from several reads | the counter equals the number of cases; a client misses no stage |
| Search filters (`filter-query-builder.service.ts`, `cases/utils`) | none | conditions and single parameters to a `where` | NULL columns, negations, bounds of a day | a negation selects the rest; two ways of asking agree |
| Seeders (`rbac.seeder.ts`) | rows | permissions, roles, grants, levels | grants that name an unknown permission | the seed is accepted |
| Pub/sub and streams, process errors, clean-up, configuration, logging | little or none | | | |

Interaction: the guards and every session operation share the `Session` table;
session operations invalidate the session cache after the database statement;
status changes and password changes delete session rows in the transaction that
changes the user; the roles service invalidates the RBAC cache after its
transaction; every controller writes audit entries through an interceptor; every
query goes through the soft-delete extension, and every request through the
throttler first.

## 2. Plan

Done, in this order:

1. `Sessions`: the core, with `MCSessions`, `SessionClaims` and `SessionsProofs`.
2. `AuditLog`, the abstract ordered log, and `AuditBuffer`, which implements it,
   with `AuditProofs` about both.
3. `CaseBoard` with `BoardCounts`, and over them `CaseFilters`, `BoardViews` and
   `MCBoard`, with `BoardProofs`.
4. `Accounts`: user status, trash and invitation; beside it `SoftDeleteFilter`;
   with `MCAccounts`, and `AccountsProofs` about both.
5. `RbacCache`, with `MCRbac` and `RbacClaims`.
6. `SessionCache`; `CacheProofs` is about both caches.
7. `Seeds` and `Endpoints`, and over them `Access` and `Throttling`, with
   `MCAccess`, and `AccessProofs` about all of them.
8. `Passwords`, with `MCPasswords` and `PasswordsProofs`.
9. `TwoFactor`, with `MCTwoFactor` and `TwoFactorProofs`.

How the modules build on each other:

```
Seeds <- Endpoints <- Access, Throttling <- MCAccess
                   <- TwoFactor <- MCTwoFactor
CaseBoard <- BoardCounts, CaseFilters <- BoardViews <- MCBoard
AuditLog <- AuditBuffer (INSTANCE, refinement)
Accounts, SoftDeleteFilter <- MCAccounts
Sessions <- MCSessions, SessionClaims;  RbacCache <- MCRbac, RbacClaims
SessionCache;  Passwords <- MCPasswords
```

The proofs about a component are in a module of their own, which extends what it is
about (an MC module where the property is stated there), the library's theorems it
cites and TLAPS; nothing else uses it.

What could come next: a theorem that `BoundReached` holds for every limit; what
fills the sessions' cache and the rows of `Sessions` put into one module, so that
the bound of section 7 and the deletions of section 3 are checked together; and
the trash as a filter of every query in `Passwords`.

## 3. Module `Sessions`

One user account, because everything in the code is keyed by the user id: row
filters, Redis keys, token subjects. `Requests` are the HTTP requests that can be
in flight at one time; between two awaits a handler's state is `req[r]`: the
program counter `pc` and the locals it still needs (`sid`, `tok`, `top`). One
action is the code between two awaits. A database transaction is one action, or two
where what a statement sees may be outdated when it commits.

| Variable | Code |
|---|---|
| `row` | the user's `Session` rows: absent, live, or past `expiresAt` |
| `nextId` | the autoincrement id |
| `status` | `User.status`, of the values a user with sessions can have |
| `lock` | the key `session-limit-lock:{userId}` |
| `issued`, `claimed` | single-use JWTs handed out and those whose consumed-key is set |
| `family`, `origin`, `cause` | history only: the login a row descends from, the token that login used, and whether the row was created while the user's status was being changed or after it |

Correspondence worth knowing:

* A refresh token names a row id, and the row's hash is written in the
  transaction that creates it. Token and row id are therefore identified: a hash
  or user mismatch can only come from a forged token and is not modelled; its
  handling is the same deletion as for a missing row.
* `TryLock`/`RetryLock`/`EnforceLimit`/`CreateSession` are the four awaits of a
  login. When Redis does not answer, `setIfAbsent` falls back to the process's
  own L1, so the outcome is free.
* `LockGoes` removes the key at any time: its TTL runs out whatever the holder is
  doing, and the DEL that a check sends without awaiting it arrives whenever it
  likes and removes the key whoever set it, the value being the constant `'1'`.
* Transactions name no isolation level (`database-connection.ts:43`), so they run at
  PostgreSQL's default, READ COMMITTED. The deletion of many rows
  (`deleteAllByUserId`, `deleteAllByUserIdExcept`) deletes the rows its snapshot saw:
  where a rotation overlaps it, it waits for the old row, finds it gone, and does not
  see the successor. It is two actions: `LogoutAll`, `RevokeOnTheft`, `RevokeAll`,
  `SuspendUser`, `DeactivateUser` or `SwitchAuthProvider` takes the snapshot (`top`
  is the id of the next row), and `DeletionCommits` or `StatusChanges` makes the
  deletion and the new status visible. Whatever is created in between escapes.
* The transactions that change the user row hold it until they commit
  (`UserRowFree`), so only one of them is under way.
* `RequestDies` is a crash of the process, a failed statement, or any early
  return without an effect. It also covers the checks that refuse a request for
  reasons outside the model (wrong password, lockout, IP mismatch, deleted user).
* A user moved to the trash keeps status and rows (`softDelete` touches neither);
  restoring sets ACTIVE. Both are covered by the actions present: refusals by
  `RequestDies`, the status change by `UnsuspendUser`/`ReactivateUser`. The trash
  itself is a variable of `Accounts`.
* `Logout` deletes one row by its id and is a single action; `terminateSession` is
  two, because the lookup and the delete are. A rotation deletes and creates by id:
  its delete waits for whoever holds the row and fails when the row is gone, so
  that it is one action too.
* JWT lifetimes are not modelled: an issued token may be presented at any later
  time, and its consumed-key outlives it in the code.

Properties:

* `OvershootBounded`: live sessions never exceed `MaxSessions - 1 +
  Cardinality(Requests)`. The lock does not serialise logins, so this is what the
  code really guarantees; it needs the count to be made by every request that
  creates a row, rotation not to add rows, and expiry and revocation to be the
  only other changes.
* `OneRowPerLogin`, `RevokedLoginStaysDead`: rotation in one transaction that
  aborts on a missing row neither forks nor revives a login.
  Neither says that a revocation ends every login: one whose rotation overlaps the
  deletion goes on (section 15).
* `StatusEndsSessions`: what is left to a suspended or deactivated user was created
  while the suspension was under way (by a refresh or a login), is a renewal of such
  a row, or is the first row of a login that had checked the status before. The
  status check before a rotation is outdated when it rotates, and yet no session
  that the suspension saw is renewed after it, because its row is gone by then.
* `TokenYieldsOneLogin`: claim, release on failure, crash, and a failing release.

`SessionClaims` adds history variables and no behaviour, and states what a comment
says of the session that logout-all and a password change keep. TLC refutes it
(section 15).

## 4. Modules `AuditLog` and `AuditBuffer`

`AuditLog` is what a reader of the audit table may rely on: entries wait in one
queue, the front is written, entries may be lost or written again, nothing
overtakes anything. `AuditBuffer` is `AuditService`: one action per stretch of
code between two awaits. `buffer`, `flusher` (the flag `flushing`, with who set
it) and `batch` (the entries taken out by `splice` and being written) are the
service's state, `table` the rows, `phase`, `retries` and `before` the place and
the locals of `onModuleDestroy`.

* `flush` is `StartFlush` up to its await and one of `WriteSucceeds`,
  `WriteFails` and `WriteUnconfirmed` after it; the early return is `SkipFlush`.
  An unconfirmed write is one whose rows are there although the client sees a
  broken connection.
* `ShutdownEnds` covers in one step the iterations of the shutdown loop that run
  while another flush is in flight: each `flush()` returns an already settled
  promise, so no I/O event gets a turn between them.
* `ProcessEnds` is the exit after the shutdown or a crash before it; the write in
  flight may still take effect.

`ImplementsAuditLog` maps the abstract queue to `batch \o buffer`.
`Conservation` says where an entry can be; `DuplicatesOnlyUnconfirmed` and
`OverflowDropsOldest` what may be repeated and what is dropped first;
`EveryEntryEnds` is liveness under `FairSpec`: the interval fires, a write ends
and does not fail for ever (strong fairness of its success), the shutdown loop
runs, and a process that has shut down exits. The first and the last are what
Node does; that the database eventually answers is an assumption without which
nothing could be promised.

## 5. Modules `CaseBoard`, `BoardCounts`, `CaseFilters`, `BoardViews` and `MCBoard`

`CaseBoard` is the Kanban board: `at` is `Case.stageId`, `count` is
`Stages.caseCount`, `req[r]` the handler's place and the ids it has read. Only
`moveCaseToStage` runs in a transaction (`Move`); everywhere else each Prisma
statement commits by itself, so creation is up to four actions
(`CreateDefaultStage`, `Reserve`, `Insert`), an update up to three (`UpdateCase`,
`Decrement`, `Increment`), a deletion two. A stage is looked up, counted or
checked before it is written; the check and the write are separate actions. The
foreign key's ON DELETE SET NULL is part of `DeleteStage`, and a statement whose
row is missing ends the request. Fields of a case other than its stage are
abstracted away here.

The counter is not an invariant of this code: the races of two requests on one
case, and a request that dies between its statements, really lose counts. What
does hold is stated in `BoardCounts`, relative to two regimes that a behaviour
follows from the start, recorded in history variables:

* `careful`: requests in flight concern different cases and a stage is removed
  alone. Then `CountsAccountedFor`: every stage's counter is the number of its
  cases, corrected by the requests that are between two statements.
* `moving`: any interleaving on the same cases, but no case is taken off the board
  and no stage is removed. Then single counters drift, and only
  `TotalAccountedFor` holds.

A request that dies between a statement on a counter and its counterpart is
excluded (`LeavesUnfinished`), because it breaks both by design of the code;
deaths elsewhere are included. So the count kept for a case whose insertion failed
(`cases.repository.ts:356`) and the case that enters a stage while it is removed
(`stage.service.ts:45`) are behaviours of `CaseBoard` on which no property speaks: there
the code promises nothing that could be stated.

`CaseFilters` says which cases a search selects. A column of a case is the set of
its values, empty for NULL, so that SQL's comparison with NULL is a quantifier
over nothing. Each kind of column has its operators: which conditions are used
(the builder drops the others without a word) and what a used one selects; the
rest of the module is the query parameters of their own. `NegationsComplement`:
of two opposite conditions, one of which is used, both are, and they split the
cases whose column is not NULL. `ParametersAgree`: a parameter and the condition
that means the same select the same cases. TLC goes through all cases and conditions
built from two texts, three numbers and two lists; the theorems of section 16 are
about any texts, numbers and lists.

`BoardViews` is a client that goes through the board page by page while one other
request at a time changes it. The page is put together from three statements:
the stages of the page and, after them, their cases, and beside both the number
of cases per stage; each sees the board of its moment. A page is the stages with so
many others `Ahead` of them in the order asked for. `walk.missing` holds the stages
the client has still to see. `CountsWithinMoves`: numbers beside a title
and cases shown under it differ by no more than the cases that moved between the
two statements. `NoStageMissed`: going on until a page is short, a client has
seen every stage that was there when it began, whatever stages were added; a
removal may hide one, because it moves the others up.

## 6. Modules `Accounts`, `SoftDeleteFilter` and `MCAccounts`

One user row and its invitation row. Every operation of `UserStatusService` and
`InvitationsService` is two actions: the first reads the rows, checks and decides
(`Suspend`, `Resend`, ...), the second is the statement or transaction with its
precondition (`SuspendUser`, `ResendInvite`, ...), which changes nothing when the
precondition has failed (`withConcurrencyGuard`, a thrown `ConflictException`
that rolls the transaction back). `Matches` is a filter on the user row as the
soft-delete extension rewrites it: trashed users match nothing. The invitation
row has no such column.

* `req[r].clean` is the decision to remove the second factor, made on the row
  read; `req[r].token` the invitation token a person presents.
* `ChangeSecondFactor` stands for set-up and disabling by the user.
* Passwords, roles, reviewers and times are left out. Where the new
  `isCredentialEnabled` depends on the request's body, it is free.
* `RequestDies` is a failed statement, the end of the process, or the abort of
  one of two transactions in a database deadlock: accepting locks the user row
  first, resending the invitation row. The locks themselves are not modelled: that the
  database ends such a deadlock is assumed, and what the runs show is that the rows
  agree whichever of the two it aborts.

`StatusFitsInvitation` relates the two rows; `AcceptanceIsFinal` and
`TrashedUntouched` are action properties about requests that have decided before
an acceptance or a deletion. That a suspended user has no second factor is not
among them: one who switches two-factor authentication on, or whose provider is
changed, between the decision and the write, keeps it.

`SoftDeleteFilter` is the extension behind all of this, as a function: how the
arguments of each operation are rewritten and which rows the result reaches. A
`where` is what it says of `isDeleted`, the rows its other fields select, and its
AND. `TrashHidden` compares the rows reached with what was asked for, for every
operation and every `where` of four rows with up to two further conditions; the
theorem behind it is about any rows and any number of conditions.

Properties of a function such as this one do not depend on the state. They are
written `[][...]_vars`, of constant formulas, so that they are checked in the run
of the component that relies on the function.

## 7. Module `SessionCache`

One key of the cache that `JwtAuthGuard` reads sessions through: the entry in each
process's `LruCache` (`l1`), the one in Redis (`l2`), and the row (`truth`), which
changes once. A read is three steps: Redis or the database answers (`ReadRedis`,
`ReadDb`), the reply travels (`reads`), the process stores it (`HandleRead`) and,
when it came from the database, sends a SET without waiting (`sets`). The
invalidation is `DeleteL1`, then `RedisDel`, either of which may be lost with its
process. `Tick` ages the entries and does not overtake what is due; that every
reply and command arrives within `Delay` ticks is an assumption, without which no
bound exists.

`StalenessBounded` is the promise: TTL and three delays after a revocation no
process accepts the session, although a fill that was overtaken may put the old
value back into Redis after the DEL. `CleanDelIsFinal`: a DEL that met no old value
under way is never undone. Both are proved for any TTL and delay (section 16). The
specification is `KeySpec`, and its parts are named after the key likewise, so that
the proofs can extend this module and `RbacCache` together.

## 8. Modules `RbacCache`, `MCRbac` and `RbacClaims`

The permissions of roles in every process. `perms` counts how often a role's rows
were replaced, so that an entry is outdated when its number is smaller. A change
(`Commit`) is followed by its announcement, one action per await:
`InvalidateLocal`, `Incr` (or `IncrFails`), `Adopt`, `Publish`, which may reach
some of the processes only. A fill is `FillReads` and `FillStores`; a sweep
`SweepReads` and `SweepCompares`; `Restart` empties a process.

`StaleAccountedFor`: an outdated entry has an invalidation under way, a version
difference its next sweep will find, or one of the excuses kept in `excused`: the
fill was overtaken by the update, the update's process died or could not count, or
the process adopted a version more than one above the one it knew, which hides the
increments in between from its sweep. The excuse is recorded at the step that gives
rise to it and ends with the entry. A narrower form of the last excuse held with two
changes at a time and failed in the proof; TLC then refuted it with three.
`StaleEnds`: without an excuse the entry goes away and does not wait for its TTL,
given that announcements run on, messages are handled and the sweep's timer fires.
`SweepCatchesUp` (`RbacClaims`) is the log message about sweeps, and is refuted by
the adopted version.

## 9. Modules `Seeds`, `Endpoints` and `Access`

`Seeds` is what `RbacSeeder` writes: permissions, built-in roles, grants, levels,
and its refusal of grants that name an unknown permission. `Endpoints` is a table
of every handler with its decorators, and the guards as operators: the account
checks of `JwtAuthGuard` with the exemptions, the permission trie with its
wildcards (`PermissionsAllow`), the scope guard, the hierarchy of levels and the
checks of a request's body (`EntityAllows`).

`Access` uses that table: an actor's request passes the guards of its endpoint and
reads in one step, and writes in a later one. The guards look at what they have:
the roles of the cached session, the cached roles of the target. Nothing
invalidates either when roles change, so both may be outdated for as long as they
like (`SessionReloads`, `TargetExpires`). `updateUser` alone does not look the
roles up, so it may give a deleted one.

The guard for the roles that a body names (`RoleEntityHierarchyGuard`) sees the body
before the pipes and keeps the ids that are numbers
(`role-entity-hierarchy.guard.ts:107-111`), and admits a request that leaves it none
(27-29). The handler gets what the validation pipe makes of the same list, in which
`@Type(() => Number)` has converted every id it can (`update-user.dto.ts:70`,
`approve-user.dto.ts:31`, `sync-user-roles.dto.ts:19`, `send-invite.dto.ts:35`). In
`AssignReads` and `InviteReads` the handler gets the target and the guard (`Named`) any
part of it, `shown`; the pairs of a user and a role that was written without having
been shown are kept in `unchecked`.

`RolesDescend`: through any chain of assignments, invitations and syncs with
outdated sessions and caches, a user holds a role that is a root of its own, or one
below a root of somebody; only an owner makes an owner. The roots are the roles held
at the start and those of `unchecked`: the levels bind where the guard looks, and what
it was not shown is bounded by nothing (section 15).
`DeletedHeldAccountedFor`: a
deleted role that is held was given during or after its removal.
`MoreRolesOpenMore`: a session that gains roles loses nothing.
`ScopeAnswersAgree`: the scope map and the grants, two structures built from the
same rows, answer alike: the effective scope of a permission reaches a scope exactly
when a grant of the session allows the action in it. `GrantsHaveScopes` says that a
grant's scope is one of those the code ranks.

## 10. Module `Throttling`

What the first guard answers, as a function of the order in which Redis counts
requests. `Tier` is the guard's choice by handler, `Bucket` the key,
`Increment` the Lua script, `Throttled` what each request of a sequence finds and is
answered, as a function of how many came before it.
`LessThanTwiceTheLimit`: no period as long as a window lets through two limits of
requests that share a bucket, whatever handlers they are spread over; the bound
`2 * limit - 1` is reached (`BoundReached`). TLC goes through all sequences of four
requests over four instants, from two addresses, to two handlers of one tier and one of the tier
"global", one of them while Redis does not answer. Redis expires keys in
milliseconds and its clock does not go back; that is assumed.

## 11. Modules `Passwords` and `MCPasswords`

One user's password. A login is `WrongGuess`/`RightGuess` (the row read, the hash
compared), then `FailedAttempt`, or `CreateSession` and `ClearAttempts`. Links
are `ForgotReads`/`ForgotWrites`, `ResetReads`/`ResetCommits` and
`SetReads`/`SetCommits`; `ChangeReads`/`ChangeCommits` is the user's own change;
`AdminSets`, `Suspend` and `UnsuspendReads`/`Unsuspend` the administrator's acts. The
commits select the row by id, not by what was read. `updatePasswordWithRotation` reads
the password once more in its transaction, without a lock, and writes it as the previous
one: `Rereads` is the read, and the password may change before `ResetCommits` or
`ChangeCommits` writes what it saw (`Rotate`). Lifting a suspension reads and writes
likewise. `alone` holds the transactions between such a read and their write whose
password nobody has replaced meanwhile. A link is its age only: its hash fits by
construction. Lockouts double in the code; here one is active until it ends.

`GuessesBounded`: with two requests at a time, lost updates let more wrong guesses
through than `MaxAttempts`, but fewer than `MaxAttempts * (MaxAttempts + 1) / 2`
between two lockouts. `SessionsAccountedFor`, `RotationRemembers` and
`SuspensionEndsPassword` each have their exceptions written down where the overlap
happens: a login overtaken by a change gets a session that the change did not revoke
(`late`); a link opened before a suspension but committed after its end sets the
password (`raced`); and a rotation in whose transaction another one has replaced the
password between the read and the write remembers a password that is not the one it
replaced (`overlapped`). The hash, which takes long and is computed before, is not such
an exception: that is what the second read is for.

A session that is inserted while a deletion has not committed counts as inserted after
it. The refresh, which renews a session without looking at the password, is in
`Sessions` and not here: a rotation that overlaps a deletion outlives it (section 3).

## 12. Modules `TwoFactor` and `MCTwoFactor`

One user's second factor, with `held` for the row lock that verification and
disabling take and the others do not. A secret is the number of the set-up that
made it; one backup code stands for each set. Set-up, confirmation and
regeneration are a read and a write. A login is `Login` and `Verify` (is there a
lockout?), then `CodeRight`, `CodeWrong` or `BackupFinds`/`BackupMarks`, and after a
success `Clear` and `Trust`; a failure is `RecordReads`, `RecordCounts` and, in a
statement of its own, `SetLockout`. Endpoints a pending or unenrolled account may
call come from `Endpoints`.

`FactorProved`: an enabled factor was confirmed with the secret of the row unless a
set-up or reset overtook the confirmation. `LeftoversAccountedFor`: no codes or
devices of a former factor unless a request was under way. `LockoutFollows`: a
full count has its lockout, a request about to set it, or lost that request.
`EnforcedFactorStays`: the user does not get rid of an enforced factor.
`BackupCodesOnce`: a code opens one login and none after its replacement.

## 13. Runs

The check for deadlock is off where a bound of the model stops it for good:
session ids (`MaxId`), entries logged, cases and stages, requests begun, ticks.
`Accounts.cfg`, `Access.cfg` and `Rbac.cfg` leave it on.

| Run | Bounds | Shows |
|---|---|---|
| `session_limit` | 2 requests, limit 1, 3 ids, 1 conflict and 1 two-factor token | `OvershootBounded`, `TokenYieldsOneLogin`; the password, second-factor and conflict paths overlap, the bound (2 live sessions) is reached, both requests present the same token |
| `session_rotation` | 2 requests, limit 1, 4 ids, no tokens | `OneRowPerLogin`, `RevokedLoginStaysDead`, `StatusEndsSessions`; two rotations in a row and two logins, a rotation between the snapshot and the commit of a suspension |
| `kept_claim` | 2 requests, limit 2, 3 ids | refutes that the session kept by logout-all or a password change lives on |
| `session_cache` | 2 processes, TTL 2, delay 1, 6 ticks after the change, 1 read in flight per process | the properties of section 7; the bound of 5 ticks is reached, and one tick less is not enough |
| `rbac_cache` | 2 processes, 2 roles of which 1 is asked for, 2 changes | the properties of section 8; the second role lets a change count without touching the watched entries |
| `sweep_claim` | as `rbac_cache` | refutes "Other instances will catch up via version sweep" |
| `access` | 2 actors, 3 users, 3 roles, 3 writes begun, of which the first may name roles the guard is not shown; all sequences of 4 requests | the properties of sections 9 and 10; administrator and owner overlap, an invitation, a role made, changed and removed |
| `passwords` | 2 requests, 3 passwords, 3 attempts, 12 requests and acts, 6 where the password changes | the properties of section 11; both requests count, a lockout ends and a second one begins |
| `two_factor` | 2 requests, 2 attempts, 8 requests and acts, 6 where the factor changes | the properties of section 12; a factor set up, confirmed, reset and set up again |
| `accounts` | 2 requests, 3 invitation tokens; tables of 4 rows, 2 trashed | the properties of section 6; one request accepts what the other resends or revokes, a resent token after a revoked one |
| `audit_buffer` | batches of 2, buffer 3, 2 retries, 5 entries, 1 unconfirmed write | the six properties of section 4; a full batch that fails while three entries wait overflows the buffer by two |
| `board_counts` | 2 requests, 2 cases, 2 stages, 2 titles, counters within 2; pages of 1, 1 changing request and 1 moved case while a client looks | the properties of section 5 |

The bounds are small but sufficient for the cases: every race is between two
handlers, on one or two rows, with one more id or token than that for the
successor. Requests, tokens and cases are symmetric; symmetry is not used where a
run checks liveness. `MCPasswords` and `MCTwoFactor` bound behaviours with many
failures and behaviours with many changes separately, since the counter and the
factor meet in few actions; `MCRbac` lets the first change be made on one given
process, which is no loss because the processes are interchangeable.

## 14. Fairness

* `AuditBuffer`: the interval fires, a write ends and does not fail for ever, the
  shutdown loop runs, a process that has shut down exits.
* `RbacCache`: an announcement that was begun runs on, a message in the socket is
  handled, the sweep's interval fires. Nobody has to fill, expire or restart. An
  announcement whose process dies is an excuse, not a violation of fairness.

Elsewhere a request may die at any await, and nothing in the code promises that
it ends.

## 15. Where the code and its texts differ

Refuted by a run: the kept session (`auth.service.ts:871`; `kept_claim`) and the
sweep (`rbac.service.ts:244`; `sweep_claim`). Seen while modelling, in the actions
of the models but without a run of their own:

* The lock of the session limit is released before the session is created, so two
  logins can both pass the count; the comment at `auth.service.ts:943` says it
  prevents that. `OvershootBounded` is what holds.
* A suspension, a password reset or a logout-all does not end a login whose refresh
  commits between the snapshot and the commit of the deletion: the successor stays
  ("revokes all sessions", `user.service.ts:211`). `StatusEndsSessions` is what holds,
  and `SessionsAccountedFor` of logins; a refresh of the user afterwards is refused
  while it is not ACTIVE, but one that has checked the status before is not.
* `updatePasswordWithRotation` reads and writes without a lock. Two resets or changes
  whose transactions overlap both read the same password, and the second remembers it
  although it replaces the password of the first ("Atomically updates the password
  (rotating the previous hash)", `user.service.ts:210` and 221). `RotationRemembers`
  says when the previous password is the one replaced.
* The guard for the roles in a body and the handler take different forms of the same
  ids (section 9), so the comparison of levels is not applied to ids that are not sent
  as numbers. `RolesDescend` says what holds of the others.
* `terminateSession` deletes the row it looked up; a rotation in between has
  replaced it, the answer is 'Session terminated' all the same
  (`auth.controller.ts:65`), and the login goes on.
* The audit shutdown logs that it drops entries after its retries
  (`audit.service.ts:50`); it does so without having tried when another flush is
  in flight, because the loop then spins through settled promises.
* The removal of a stage is documented to be refused while it has cases
  (`stage.controller.ts:139`); a case that arrives after the count loses its stage.
* A user restored from the trash becomes ACTIVE whatever it was before
  (`user-status.service.ts:540`), also an invited one; its invitation then stays
  pending and can be neither resent, revoked nor accepted until an administrator
  has changed the status again.
* Search: `isEmpty`/`isNotEmpty` on a required column compares it with null and
  fails the query; `exists`/`notExists` on assignees is dropped unless a value is
  given; a condition that does not convert is dropped without a word; negative
  conditions leave out rows whose column is NULL.
* The board's `totalPages` comes from a statement of its own. In the default
  order, descending, a stage added meanwhile moves the others to a later page, so
  a client should go on to a short page and not stop at `totalPages`.
* Soft delete: the comment at `soft-delete.extension.ts:221` speaks of a redundant
  clause that the explicit `isDeleted` in fact prevents. An upsert does not reach
  a trashed row and creates one beside it, or fails on a unique key. The update
  behind `delete` runs on the base client and would leave a transaction; no caller
  deletes in one.
* The throttler runs before authentication, so its tracker is always the address,
  and all handlers of the tier "auth", refresh included, share one counter per
  address.
* A lockout of the second factor can be wiped by a success recorded after it, when
  the two requests overlap.

## 16. Proofs

Every theorem holds for all values of the constants that satisfy the assumptions of
the module (listed at the end), and so for behaviours of any length. Most
invariants that the runs check are not inductive; what is said below of each is what
had to be added, which is also the reason why the code is right.

`SessionsProofs`, for any requests, limit, tokens and ids
* `TypeCorrect`. `ClaimConflict` adds the request's token to `claimed` and
  `RotateSession` indexes by the request's session id, so `TypeInv` adds `Held` (a
  request at "claim" holds a token, one at "rotate" a session id).
* `LoginNeverForks` and `RevocationIsFinal`: `RowInv` says that ids and families in
  use are below `nextId`; a fresh id is therefore a fresh family, and a rotation
  moves a family from one row to one row.
* `OvershootIsBounded`: `AdmissionBudget` counts the live rows together with the
  requests that have passed a count and not yet created their row; a passed count
  spends at most what a request slot gives. The lemma `StepShape` reduces the
  actions to the few shapes that matter: only two add rows.
* `StatusChangeEndsSessions`: by `RenewInv`, while a transaction that ends the ACTIVE
  status is under way, every row that its snapshot did not see is marked as created
  meanwhile (`EndingInv`), so that the commit leaves nothing else. A row that a refresh
  is about to rotate for a user who is no longer ACTIVE was there while the status
  still was, so it is such a row too (`RotatingInv`), and its successor inherits the
  mark. A login that comes late is the only other source of rows, and these are never
  rotated: a refresh begins only for an ACTIVE user.
* `TokensAreSingleUse`: by `TokenInv` spent and carried tokens are claimed, and a
  token is carried by one request and only before it is spent. The last part is
  what allows a failed login to give its claim back.

`AuditProofs`, for any sizes of batch and buffer and number of retries
* `LogInOrder`: the abstract log keeps first writes in order. The invariant adds
  that the queue is ordered and that an entry overtaken in the table has already
  been written before its overtaker.
* `TypesKept`, `BufferImplementsLog`: each action of the buffer is `Log`, `Write`,
  `Lose` or a stutter of the log with `batch \o buffer` as its queue. The types need
  that a batch is held exactly while somebody flushes, and that the shutdown awaits
  a flush only below its limit of retries. `TableKeepsOrder` is the two together.
* `NothingDisappears`: what each step moves between the buffer, the batch, the table
  and the lost.
* `DuplicatesAreUnconfirmed`: `DupInv` counts the entries in memory that are already
  in the table with the duplicates. Without them the bound is not inductive: the
  write that repeats an unconfirmed one succeeds itself.
* `OverflowIsOldest`: the buffer is ordered, and the front is what is cut off.

`BoardProofs`, for any finite sets of requests and cases, any stages and titles
* `TypeCorrect`, and `Placed`: cases stand in stages that exist.
* `CountsAreRight`: in the first regime what a request has read of its case is still
  so when it writes (`UpToDate`), and the counter is what is expected also of stages
  still to come. A step concerns one request and one case; `Share` is what these two
  contribute to what is expected of a stage, and the sets are taken apart by it.
* `TotalIsRight`: in the second regime stages do not go away, so those a request has
  read exist (`Knows`), and every case on the board has a stage. The sum of the
  counters is `SumFunctionOnSet` of the community modules, a fold over a chosen
  order; the lemmas about it (what it is with an element changed, added or taken
  away) are proved by a smallest counterexample.
* `NothingIsMissed`: the stages a client has not seen have at least as many stages
  ahead of them as are on the pages it has gone through (`MissingInv`): an added
  stage moves others back, never forward, and a short page has nobody behind it.
* `AnswersAreClose`: what the first of two statements answered is `Near` what the
  second would answer now, up to the cases moved in between.
* `NegationIsComplement`, `ParameterIsCondition`, `DatesAreConditions` and
  `StageIsCondition` (a lemma of the last theorem) are about the filters for all
  values and any finite choices; `NegationsHold` and `ParametersHold` are the
  properties of the run, which follow.

`AccountsProofs`, for any requests and tokens
* `Control` is `TypeOK`, `StatusFitsInvitation` and the fact that only an existing
  user is trashed. It is inductive: each write to the invitation is in one
  transaction with a precondition on the user's status, and the conjunct on PENDING
  and REJECTED keeps reviews away from invited users.
* `TypesKept` and `StatusAgrees` are its parts; `AcceptanceStands` follows since
  an accepted invitation excludes INVITED and REVOKED, hence every precondition
  of accept, resend and revoke; `TrashIsFrozen` needs the third conjunct for
  registration.
* `FilterHidesTrash`: for any rows, any `where` and any number of conditions in its
  AND, an operation reaches exactly what it asks for outside the trash, or in it when
  it says so. `TrashStaysHidden` is the sample of the run.

`CacheProofs`, about both caches
* `KeyTypeCorrect`, `RevocationTakesEffect`, for any processes, TTL and delay:
  `NoCopyOutlives` gives every copy of the old value a latest time, one delay after
  that of what it was copied from: a read of the database arrives within `Delay` of
  the change, its SET within `2 * Delay`, the entry in Redis lives for the TTL after
  that, and what a process copies from it for one delay more. `Tick` keeps the
  account since it waits for what is due.
* `CleanDelStays`: with no old value under way the only source is the database,
  which has none once the row has changed (`ChangeFirst`).
* `TypeCorrect`, `StaleHasACause`, for any processes, roles, changes and fills:
  `StaleAccountedFor` is not inductive, because a version above the known one may be
  the one that the process is about to adopt itself. `Reached` asks for one that
  nobody is about to adopt (`Settled`). `OrderInv` is why there is one: each change is
  counted at most once, and each number is adopted by one change at most.

`AccessProofs`, for any users, roles and choices of roles
* `TypeCorrect` and `RolesOnlyDescend`: `RolesDescend` is not inductive, because a
  request gives roles on what it has read. `DescendingRequests` says that the roles
  about to be given which the guard was shown are warranted by a root, and that the
  roles in a session, however outdated, are roots of the actor or warranted. The roots
  (`Roots`) only grow, so that a warrant stays one, and it is transitive, levels being
  numbers. The lemmas take the guards apart: what
  `HierarchyAllows` and `EntityAllows` let through has a lower level than the
  highest of the session.
* `RemovalLeavesNobody`: a removal under way has seen that nobody holds the role,
  and built-in roles are never removed.
* `GainingOpens`: each guard asks whether the session has something, or for the
  greatest of its levels, and both grow with its roles; this is so of every endpoint,
  without going through the table.
* `LookupsAgree`: the sessions' grants are among those of the constants
  (`ScopedGrants`), and the scope map keeps the widest scope of what it was given.
* `CrowdsStaySmall`, for any limits, windows and sequence of requests in the order of
  time: a counter's window begins with one of the requests so far (`CountsFrom`), so
  in a period that begins with a request and is as long as a window, the window open
  then ends and at most one more begins; the request at the start has a place in the
  first. `Few` is the number let through in the four positions of the window.
  `Throttled` is a recursive function, and its induction is one over a set of numbers
  (`CountsUp`, from well-foundedness).

`PasswordsProofs`, for any requests, passwords and maximum of attempts
* `ChangesEndSessions`, `PreviousIsReplaced` and `SuspensionIsThorough` are
  inductive together with the types (`TypeCorrect`) and three facts about requests:
  counters are below the number of requests begun; a new password differs from
  the one its request saw (`NewDiffers`), which is what keeps `pw # prev` unless two
  requests bring the same one; and a transaction in `alone` has read the password that
  is still there (`AloneReads`), which every step that replaces the password keeps by
  emptying `alone`.
* `GuessesStayFew`: with two requests, `Room` is the most guesses still to come, from
  how far the row and what each request has read are from the lockout. The nearer one
  goes on to it, the other then sets the count back to one more than it had read, and
  both start there; the sum of 1 to the maximum is what that can go on for.

`TwoFactorProofs`, for any requests and maximum of attempts
* `EnabledIsProved`, `LeftoversComeLate` and `MaximumLocksOut` are inductive with
  the types (`TypeCorrect`). Every step of a request is one of a few shapes
  (`QuietStep`, `RemoveStep`, `CountStep`).
* `BackupCodesOpenOnce` needs `CodesFresh`: codes in the row have opened nothing,
  and a request that is about to make codes has a number that no code has yet.
* `EnforcementHolds`: only a set-up, recovery, and the administrator's acts switch
  the factor off while it is enforced (`TakesAway`).

What the proofs assume of the constants, besides that bounds (`MaxId`, `MaxLogged`,
`MaxBegun`, `MaxToken`, `MaxChanges`, `Horizon`, ...), limits and windows are numbers:
requests and cases are finitely many; the markers for "nothing" are no value of the
kind (`NoneIsNoCase`, `AbsentIsNoWalk`, `AbsentIsNoValues`, `NoneIsNoVersion`,
`NoneIsNoPassword`); subsets are subsets (`ActorsAreUsers`, `ChoicesAreRoles`,
`WatchedAreRoles`, `TrashedAreRows`); the initial password is one
(`FirstIsPassword`), the default title a title, and a grant's scope one that the code
ranks (`GrantsHaveScopes`). TLC evaluates each in a run.

Every safety property of the passing runs is proved. What stays with TLC:

* `EveryEntryEnds` and `StaleEnds`, liveness under fairness, which the prover does not
  reach;
* `BoundReached`, the half of `LessThanTwiceTheLimit` that says the bound is not
  larger than it must be: it asks for a sequence of requests and holds of the limits
  of the run;
* the two refuted claims (section 15), which are counterexamples and not theorems.

Induction over data is used nowhere: the library's induction theorems have an
operator as a parameter. Where a function is recursive or a fold (`Throttled`, the
sum of the counters), the induction is carried out over the set of its counterexamples
instead.

## 17. Not modelled

* Pub/sub and streams of `CacheService`: nothing in the repository subscribes
  through it, adds to a stream or reads one; `RbacService` has a subscriber of its
  own, which is in `RbacCache`.
* The process error handler, a latch around one call; the clean-up of expired
  sessions, which no scheduler calls.
* Configuration and its validation, logging, bootstrap, cookies, DTOs, view models,
  exception filters, interceptors, e-mail texts: decoding, validation and
  formatting without a protocol.
* The flat list of cases, the options a filter can take, and the table of filter
  definitions: single reads, or a lookup and an insert guarded by a unique key.
* The registry of seeders that have run.
* Cryptography: hashes, TOTP codes and signatures are taken to fit what they were
  made from; JWT lifetimes and IP checks are refusals without an effect.
