------------------------------- MODULE Access --------------------------------
(***************************************************************************)
(* Administration of roles and of the roles of users, behind the guards of *)
(* Endpoints (RolesService, UserRolesService, and the role part of         *)
(* UsersService and InvitationsService).  A request passes its guards and  *)
(* reads in one step and writes in a later one.  The guards do not see the *)
(* database: the actor's roles come from the cached session, the target's  *)
(* from the user-role cache, and nothing invalidates either when roles     *)
(* change.  The guard that looks at the roles a body names takes the ids   *)
(* that are numbers, and the handler those that can be read as numbers.    *)
(* A role stands for its name: names are unique, deleted roles included.   *)
(***************************************************************************)
EXTENDS Endpoints

CONSTANTS
  Users,
  Actors,      \* the users who send requests
  Roles,
  Choices,     \* the sets of roles a request may name
  GrantSets,   \* the sets of grants a request may give a role
  MaxChanges,  \* bound: writes begun
  None

ASSUME ActorsAreUsers == Actors \subseteq Users
ASSUME ChoicesAreRoles == Choices \subseteq SUBSET Roles
ASSUME ChangesBounded == MaxChanges \in Nat
ASSUME GrantsHaveScopes == \A gs \in GrantSets : \A g \in gs : g[3] \in DOMAIN ScopeLevel

VARIABLES
  role,      \* the row of each role
  grants,    \* its permissions
  exists,    \* the users with a row
  held,      \* the roles of each user: its rows in user_roles
  session,   \* the roles in the cached session of each actor
  cached,    \* the user-role cache of RoleHierarchyGuard
  req,       \* the write each actor's request is about to make
  begun,     \* history: writes begun
  founder,   \* history: the roles of each user at the start
  late,      \* history: pairs of a user and a role it was given too late
  unchecked  \* history: pairs of a user and a role it was given past the guard

history == <<founder, late, unchecked>>
vars == <<role, grants, exists, held, session, cached, req, begun, history>>

Idle == [pc |-> "idle"]

Requests ==
  {Idle}
    \cup [pc : {"assign", "invite"}, user : Users, target : SUBSET Roles, shown : SUBSET Roles,
          seen : SUBSET Roles]
    \cup [pc : {"update"}, role : Roles, grants : GrantSets]
    \cup [pc : {"remove"}, role : Roles]

Present == {r \in Roles : role[r] = "present"}

TypeOK ==
  /\ role \in [Roles -> {"absent", "present", "deleted"}]
  /\ DOMAIN grants = Roles
  /\ exists \in SUBSET Users
  /\ held \in [Users -> SUBSET Roles]
  /\ session \in [Actors -> SUBSET Roles]
  /\ cached \in [Users -> (SUBSET Roles) \cup {None}]
  /\ req \in [Actors -> Requests]
  /\ begun \in 0..MaxChanges
  /\ founder \in [Users -> SUBSET Roles]
  /\ late \in SUBSET (Users \X Roles)
  /\ unchecked \in SUBSET (Users \X Roles)

\* The seeder has run, and may have left any users with any roles.
Init ==
  /\ role = [r \in Roles |-> IF r \in BuiltIn THEN "present" ELSE "absent"]
  /\ grants = [r \in Roles |-> IF r \in BuiltIn THEN SeedGrants[r] ELSE {}]
  /\ \A r \in Roles \cap BuiltIn : SeederAccepts(r)
  /\ held \in [Users -> SUBSET Present]
  /\ exists \in SUBSET Users
  /\ Actors \subseteq exists
  /\ \A u \in Users \ exists : held[u] = {}
  /\ session = [a \in Actors |-> held[a]]
  /\ cached = [u \in Users |-> None]
  /\ req = [a \in Actors |-> Idle]
  /\ begun = 0
  /\ founder = held
  /\ late = {}
  /\ unchecked = {}

-----------------------------------------------------------------------------
(***************************************************************************)
(* Guards.                                                                 *)
(***************************************************************************)
Entries(roles) == {grants[r] : r \in roles}

SeenOf(u) == IF cached[u] = None THEN held[u] ELSE cached[u]

\* The request of a for endpoint e on user u passes the guards that look at them,
Passes(e, a, u) ==
  /\ PermissionsAllow(e, Entries(session[a]))
  /\ a # u => ScopeAllows(e, Entries(session[a]))
  /\ HierarchyAllows(e, session[a], IF a = u THEN {} ELSE SeenOf(u))
  /\ "notSelf" \in e.guards => a # u

\* and RoleEntityHierarchyGuard, of the roles whose ids it is shown.
Named(e, a, shown) == EntityAllows(e, session[a], shown \cap Present)

\* RoleHierarchyGuard.resolveTargetRole: a user without roles is not cached.
FillCache(u) ==
  cached' = IF cached[u] = None /\ held[u] # {} THEN [cached EXCEPT ![u] = held[u]] ELSE cached

Free(a) == req[a] = Idle /\ begun < MaxChanges

Begin(a, r) ==
  /\ begun' = begun + 1
  /\ req' = [req EXCEPT ![a] = r]

Finish(a) == req' = [req EXCEPT ![a] = Idle]

-----------------------------------------------------------------------------
(***************************************************************************)
(* The roles of a user.                                                    *)
(***************************************************************************)
\* The endpoints that replace the roles of an existing user.  All but
\* updateUser look the roles up, which finds none that is deleted.
Assigning == {"updateUser", "approveUser", "unrejectUser", "reactivateUser", "syncRoles",
              "syncInvitedRoles"}

AssignReads(a, e, u, target) ==
  /\ e.path \in Assigning
  /\ u \in exists
  /\ \A r \in target : role[r] # "absent"
  /\ e.path # "updateUser" => target \subseteq Present
  /\ target # held[u]
  /\ Free(a)
  /\ Passes(e, a, u)
  /\ \E shown \in SUBSET target :
       /\ Named(e, a, shown)
       /\ Begin(a, [pc |-> "assign", user |-> u, target |-> target, shown |-> shown, seen |-> held[u]])
  /\ FillCache(u)
  /\ UNCHANGED <<role, grants, exists, held, session, history>>

\* Of the roles given to u, those that are deleted or about to be.
LeftWith(u, roles) ==
  {u} \X {r \in roles : role[r] = "deleted" \/ \E b \in Actors : req[b] = [pc |-> "remove", role |-> r]}

\* One transaction: the roles to remove, then those to add, both as the
\* request saw them; a row that is there already is skipped.
AssignCommits(a) ==
  /\ req[a].pc = "assign"
  /\ LET u == req[a].user
         added == req[a].target \ req[a].seen
         removed == req[a].seen \ req[a].target
     IN /\ held' = [held EXCEPT ![u] = (@ \ removed) \cup added]
        /\ late' = late \cup LeftWith(u, added)
        /\ unchecked' = unchecked \cup ({u} \X (added \ req[a].shown))
  /\ Finish(a)
  /\ UNCHANGED <<role, grants, exists, session, cached, begun, founder>>

InviteReads(a, e, u, target) ==
  /\ e.path = "sendInvite"
  /\ u \notin exists
  /\ target \subseteq Present
  /\ Free(a)
  /\ Passes(e, a, u)
  /\ \E shown \in SUBSET target :
       /\ Named(e, a, shown)
       /\ Begin(a, [pc |-> "invite", user |-> u, target |-> target, shown |-> shown, seen |-> {}])
  /\ UNCHANGED <<role, grants, exists, held, session, cached, history>>

\* Fails on the unique email when another invitation was faster.
InviteCommits(a) ==
  /\ req[a].pc = "invite"
  /\ req[a].user \notin exists
  /\ exists' = exists \cup {req[a].user}
  /\ held' = [held EXCEPT ![req[a].user] = req[a].target]
  /\ late' = late \cup LeftWith(req[a].user, req[a].target)
  /\ unchecked' = unchecked \cup ({req[a].user} \X (req[a].target \ req[a].shown))
  /\ Finish(a)
  /\ UNCHANGED <<role, grants, session, cached, begun, founder>>

-----------------------------------------------------------------------------
(***************************************************************************)
(* Roles.                                                                  *)
(***************************************************************************)
\* RolesService.create: the name is looked up and, whatever the lookup saw,
\* unique in the table, so that only the insert counts.
CreateRole(a, e, r, g) ==
  /\ e.path = "createRole"
  /\ req[a] = Idle
  /\ role[r] = "absent"
  /\ Passes(e, a, a) /\ Named(e, a, {})
  /\ role' = [role EXCEPT ![r] = "present"]
  /\ grants' = [grants EXCEPT ![r] = g]
  /\ UNCHANGED <<exists, held, session, cached, req, begun, history>>

Changeable(r) == r \in Present \ BuiltIn

UpdateReads(a, e, r, g) ==
  /\ e.path = "updateRole"
  /\ Changeable(r)
  /\ Free(a)
  /\ Passes(e, a, a) /\ Named(e, a, {r})
  /\ Begin(a, [pc |-> "update", role |-> r, grants |-> g])
  /\ UNCHANGED <<role, grants, exists, held, session, cached, history>>

\* (mutant) The users who hold the role are not counted.
RemoveUncounted(a, e, r) ==
  /\ e.path = "removeRole"
  /\ Changeable(r)
  /\ Free(a)
  /\ Passes(e, a, a) /\ Named(e, a, {r})
  /\ Begin(a, [pc |-> "remove", role |-> r])
  /\ UNCHANGED <<role, grants, exists, held, session, cached, history>>

RemoveReads(a, e, r) ==
  /\ e.path = "removeRole"
  /\ Changeable(r)
  /\ \A u \in Users : r \notin held[u]
  /\ Free(a)
  /\ Passes(e, a, a) /\ Named(e, a, {r})
  /\ Begin(a, [pc |-> "remove", role |-> r])
  /\ UNCHANGED <<role, grants, exists, held, session, cached, history>>

\* updateWithPermissions: refused once the role is deleted.
UpdateCommits(a) ==
  /\ req[a].pc = "update"
  /\ role[req[a].role] = "present"
  /\ grants' = [grants EXCEPT ![req[a].role] = req[a].grants]
  /\ Finish(a)
  /\ UNCHANGED <<role, exists, held, session, cached, begun, history>>

\* softDelete: the role's permissions and assignments stay.
RemoveCommits(a) ==
  /\ req[a].pc = "remove"
  /\ role[req[a].role] = "present"
  /\ role' = [role EXCEPT ![req[a].role] = "deleted"]
  /\ Finish(a)
  /\ UNCHANGED <<grants, exists, held, session, cached, begun, history>>

RequestFails(a) ==
  /\ req[a] # Idle
  /\ Finish(a)
  /\ UNCHANGED <<role, grants, exists, held, session, cached, begun, history>>

-----------------------------------------------------------------------------
(***************************************************************************)
(* Caches.                                                                 *)
(***************************************************************************)
\* The cached session has expired, or was invalidated, and is read again.
SessionReloads(a) ==
  /\ session' = [session EXCEPT ![a] = held[a]]
  /\ UNCHANGED <<role, grants, exists, held, cached, req, begun, history>>

\* A request that the guards refuse still fills the cache.
TargetCached(u) ==
  /\ cached[u] = None
  /\ FillCache(u)
  /\ UNCHANGED <<role, grants, exists, held, session, req, begun, history>>

TargetExpires(u) ==
  /\ cached[u] # None
  /\ cached' = [cached EXCEPT ![u] = None]
  /\ UNCHANGED <<role, grants, exists, held, session, req, begun, history>>

-----------------------------------------------------------------------------
Step(a) ==
  \/ \E e \in UserEndpoints, u \in Users, target \in Choices :
       AssignReads(a, e, u, target) \/ InviteReads(a, e, u, target)
  \/ AssignCommits(a) \/ InviteCommits(a)
  \/ \E e \in RoleEndpoints, r \in Roles :
       \/ \E g \in GrantSets : CreateRole(a, e, r, g) \/ UpdateReads(a, e, r, g)
       \/ RemoveReads(a, e, r)
  \/ UpdateCommits(a) \/ RemoveCommits(a) \/ RequestFails(a)
  \/ SessionReloads(a)

Next ==
  \/ \E a \in Actors : Step(a)
  \/ \E u \in Users : TargetCached(u) \/ TargetExpires(u)

Spec == Init /\ [][Next]_vars

-----------------------------------------------------------------------------
(***************************************************************************)
(* Properties.                                                             *)
(***************************************************************************)
\* The roles a user has not got from the guards: those of the start, and those
\* whose ids the guard was not shown.
Roots(u) == founder[u] \cup {r \in Roles : <<u, r>> \in unchecked}

\* A root that warrants that r be given: a higher role or, for the owner's own
\* role, an owner.
Warranted(r) ==
  \E u \in Users : \E s \in Roots(u) :
    LevelOf(s) > LevelOf(r) \/ (s = "Owner" /\ r = "Owner")

\* Where the guard looks, levels only descend: whatever chain of grants led to
\* it, through stale sessions, stale cached roles, invitations and concurrent
\* syncs, a role that a user holds is a root of its own, or below a root of
\* somebody; only an owner makes an owner.
RolesDescend == \A u \in Users : \A r \in held[u] : r \in Roots(u) \/ Warranted(r)

\* A deleted role that somebody holds was given to it while its removal was
\* under way, or afterwards; every other removal leaves the role unused.
DeletedHeldAccountedFor ==
  \A u \in Users : \A r \in held[u] : role[r] = "deleted" => <<u, r>> \in late

\* The declarations of the endpoints that look at roles, whatever their path.
Declarations == {[e EXCEPT !.path = ""] :
                   e \in {f \in AllEndpoints : f.perms # {}}}

Needed == UNION {e.perms : e \in Declarations}

\* A session that gains roles loses nothing: every endpoint that was open
\* for it, against any target, stays open, and no handler sees a narrower
\* scope of rows.
MoreRolesOpenMore ==
  [][\A a \in Actors :
       session[a] \subseteq session'[a] /\ session[a] # session'[a] =>
         \A e \in Declarations :
           /\ ResolvedScope(e, Entries(session[a])) <= ResolvedScope(e, Entries(session'[a]))
           /\ PermissionsAllow(e, Entries(session[a])) => PermissionsAllow(e, Entries(session'[a]))
           /\ ScopeAllows(e, Entries(session[a])) => ScopeAllows(e, Entries(session'[a]))
           /\ \A roles \in SUBSET Roles :
                /\ HierarchyAllows(e, session[a], roles) => HierarchyAllows(e, session'[a], roles)
                /\ EntityAllows(e, session[a], roles) => EntityAllows(e, session'[a], roles)]_vars

\* The two ways in which handlers ask for a scope agree: a role allows an
\* action in a scope exactly when the effective scope reaches it.
ScopeAnswersAgree ==
  \A a \in Actors : \A p \in Needed :
    LET entries == Entries(session[a])
        effective == EffectiveScope(entries, p)
    IN \A s \in DOMAIN ScopeLevel :
         effective >= ScopeLevel[s] <=> \E g \in entries : EntryAllows(g, p, s)
=============================================================================
