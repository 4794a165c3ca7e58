----------------------------- MODULE AccessProofs -----------------------------
(***************************************************************************)
(* What administrators cannot do with roles, for any users, roles and       *)
(* choices, that the guards are monotone and agree with each other, for any *)
(* table of roles and grants, and what the throttler lets through, for any  *)
(* requests, limits and windows.                                            *)
(***************************************************************************)
EXTENDS Access, Throttling, FiniteSetTheorems, WellFoundedInduction, TLAPS

\* The roles of a request that the guard was shown have been found to be warranted;
\* what actors believe of themselves they hold or have held.
DescendingRequests ==
  /\ \A a \in Actors : \A r \in session[a] : r \in Roots(a) \/ Warranted(r)
  /\ \A a \in Actors :
       req[a].pc \in {"assign", "invite"} => \A r \in req[a].shown : Warranted(r)

\* Built-in roles are in the table, and nobody is about to remove one.
BuiltInStay ==
  /\ \A r \in Roles \cap BuiltIn : role[r] = "present"
  /\ \A a \in Actors : req[a].pc = "remove" => req[a].role \notin BuiltIn

\* Who holds a role that is about to be removed was given it too late.
RemovalsSeen ==
  \A a \in Actors, u \in Users :
    req[a].pc = "remove" /\ req[a].role \in held[u] => <<u, req[a].role>> \in late

Inv ==
  /\ TypeOK /\ RolesDescend /\ DescendingRequests /\ BuiltInStay
  /\ DeletedHeldAccountedFor /\ RemovalsSeen

USE ActorsAreUsers, ChoicesAreRoles, ChangesBounded

-----------------------------------------------------------------------------
\* The levels there are.
LEMMA Levels ==
  ASSUME NEW r
  PROVE  /\ LevelOf(r) \in {0, 50, 60, 70, 80, 90, 100}
         /\ LevelOf(r) = 100 <=> r = "Owner"
  BY DEF LevelOf, BuiltIn, SeedLevel

\* A set of roles has a highest one, and its rank is that role's level.
LEMMA RankReached ==
  ASSUME NEW X, X # {}
  PROVE  /\ \E m \in X : LevelOf(m) = Rank(X)
         /\ \A s \in X : LevelOf(s) <= Rank(X)
<1> DEFINE Top(m) == \A s \in X : LevelOf(s) <= LevelOf(m)
<1>1. \E m \in X : Top(m)
  <2>1. CASE \E m \in X : LevelOf(m) = 100
    BY <2>1, Levels
  <2>2. CASE (\A s \in X : LevelOf(s) # 100) /\ \E m \in X : LevelOf(m) = 90
    BY <2>2, Levels
  <2>3. CASE (\A s \in X : LevelOf(s) \notin {90, 100}) /\ \E m \in X : LevelOf(m) = 80
    BY <2>3, Levels
  <2>4. CASE (\A s \in X : LevelOf(s) \notin {80, 90, 100}) /\ \E m \in X : LevelOf(m) = 70
    BY <2>4, Levels
  <2>5. CASE (\A s \in X : LevelOf(s) \notin {70, 80, 90, 100}) /\ \E m \in X : LevelOf(m) = 60
    BY <2>5, Levels
  <2>6. CASE (\A s \in X : LevelOf(s) \in {0, 50}) /\ \E m \in X : LevelOf(m) = 50
    BY <2>6
  <2>7. CASE \A s \in X : LevelOf(s) = 0
    BY <2>7
  <2>8. QED
    BY <2>1, <2>2, <2>3, <2>4, <2>5, <2>6, <2>7, Levels
<1> DEFINE m == CHOOSE m \in X : Top(m)
<1>2. m \in X /\ Top(m)
  BY <1>1
<1>3. Rank(X) = LevelOf(m)
  BY DEF Rank
<1>4. QED
  BY <1>2, <1>3

\* The endpoints that give roles check the roles they name.
LEMMA GivingChecks ==
  ASSUME NEW e \in UserEndpoints, e.path \in Assigning \cup {"sendInvite"}
  PROVE  "entity" \in e.guards
<1>1. e \notin UserListEndpoints /\ e \notin TrashEndpoints /\ e \notin ProfileEndpoints
  BY DEF Assigning, UserListEndpoints, TrashEndpoints, ProfileEndpoints, Guarded, Signed, Endpoint
<1>2. e \notin RemovalEndpoints
  BY DEF Assigning, RemovalEndpoints, Administer, Guarded, Endpoint
<1>3. CASE e \in UserFieldEndpoints
  BY <1>3 DEF Assigning, UserFieldEndpoints, AssignRoles, Administer, Guarded, Endpoint
<1>4. CASE e \in RegistrationEndpoints
  BY <1>4 DEF Assigning, RegistrationEndpoints, AssignRoles, Administer, Guarded, Endpoint
<1>5. CASE e \in UserStatusEndpoints
  BY <1>5 DEF Assigning, UserStatusEndpoints, AssignRoles, Administer, Guarded, Endpoint
<1>6. CASE e \in UserRoleEndpoints
  BY <1>6 DEF Assigning, UserRoleEndpoints, AssignRoles, Guarded, Endpoint
<1>7. CASE e \in InvitationEndpoints
  BY <1>7 DEF Assigning, InvitationEndpoints, AssignRoles, Guarded, Public, Endpoint
<1>8. QED
  BY <1>1, <1>2, <1>3, <1>4, <1>5, <1>6, <1>7 DEF UserEndpoints

\* An actor who holds s, or could have been given it, warrants every lower role,
\* and an owner the owner's.
LEMMA LowerIsWarranted ==
  ASSUME Inv, NEW a \in Actors, NEW s \in session[a], NEW r,
         LevelOf(s) > LevelOf(r) \/ (s = "Owner" /\ r = "Owner")
  PROVE  Warranted(r)
<1>1. s \in Roots(a) \/ Warranted(s)
  BY DEF Inv, DescendingRequests
<1>2. CASE s \in Roots(a)
  BY <1>2 DEF Warranted
<1>3. CASE Warranted(s)
  <2>1. PICK u \in Users : \E t \in Roots(u) :
          LevelOf(t) > LevelOf(s) \/ (t = "Owner" /\ s = "Owner")
    BY <1>3 DEF Warranted
  <2>2. PICK t \in Roots(u) : LevelOf(t) > LevelOf(s) \/ (t = "Owner" /\ s = "Owner")
    BY <2>1
  <2>3. LevelOf(t) \in Nat /\ LevelOf(s) \in Nat /\ LevelOf(r) \in Nat
    BY Levels
  <2>4. LevelOf(t) > LevelOf(r) \/ (t = "Owner" /\ r = "Owner")
    BY <2>2, <2>3, Levels
  <2>5. QED
    BY <2>4 DEF Warranted
<1>4. QED
  BY <1>1, <1>2, <1>3

\* So the roles that the guard is shown and lets an actor name are warranted, found
\* or not.
LEMMA NamedAreWarranted ==
  ASSUME Inv, NEW a \in Actors, NEW e \in UserEndpoints, e.path \in Assigning \cup {"sendInvite"},
         NEW shown \in SUBSET Roles, \A r \in shown : role[r] # "absent",
         Named(e, a, shown),
         NEW r \in shown
  PROVE  Warranted(r)
<1> DEFINE X == session[a]
           forbidden == {t \in shown \cap Present : LevelOf(t) >= Rank(X)}
<1>1. /\ Rank(X) > 0
      /\ forbidden # {} => \A t \in forbidden : OwnerPeers(X, LevelOf(t))
  BY GivingChecks DEF Named, EntityAllows
<1>2. X # {}
  BY <1>1 DEF Rank
<1>3. PICK s \in X : LevelOf(s) = Rank(X)
  BY <1>2, RankReached
<1>4. LevelOf(s) \in Nat /\ LevelOf(r) \in Nat
  BY Levels
<1>5. CASE LevelOf(r) < Rank(X)
  BY <1>3, <1>4, <1>5, LowerIsWarranted
<1>6. CASE r \in forbidden
  <2>1. "Owner" \in X /\ LevelOf(r) = Rank(X)
    BY <1>1, <1>6 DEF OwnerPeers
  <2>2. 100 <= Rank(X)
    BY <1>2, <2>1, RankReached, Levels
  <2>3. r = "Owner"
    BY <2>1, <2>2, Levels
  <2>4. QED
    BY <2>1, <2>3, LowerIsWarranted
<1>7. CASE r \notin Present
  <2>1. r \notin BuiltIn
    BY <1>7 DEF Inv, BuiltInStay, Present
  <2>2. LevelOf(r) = 0
    BY <2>1 DEF LevelOf
  <2>3. QED
    BY <1>1, <1>3, <1>4, <2>2, LowerIsWarranted
<1>8. QED
  BY <1>3, <1>4, <1>5, <1>6, <1>7

-----------------------------------------------------------------------------
\* The seeder's roles and any assignment of them satisfy the invariant.
LEMMA InitInv == Init => Inv
<1> SUFFICES ASSUME Init PROVE Inv
  OBVIOUS
<1>1. held \in [Users -> SUBSET Roles] /\ \A u \in Users : held[u] \subseteq Present
  BY DEF Init, Present
<1>2. TypeOK
  <2>1. role \in [Roles -> {"absent", "present", "deleted"}]
    BY DEF Init
  <2>2. DOMAIN grants = Roles
    BY DEF Init
  <2>3. session \in [Actors -> SUBSET Roles] /\ cached \in [Users -> (SUBSET Roles) \cup {None}]
    BY <1>1 DEF Init
  <2>4. req \in [Actors -> Requests]
    BY DEF Init, Requests
  <2>5. /\ founder \in [Users -> SUBSET Roles] /\ begun \in 0..MaxChanges /\ late \in SUBSET (Users \X Roles)
        /\ unchecked \in SUBSET (Users \X Roles)
    BY <1>1 DEF Init
  <2>6. QED
    BY <1>1, <2>1, <2>2, <2>3, <2>4, <2>5 DEF Init, TypeOK
<1>3. RolesDescend /\ DescendingRequests
  BY DEF Init, RolesDescend, DescendingRequests, Roots, Idle
<1>4. BuiltInStay /\ RemovalsSeen
  BY DEF Init, BuiltInStay, RemovalsSeen, Idle
<1>5. DeletedHeldAccountedFor
  BY <1>1 DEF DeletedHeldAccountedFor, Present
<1>6. QED
  BY <1>2, <1>3, <1>4, <1>5 DEF Inv

-----------------------------------------------------------------------------
\* What the properties have in common: a step that changes neither the roles of
\* users nor the table, whose new request is one the invariant allows.
LEMMA QuietStep ==
  ASSUME Inv, UNCHANGED <<role, exists, held, history>>,
         DOMAIN grants' = Roles, begun' \in 0..MaxChanges,
         cached' \in [Users -> (SUBSET Roles) \cup {None}],
         NEW a \in Users, session' \in {session, [session EXCEPT ![a] = held[a]]},
         NEW r \in Requests, req' \in {req, [req EXCEPT ![a] = r]},
         r.pc \in {"assign", "invite"} => \A t \in r.shown : Warranted(t),
         r.pc = "remove" => /\ r.role \notin BuiltIn
                            /\ \A u \in Users : r.role \in held[u] => <<u, r.role>> \in late
  PROVE  Inv'
<1>1. /\ session \in [Actors -> SUBSET Roles] /\ req \in [Actors -> Requests]
      /\ held[a] \in SUBSET Roles
  BY DEF Inv, TypeOK
<1>2. \A b \in Actors : /\ req'[b] \in {req[b], r}
                        /\ session'[b] = session[b] \/ (b = a /\ session'[b] = held[b])
  BY <1>1
<1>3. TypeOK'
  <2>1. session' \in [Actors -> SUBSET Roles] /\ req' \in [Actors -> Requests]
    BY <1>1
  <2>2. QED
    BY <2>1 DEF Inv, TypeOK, history
<1>4. /\ \A t : Warranted(t)' <=> Warranted(t)
      /\ \A u : Roots(u)' = Roots(u)
  BY DEF Warranted, Roots, history
<1>5. RolesDescend' /\ DescendingRequests'
  BY <1>2, <1>4 DEF Inv, RolesDescend, DescendingRequests
<1>6. BuiltInStay' /\ DeletedHeldAccountedFor' /\ RemovalsSeen'
  BY <1>2 DEF history, Inv, BuiltInStay, DeletedHeldAccountedFor, RemovalsSeen
<1>7. QED
  BY <1>3, <1>5, <1>6 DEF Inv

\* The cache of the target's roles holds roles.
LEMMA FillType ==
  ASSUME Inv, NEW u \in Users, FillCache(u)
  PROVE  cached' \in [Users -> (SUBSET Roles) \cup {None}]
  BY DEF FillCache, Inv, TypeOK

LEMMA ReadsInv ==
  ASSUME Inv, NEW a \in Actors, NEW e \in UserEndpoints, NEW u \in Users, NEW target \in Choices,
         AssignReads(a, e, u, target) \/ InviteReads(a, e, u, target)
  PROVE  Inv'
<1>1. target \in SUBSET Roles /\ held[u] \in SUBSET Roles
  BY DEF Inv, TypeOK
<1>2. PICK shown \in SUBSET target, r \in Requests :
        /\ Named(e, a, shown)
        /\ r.pc \in {"assign", "invite"} /\ r.shown = shown
        /\ Begin(a, r)
  <2>1. CASE AssignReads(a, e, u, target)
    <3>1. PICK shown \in SUBSET target :
            /\ Named(e, a, shown)
            /\ Begin(a, [pc |-> "assign", user |-> u, target |-> target, shown |-> shown, seen |-> held[u]])
      BY <2>1 DEF AssignReads
    <3> DEFINE r == [pc |-> "assign", user |-> u, target |-> target, shown |-> shown, seen |-> held[u]]
    <3>2. r \in Requests /\ r.pc = "assign" /\ r.shown = shown
      BY <1>1 DEF Requests
    <3>3. QED
      BY <3>1, <3>2
  <2>2. CASE InviteReads(a, e, u, target)
    <3>1. PICK shown \in SUBSET target :
            /\ Named(e, a, shown)
            /\ Begin(a, [pc |-> "invite", user |-> u, target |-> target, shown |-> shown, seen |-> {}])
      BY <2>2 DEF InviteReads
    <3> DEFINE r == [pc |-> "invite", user |-> u, target |-> target, shown |-> shown, seen |-> {}]
    <3>2. r \in Requests /\ r.pc = "invite" /\ r.shown = shown
      BY <1>1 DEF Requests
    <3>3. QED
      BY <3>1, <3>2
  <2>3. QED
    BY <2>1, <2>2
<1>3. \A t \in shown : Warranted(t)
  <2>1. \A t \in shown : role[t] # "absent"
    BY DEF AssignReads, InviteReads, Present
  <2>2. e.path \in Assigning \cup {"sendInvite"}
    BY DEF AssignReads, InviteReads
  <2>3. QED
    BY <1>1, <1>2, <2>1, <2>2, NamedAreWarranted
<1>4. cached' \in [Users -> (SUBSET Roles) \cup {None}]
  BY FillType DEF AssignReads, InviteReads, Inv, TypeOK
<1>5. /\ UNCHANGED <<role, grants, exists, held, session, history>> /\ Free(a)
  BY DEF AssignReads, InviteReads
<1>6. begun' \in 0..MaxChanges /\ req' = [req EXCEPT ![a] = r]
  BY <1>2, <1>5 DEF Begin, Free, Inv, TypeOK
<1>7. DOMAIN grants' = Roles
  BY <1>5 DEF Inv, TypeOK
<1>8. QED
  BY <1>2, <1>3, <1>4, <1>5, <1>6, <1>7, QuietStep

\* An update of a role is begun.
LEMMA UpdateReadsInv ==
  ASSUME Inv, NEW a \in Actors, NEW e \in RoleEndpoints, NEW r \in Roles, NEW g \in GrantSets,
         UpdateReads(a, e, r, g)
  PROVE  Inv'
<1> DEFINE q == [pc |-> "update", role |-> r, grants |-> g]
<1>1. /\ q \in Requests
      /\ q.pc = "update"
  BY DEF Requests
<1>2. /\ UNCHANGED <<role, grants, exists, held, session, cached, history>>
      /\ begun' \in 0..MaxChanges
      /\ req' = [req EXCEPT ![a] = q]
  BY DEF UpdateReads, Begin, Free, Inv, TypeOK
<1>3. DOMAIN grants' = Roles /\ cached' \in [Users -> (SUBSET Roles) \cup {None}]
  BY <1>2 DEF Inv, TypeOK
<1> HIDE DEF q
<1>4. QED
  BY <1>1, <1>2, <1>3, QuietStep

\* The removal of a role is begun: nobody holds it.
LEMMA RemoveReadsInv ==
  ASSUME Inv, NEW a \in Actors, NEW e \in RoleEndpoints, NEW r \in Roles,
         RemoveReads(a, e, r)
  PROVE  Inv'
<1> DEFINE q == [pc |-> "remove", role |-> r]
<1>1. /\ q \in Requests
      /\ q.pc = "remove" /\ q.role = r
  BY DEF Requests
<1>2. /\ UNCHANGED <<role, grants, exists, held, session, cached, history>>
      /\ begun' \in 0..MaxChanges
      /\ req' = [req EXCEPT ![a] = q]
      /\ r \notin BuiltIn /\ \A u \in Users : r \notin held[u]
  BY DEF RemoveReads, Changeable, Begin, Free, Inv, TypeOK
<1>3. DOMAIN grants' = Roles /\ cached' \in [Users -> (SUBSET Roles) \cup {None}]
  BY <1>2 DEF Inv, TypeOK
<1> HIDE DEF q
<1>4. QED
  BY <1>1, <1>2, <1>3, QuietStep

LEMMA CreateInv ==
  ASSUME Inv, NEW a \in Actors, NEW e \in RoleEndpoints, NEW r \in Roles, NEW g \in GrantSets,
         CreateRole(a, e, r, g)
  PROVE  Inv'
<1>1. /\ role' = [role EXCEPT ![r] = "present"] /\ grants' = [grants EXCEPT ![r] = g]
      /\ role[r] = "absent"
      /\ UNCHANGED <<exists, held, session, cached, req, begun, history>>
  BY DEF CreateRole
<1>2. TypeOK'
  BY <1>1 DEF Inv, TypeOK, history
<1>3. \A s \in Roles : /\ role'[s] = "deleted" => role[s] = "deleted"
                       /\ role[s] = "present" => role'[s] = "present"
  BY <1>1 DEF Inv, TypeOK
<1>4. /\ \A t : Warranted(t)' <=> Warranted(t)
      /\ \A u : Roots(u)' = Roots(u)
  BY <1>1 DEF Warranted, Roots, history
<1>5. RolesDescend' /\ DescendingRequests'
  BY <1>1, <1>4 DEF Inv, RolesDescend, DescendingRequests
<1>6. BuiltInStay' /\ RemovalsSeen'
  BY <1>1, <1>3 DEF Inv, BuiltInStay, RemovalsSeen, history
<1>7. DeletedHeldAccountedFor'
  BY <1>1, <1>3 DEF Inv, TypeOK, DeletedHeldAccountedFor, history
<1>8. QED
  BY <1>2, <1>5, <1>6, <1>7 DEF Inv

-----------------------------------------------------------------------------
\* The roles of a user are written: what is added is warranted, and it is noted
\* when a role added is deleted or about to be.
LEMMA GiveInv ==
  ASSUME Inv, NEW a \in Actors, AssignCommits(a) \/ InviteCommits(a)
  PROVE  Inv'
<1> DEFINE q == req[a]
<1>1. q \in Requests /\ q.pc \in {"assign", "invite"}
  BY DEF AssignCommits, InviteCommits, Inv, TypeOK
<1>2. PICK u \in Users : /\ u = q.user /\ q.target \in SUBSET Roles
                         /\ \A r \in q.shown : Warranted(r)
  BY <1>1 DEF Requests, Inv, DescendingRequests, Idle
<1>3. PICK kept \in SUBSET held[u], added \in SUBSET q.target :
        /\ held' = [held EXCEPT ![u] = kept \cup added]
        /\ late' = late \cup LeftWith(u, added)
        /\ unchecked' = unchecked \cup ({u} \X (added \ q.shown))
  <2>1. CASE AssignCommits(a)
    BY <1>2, <2>1 DEF AssignCommits
  <2>2. CASE InviteCommits(a)
    <3>1. /\ held' = [held EXCEPT ![u] = {} \cup q.target] /\ late' = late \cup LeftWith(u, q.target)
          /\ unchecked' = unchecked \cup ({u} \X (q.target \ q.shown))
      BY <1>2, <2>2 DEF InviteCommits
    <3>2. {} \in SUBSET held[u] /\ q.target \in SUBSET q.target
      OBVIOUS
    <3>3. QED
      BY <3>1, <3>2
  <2>3. QED
    BY <2>1, <2>2
<1>4. /\ req' = [req EXCEPT ![a] = Idle] /\ exists' \in SUBSET Users
      /\ UNCHANGED <<role, grants, session, cached, begun, founder>>
  BY <1>2 DEF AssignCommits, InviteCommits, Finish, Inv, TypeOK
<1>5. \A v \in Users : \A r \in held'[v] : r \in held[v] \/ (v = u /\ r \in added)
  BY <1>3 DEF Inv, TypeOK
<1>6. TypeOK'
  <2>1. held' \in [Users -> SUBSET Roles]
    BY <1>2, <1>3 DEF Inv, TypeOK
  <2>2. req' \in [Actors -> Requests]
    BY <1>4 DEF Inv, TypeOK, Requests
  <2>3. late' \in SUBSET (Users \X Roles) /\ unchecked' \in SUBSET (Users \X Roles)
    BY <1>2, <1>3 DEF Inv, TypeOK, LeftWith
  <2>4. QED
    BY <1>4, <2>1, <2>2, <2>3 DEF Inv, TypeOK
<1>7. /\ \A v : Roots(v) \subseteq Roots(v)'
      /\ added \ q.shown \subseteq Roots(u)'
      /\ \A t : Warranted(t) => Warranted(t)'
  <2>1. \A v : Roots(v) \subseteq Roots(v)'
    BY <1>3, <1>4 DEF Roots
  <2>2. added \ q.shown \subseteq Roots(u)'
    BY <1>2, <1>3 DEF Roots
  <2>3. \A t : Warranted(t) => Warranted(t)'
    BY <2>1 DEF Warranted
  <2>4. QED
    BY <2>1, <2>2, <2>3
<1>8. RolesDescend'
  <2> SUFFICES ASSUME NEW v \in Users, NEW r \in held'[v]
               PROVE  r \in Roots(v)' \/ Warranted(r)'
    BY DEF RolesDescend
  <2>1. CASE r \in held[v]
    BY <1>7, <2>1 DEF Inv, RolesDescend
  <2>2. CASE v = u /\ r \in added
    BY <1>2, <1>7, <2>2
  <2>3. QED
    BY <1>5, <2>1, <2>2
<1>9. \A b \in Actors : req'[b] = req[b] \/ req'[b] = Idle
  BY <1>4 DEF Inv, TypeOK
<1>10. DescendingRequests' /\ BuiltInStay'
  BY <1>4, <1>7, <1>9 DEF Inv, DescendingRequests, BuiltInStay, Idle
<1>11. ASSUME NEW v \in Users, NEW r \in held'[v],
              role[r] = "deleted" \/ \E b \in Actors : req[b] = [pc |-> "remove", role |-> r]
       PROVE  <<v, r>> \in late' \/ r \in held[v]
  BY <1>3, <1>5, <1>11 DEF LeftWith
<1>12. DeletedHeldAccountedFor'
  BY <1>3, <1>4, <1>11 DEF Inv, DeletedHeldAccountedFor
<1>13. RemovalsSeen'
  <2> SUFFICES ASSUME NEW b \in Actors, NEW v \in Users,
                      req'[b].pc = "remove", req'[b].role \in held'[v]
               PROVE  <<v, req'[b].role>> \in late'
    BY DEF RemovalsSeen
  <2>1. req'[b] = req[b]
    BY <1>9 DEF Idle
  <2>2. req[b] = [pc |-> "remove", role |-> req[b].role]
    BY <2>1 DEF Inv, TypeOK, Requests, Idle
  <2>3. <<v, req[b].role>> \in late' \/ req[b].role \in held[v]
    BY <1>11, <2>1, <2>2
  <2>4. QED
    BY <1>3, <2>1, <2>3 DEF Inv, RemovalsSeen
<1>14. QED
  BY <1>6, <1>8, <1>10, <1>12, <1>13 DEF Inv

\* A role is changed.
LEMMA UpdateInv ==
  ASSUME Inv, NEW a \in Actors, UpdateCommits(a)
  PROVE  Inv'
<1>1. /\ UNCHANGED <<role, exists, held, session, cached, begun, history>>
      /\ DOMAIN grants' = Roles /\ req' = [req EXCEPT ![a] = Idle]
  BY DEF UpdateCommits, Finish, Inv, TypeOK
<1>2. Idle \in Requests /\ Idle.pc = "idle"
  BY DEF Requests, Idle
<1>3. begun' \in 0..MaxChanges /\ cached' \in [Users -> (SUBSET Roles) \cup {None}]
  BY <1>1 DEF Inv, TypeOK
<1>4. QED
  BY <1>1, <1>2, <1>3, QuietStep

\* A role is removed: those who hold it were given it too late.
LEMMA RemoveInv ==
  ASSUME Inv, NEW a \in Actors, RemoveCommits(a)
  PROVE  Inv'
<1> DEFINE r == req[a].role
<1>1. /\ role' = [role EXCEPT ![r] = "deleted"] /\ req[a].pc = "remove"
      /\ req' = [req EXCEPT ![a] = Idle]
      /\ UNCHANGED <<grants, exists, held, session, cached, begun, history>>
  BY DEF RemoveCommits, Finish
<1>2. \A b \in Actors : req'[b] = req[b] \/ req'[b] = Idle
  BY <1>1 DEF Inv, TypeOK
<1>3. \A s \in Roles : s # r => role'[s] = role[s]
  BY <1>1 DEF Inv, TypeOK
<1>4. TypeOK'
  <2>1. req' \in [Actors -> Requests]
    BY <1>1 DEF Inv, TypeOK, Requests
  <2>2. role' \in [Roles -> {"absent", "present", "deleted"}]
    BY <1>1 DEF Inv, TypeOK
  <2>3. QED
    BY <1>1, <2>1, <2>2 DEF Inv, TypeOK, history
<1>5. /\ \A t : Warranted(t)' <=> Warranted(t)
      /\ \A u : Roots(u)' = Roots(u)
  BY <1>1 DEF Warranted, Roots, history
<1>6. RolesDescend' /\ DescendingRequests'
  BY <1>1, <1>2, <1>5 DEF Inv, RolesDescend, DescendingRequests, Idle
<1>7. BuiltInStay' /\ RemovalsSeen'
  BY <1>1, <1>2, <1>3 DEF Inv, BuiltInStay, RemovalsSeen, Idle, history
<1>8. DeletedHeldAccountedFor'
  BY <1>1, <1>3 DEF Inv, TypeOK, DeletedHeldAccountedFor, RemovalsSeen, history
<1>9. QED
  BY <1>4, <1>6, <1>7, <1>8 DEF Inv

\* A request fails, or the session is read again.
LEMMA ActorInv ==
  ASSUME Inv, NEW a \in Actors, RequestFails(a) \/ SessionReloads(a)
  PROVE  Inv'
<1>1. Idle \in Requests /\ Idle.pc = "idle"
  BY DEF Requests, Idle
<1>2. /\ UNCHANGED <<role, grants, exists, held, cached, begun, history>>
      /\ session' \in {session, [session EXCEPT ![a] = held[a]]}
      /\ req' \in {req, [req EXCEPT ![a] = Idle]}
  BY DEF RequestFails, SessionReloads, Finish
<1>3. /\ DOMAIN grants' = Roles /\ begun' \in 0..MaxChanges
      /\ cached' \in [Users -> (SUBSET Roles) \cup {None}]
  BY <1>2 DEF Inv, TypeOK
<1>4. QED
  BY <1>1, <1>2, <1>3, QuietStep

\* The cache of a target's roles is filled or forgets.
LEMMA CacheInv ==
  ASSUME Inv, NEW u \in Users, TargetCached(u) \/ TargetExpires(u)
  PROVE  Inv'
<1>1. Idle \in Requests /\ Idle.pc = "idle"
  BY DEF Requests, Idle
<1>2. UNCHANGED <<role, grants, exists, held, session, req, begun, history>>
  BY DEF TargetCached, TargetExpires
<1>3. cached' \in [Users -> (SUBSET Roles) \cup {None}]
  <2>1. CASE TargetCached(u)
    BY <2>1, FillType DEF TargetCached
  <2>2. CASE TargetExpires(u)
    BY <2>2 DEF TargetExpires, Inv, TypeOK
  <2>3. QED
    BY <2>1, <2>2
<1>4. DOMAIN grants' = Roles /\ begun' \in 0..MaxChanges
  BY <1>2 DEF Inv, TypeOK
<1>5. QED
  BY <1>1, <1>2, <1>3, <1>4, QuietStep

-----------------------------------------------------------------------------
\* Inv is inductive.
LEMMA StepInv == Inv /\ [Next]_vars => Inv'
<1> SUFFICES ASSUME Inv, [Next]_vars PROVE Inv'
  OBVIOUS
<1>1. ASSUME NEW a \in Actors, Step(a) PROVE Inv'
  <2>1. ASSUME NEW e \in UserEndpoints, NEW u \in Users, NEW target \in Choices,
               AssignReads(a, e, u, target) \/ InviteReads(a, e, u, target)
        PROVE  Inv'
    BY <2>1, ReadsInv
  <2>2. ASSUME NEW e \in RoleEndpoints, NEW r \in Roles, NEW g \in GrantSets,
               CreateRole(a, e, r, g) \/ UpdateReads(a, e, r, g)
        PROVE  Inv'
    BY <2>2, CreateInv, UpdateReadsInv
  <2>3. ASSUME NEW e \in RoleEndpoints, NEW r \in Roles, RemoveReads(a, e, r)
        PROVE  Inv'
    BY <2>3, RemoveReadsInv
  <2>4. CASE AssignCommits(a) \/ InviteCommits(a)
    BY <2>4, GiveInv
  <2>5. CASE UpdateCommits(a) \/ RemoveCommits(a)
    BY <2>5, UpdateInv, RemoveInv
  <2>6. CASE RequestFails(a) \/ SessionReloads(a)
    BY <2>6, ActorInv
  <2>7. QED
    BY <1>1, <2>1, <2>2, <2>3, <2>4, <2>5, <2>6 DEF Step
<1>2. ASSUME NEW u \in Users, TargetCached(u) \/ TargetExpires(u) PROVE Inv'
  BY <1>2, CacheInv
<1>3. CASE UNCHANGED vars
  BY <1>3 DEF vars, history, Inv, TypeOK, RolesDescend, DescendingRequests, Warranted, Roots,
              BuiltInStay, DeletedHeldAccountedFor, RemovalsSeen
<1>4. QED
  BY <1>1, <1>2, <1>3 DEF Next

LEMMA AlwaysInv == Spec => []Inv
<1>1. QED
  BY InitInv, StepInv, PTL DEF Spec

\* The administration of roles is well typed.
THEOREM TypeCorrect == Spec => []TypeOK
<1>1. Inv => TypeOK
  BY DEF Inv
<1>2. QED
  BY <1>1, AlwaysInv, PTL

\* Through whatever chain of grants, outdated sessions and overlapping writes, a role
\* held is a root, one of the start or one whose id the guard was not shown, or one
\* that the holder of a root could give.
THEOREM RolesOnlyDescend == Spec => []RolesDescend
<1>1. Inv => RolesDescend
  BY DEF Inv
<1>2. QED
  BY <1>1, AlwaysInv, PTL

\* A deleted role is held only by who was given it during or after its removal.
THEOREM RemovalLeavesNobody == Spec => []DeletedHeldAccountedFor
<1>1. Inv => DeletedHeldAccountedFor
  BY DEF Inv
<1>2. QED
  BY <1>1, AlwaysInv, PTL

-----------------------------------------------------------------------------
(***************************************************************************)
(* Scopes and levels.  What the guards find is monotone in the roles of    *)
(* the session; both scope lookups depend on the same set of levels.       *)
(***************************************************************************)
Scopes == {"OWN", "ASSIGNED", "TEAM", "ALL"}

HaveScopes(S) == \A g \in S : g[3] \in Scopes

\* Every grant of every role has a scope there is.
ScopedGrants == \A r \in Roles : HaveScopes(grants[r])

LEMMA ScopeLevels ==
  /\ DOMAIN ScopeLevel = Scopes
  /\ \A s \in Scopes : ScopeLevel[s] \in 1..4
BY DEF ScopeLevel, Scopes

LEMMA SeedsScoped == \A r \in BuiltIn : HaveScopes(SeedGrants[r])
<1>1. \A g \in AdminGrants : g[3] = "ALL"
  BY DEF AdminGrants, All
<1>2. \A g \in ContractorGrants : g[3] \in Scopes
  BY DEF ContractorGrants, All, Scoped, Scopes
<1>3. \A g \in EmployeeGrants : g[3] \in Scopes
  BY <1>2 DEF EmployeeGrants, All, Scopes
<1>4. \A g \in AttorneyGrants : g[3] \in Scopes
  BY DEF AttorneyGrants, Scoped, Scopes
<1>5. \A g \in UserGrants : g[3] \in Scopes
  BY DEF UserGrants, Scoped, Scopes
<1>6. \A g \in {<<"*", "*", "ALL">>} : g[3] \in Scopes
  BY DEF Scopes
<1>7. QED
  BY <1>1, <1>2, <1>3, <1>4, <1>5, <1>6 DEF BuiltIn, SeedGrants, HaveScopes, Scopes

LEMMA Greatest ==
  ASSUME NEW S \in SUBSET (0..4), S # {}
  PROVE  LET m == CHOOSE n \in S : \A k \in S : k <= n
         IN m \in S /\ \A k \in S : k <= m
<1>1. \E n \in S : \A k \in S : k <= n
  <2>0. PICK z \in S : TRUE
    OBVIOUS
  <2>1. CASE 4 \in S
    BY <2>1
  <2>2. CASE 4 \notin S /\ 3 \in S
    BY <2>2
  <2>3. CASE S \subseteq {0, 1, 2} /\ 2 \in S
    BY <2>3
  <2>4. CASE S \subseteq {0, 1} /\ 1 \in S
    BY <2>4
  <2>5. CASE S \subseteq {0}
    BY <2>0, <2>5
  <2>6. QED
    BY <2>1, <2>2, <2>3, <2>4, <2>5
<1>2. QED
  BY <1>1

\* The levels at which some role of a session allows p.
LevelsFor(entries, p) ==
  UNION {{ScopeLevel[s] : s \in ScopesOf(g, p)} : g \in {h \in entries : TrieHas(h, p)}}

ScopedEntries(entries) == \A g \in entries : HaveScopes(g)

LEMMA LevelsBounded ==
  ASSUME NEW entries, ScopedEntries(entries), NEW p
  PROVE  LevelsFor(entries, p) \in SUBSET (1..4)
<1>1. ASSUME NEW g \in entries, NEW s \in ScopesOf(g, p) PROVE s \in Scopes
  BY <1>1 DEF ScopesOf, ScopesIn, ScopedEntries, HaveScopes
<1>2. QED
  BY <1>1, ScopeLevels DEF LevelsFor

\* The effective scope reaches a level exactly when some role's does.
LEMMA EffectiveReaches ==
  ASSUME NEW entries, ScopedEntries(entries), NEW p
  PROVE  /\ EffectiveScope(entries, p) \in 0..4
         /\ \A n \in 1..4 : EffectiveScope(entries, p) >= n
                              <=> \E m \in LevelsFor(entries, p) : m >= n
<1> DEFINE L == LevelsFor(entries, p)
           top == CHOOSE n \in L : \A m \in L : m <= n
<1>1. EffectiveScope(entries, p) = IF L = {} THEN 0 ELSE top
  BY DEF EffectiveScope, LevelsFor
<1>2. L \in SUBSET (1..4) /\ L \in SUBSET (0..4)
  BY LevelsBounded
<1>3. L # {} => top \in L /\ \A m \in L : m <= top
  BY <1>2, Greatest
<1> HIDE DEF L, top
<1>4. CASE L = {}
  BY <1>1, <1>4 DEF L
<1>5. CASE L # {}
  <2>1. EffectiveScope(entries, p) = top /\ top \in 1..4
    BY <1>1, <1>2, <1>3, <1>5
  <2>2. ASSUME NEW n \in 1..4 PROVE top >= n <=> \E m \in L : m >= n
    BY <1>2, <1>3, <1>5, <2>1
  <2>3. QED
    BY <2>1, <2>2 DEF L
<1>6. QED
  BY <1>4, <1>5

LEMMA EntryReaches ==
  ASSUME NEW entries, ScopedEntries(entries), NEW p, NEW s \in Scopes
  PROVE  (\E g \in entries : EntryAllows(g, p, s))
           <=> \E m \in LevelsFor(entries, p) : m >= ScopeLevel[s]
BY DEF EntryAllows, LevelsFor

\* A session's roles that gain others: an entry set that grows.
LEMMA ScopeWidens ==
  ASSUME NEW X, NEW Y, X \subseteq Y, ScopedEntries(Y), NEW p
  PROVE  EffectiveScope(X, p) <= EffectiveScope(Y, p)
<1>1. ScopedEntries(X) /\ LevelsFor(X, p) \subseteq LevelsFor(Y, p)
  BY DEF ScopedEntries, LevelsFor
<1>2. /\ EffectiveScope(X, p) \in 0..4 /\ EffectiveScope(Y, p) \in 0..4
      /\ \A n \in 1..4 : EffectiveScope(X, p) >= n <=> \E m \in LevelsFor(X, p) : m >= n
      /\ \A n \in 1..4 : EffectiveScope(Y, p) >= n <=> \E m \in LevelsFor(Y, p) : m >= n
  BY <1>1, EffectiveReaches
<1>3. \A n \in 1..4 : EffectiveScope(X, p) >= n => EffectiveScope(Y, p) >= n
  BY <1>1, <1>2
<1>4. CASE EffectiveScope(X, p) = 0
  BY <1>2, <1>4
<1>5. CASE EffectiveScope(X, p) \in 1..4
  BY <1>2, <1>3, <1>5
<1>6. QED
  BY <1>2, <1>4, <1>5

LEMMA ResolvedWidens ==
  ASSUME NEW X, NEW Y, X \subseteq Y, ScopedEntries(Y), NEW e
  PROVE  ResolvedScope(e, X) <= ResolvedScope(e, Y)
<1> DEFINE SX == {EffectiveScope(X, p) : p \in e.perms}
           SY == {EffectiveScope(Y, p) : p \in e.perms}
           mx == CHOOSE n \in SX : \A m \in SX : m <= n
           my == CHOOSE n \in SY : \A m \in SY : m <= n
<1>1. ScopedEntries(X)
  BY DEF ScopedEntries
<1>2. SX \in SUBSET (0..4) /\ SY \in SUBSET (0..4)
  BY <1>1, EffectiveReaches
<1>3. /\ ResolvedScope(e, X) = IF SX = {} THEN 0 ELSE mx
      /\ ResolvedScope(e, Y) = IF SY = {} THEN 0 ELSE my
  BY DEF ResolvedScope
<1>4. SX # {} => mx \in SX
  BY <1>2, Greatest
<1>5. SY # {} => my \in SY /\ \A m \in SY : m <= my
  BY <1>2, Greatest
<1>6. \A m \in SX : \E n \in SY : m <= n
  BY ScopeWidens
<1>7. (SX = {}) <=> (SY = {})
  OBVIOUS
<1> HIDE DEF SX, SY, mx, my
<1>8. CASE SX = {}
  BY <1>3, <1>7, <1>8
<1>9. CASE SX # {}
  <2>1. mx \in SX /\ my \in SY /\ \A m \in SY : m <= my
    BY <1>4, <1>5, <1>7, <1>9
  <2>2. PICK n \in SY : mx <= n
    BY <1>6, <2>1
  <2>3. mx \in 0..4 /\ my \in 0..4 /\ n \in 0..4 /\ n <= my
    BY <1>2, <2>1, <2>2
  <2>4. QED
    BY <1>3, <1>7, <1>9, <2>2, <2>3
<1>10. QED
  BY <1>8, <1>9

LEMMA RankRises ==
  ASSUME NEW X, NEW Y, X \subseteq Y
  PROVE  /\ Rank(X) \in 0..100 /\ Rank(Y) \in 0..100 /\ Rank(X) <= Rank(Y)
         /\ "Owner" \in X => Rank(X) = 100 /\ Rank(Y) = 100
<1>1. ASSUME NEW Z PROVE /\ Rank(Z) \in 0..100
                         /\ \A s \in Z : LevelOf(s) <= Rank(Z)
                         /\ "Owner" \in Z => Rank(Z) = 100
  <2>1. CASE Z = {}
    BY <2>1 DEF Rank
  <2>2. CASE Z # {}
    <3>1. PICK m \in Z : LevelOf(m) = Rank(Z)
      BY <2>2, RankReached
    <3>2. \A s \in Z : LevelOf(s) <= Rank(Z)
      BY <2>2, RankReached
    <3>3. LevelOf(m) \in 0..100 /\ LevelOf("Owner") = 100
      BY Levels
    <3>4. QED
      BY <3>1, <3>2, <3>3
  <2>3. QED
    BY <2>1, <2>2
<1>2. CASE X = {}
  <2>1. Rank(X) = 0
    BY <1>2 DEF Rank
  <2>2. QED
    BY <1>1, <1>2, <2>1
<1>3. CASE X # {}
  <2>1. PICK m \in X : LevelOf(m) = Rank(X)
    BY <1>3, RankReached
  <2>2. LevelOf(m) <= Rank(Y)
    BY <1>1, <2>1
  <2>3. QED
    BY <1>1, <2>1, <2>2
<1>4. QED
  BY <1>2, <1>3

LEMMA HierarchyOpens ==
  ASSUME NEW X, NEW Y, X \subseteq Y, NEW e, NEW roles, HierarchyAllows(e, X, roles)
  PROVE  HierarchyAllows(e, Y, roles)
<1>1. /\ Rank(X) \in 0..100 /\ Rank(Y) \in 0..100 /\ Rank(X) <= Rank(Y)
      /\ "Owner" \in X => Rank(X) = 100 /\ Rank(Y) = 100
  BY RankRises
<1>2. Rank(roles) \in 0..100
  BY RankRises
<1>3. QED
  BY <1>1, <1>2 DEF HierarchyAllows, OwnerPeers

LEMMA EntityOpens ==
  ASSUME NEW X, NEW Y, X \subseteq Y, NEW e, NEW roles, EntityAllows(e, X, roles)
  PROVE  EntityAllows(e, Y, roles)
<1>1. /\ Rank(X) \in 0..100 /\ Rank(Y) \in 0..100 /\ Rank(X) <= Rank(Y)
      /\ "Owner" \in X => Rank(X) = 100 /\ Rank(Y) = 100
  BY RankRises
<1>2. SUFFICES ASSUME "entity" \in e.guards
               PROVE  /\ Rank(Y) > 0
                      /\ \A r \in roles : LevelOf(r) >= Rank(Y) => OwnerPeers(Y, LevelOf(r))
  BY DEF EntityAllows
<1>3. Rank(X) > 0 /\ \A r \in roles : LevelOf(r) >= Rank(X) => OwnerPeers(X, LevelOf(r))
  BY <1>2 DEF EntityAllows
<1>4. ASSUME NEW r \in roles, LevelOf(r) >= Rank(Y) PROVE OwnerPeers(Y, LevelOf(r))
  <2>1. LevelOf(r) \in Nat
    BY Levels
  <2>2. OwnerPeers(X, LevelOf(r))
    BY <1>1, <1>3, <1>4, <2>1
  <2>3. QED
    BY <1>1, <2>2 DEF OwnerPeers
<1>5. QED
  BY <1>1, <1>3, <1>4

LEMMA InitScoped == Init => ScopedGrants
BY SeedsScoped DEF Init, ScopedGrants, HaveScopes

LEMMA StepScoped == Inv /\ ScopedGrants /\ [Next]_vars => ScopedGrants'
<1> SUFFICES ASSUME Inv, ScopedGrants, [Next]_vars PROVE ScopedGrants'
  OBVIOUS
<1>1. DOMAIN grants = Roles
  BY DEF Inv, TypeOK
<1>2. ASSUME NEW r \in Roles, NEW g \in GrantSets, grants' = [grants EXCEPT ![r] = g]
      PROVE  ScopedGrants'
  <2>1. HaveScopes(g)
    BY GrantsHaveScopes, ScopeLevels DEF HaveScopes
  <2>2. QED
    BY <1>1, <1>2, <2>1 DEF ScopedGrants
<1>3. ASSUME grants' = grants PROVE ScopedGrants'
  BY <1>3 DEF ScopedGrants
<1>4. ASSUME NEW a \in Actors, Step(a) PROVE ScopedGrants'
  <2>1. ASSUME NEW e \in RoleEndpoints, NEW r \in Roles, NEW g \in GrantSets,
               CreateRole(a, e, r, g) \/ UpdateReads(a, e, r, g)
        PROVE  ScopedGrants'
    BY <1>2, <1>3, <2>1 DEF CreateRole, UpdateReads
  <2>2. CASE UpdateCommits(a)
    <3>1. req[a] \in Requests /\ req[a].pc = "update"
      BY <2>2 DEF UpdateCommits, Inv, TypeOK
    <3>2. req[a].role \in Roles /\ req[a].grants \in GrantSets
      BY <3>1 DEF Requests, Idle
    <3>3. QED
      BY <1>2, <2>2, <3>2 DEF UpdateCommits
  <2>3. CASE ~ UpdateCommits(a)
    BY <1>3, <1>4, <2>1, <2>3 DEF Step, AssignReads, InviteReads, AssignCommits, InviteCommits,
                                  RemoveReads, RemoveCommits, RequestFails, SessionReloads
  <2>4. QED
    BY <2>2, <2>3
<1>5. CASE UNCHANGED vars
  BY <1>3, <1>5 DEF vars
<1>6. ASSUME NEW u \in Users, TargetCached(u) \/ TargetExpires(u) PROVE ScopedGrants'
  BY <1>3, <1>6 DEF TargetCached, TargetExpires
<1>7. QED
  BY <1>4, <1>5, <1>6 DEF Next

LEMMA AlwaysScoped == Spec => [](Inv /\ ScopedGrants)
<1>1. QED
  BY InitInv, InitScoped, StepInv, StepScoped, PTL DEF Spec

\* The two scope lookups agree for every role table, not only the seeded one.
THEOREM LookupsAgree == Spec => []ScopeAnswersAgree
<1>1. Inv /\ ScopedGrants => ScopeAnswersAgree
  <2> SUFFICES ASSUME Inv, ScopedGrants, NEW a \in Actors, NEW p \in Needed, NEW s \in Scopes
               PROVE  EffectiveScope(Entries(session[a]), p) >= ScopeLevel[s]
                        <=> \E g \in Entries(session[a]) : EntryAllows(g, p, s)
    BY ScopeLevels DEF ScopeAnswersAgree
  <2> DEFINE X == Entries(session[a])
  <2>1. ScopedEntries(X)
    BY DEF Inv, TypeOK, ScopedGrants, ScopedEntries, Entries
  <2>2. ScopeLevel[s] \in 1..4
    BY ScopeLevels
  <2> HIDE DEF X
  <2>3. EffectiveScope(X, p) >= ScopeLevel[s] <=> \E g \in X : EntryAllows(g, p, s)
    BY <2>1, <2>2, EffectiveReaches, EntryReaches
  <2>4. QED
    BY <2>3 DEF X
<1>2. QED
  BY <1>1, AlwaysScoped, PTL

\* A session that gains roles keeps every endpoint and every target it had.
THEOREM GainingOpens == Spec => MoreRolesOpenMore
<1>1. ASSUME Inv, Inv', ScopedGrants, NEW a \in Actors, session[a] \subseteq session'[a], NEW e
      PROVE  /\ ResolvedScope(e, Entries(session[a])) <= ResolvedScope(e, Entries(session'[a]))
             /\ PermissionsAllow(e, Entries(session[a])) => PermissionsAllow(e, Entries(session'[a]))
             /\ ScopeAllows(e, Entries(session[a])) => ScopeAllows(e, Entries(session'[a]))
             /\ \A roles \in SUBSET Roles :
                  /\ HierarchyAllows(e, session[a], roles) => HierarchyAllows(e, session'[a], roles)
                  /\ EntityAllows(e, session[a], roles) => EntityAllows(e, session'[a], roles)
  <2> DEFINE X == Entries(session[a])
             Y == Entries(session'[a])
  <2>1. X \subseteq Y
    BY <1>1 DEF Entries
  <2>2. ScopedEntries(Y)
    BY <1>1 DEF Inv, TypeOK, ScopedGrants, ScopedEntries, Entries
  <2> HIDE DEF X, Y
  <2>3. ResolvedScope(e, X) <= ResolvedScope(e, Y)
    BY <2>1, <2>2, ResolvedWidens
  <2>4. /\ PermissionsAllow(e, X) => PermissionsAllow(e, Y)
        /\ ScopeAllows(e, X) => ScopeAllows(e, Y)
    BY <2>1 DEF PermissionsAllow, ScopeAllows
  <2>5. QED
    BY <1>1, <2>3, <2>4, HierarchyOpens, EntityOpens DEF X, Y
<1>2. Inv /\ Inv' /\ ScopedGrants /\ [Next]_vars
        => [\A a \in Actors :
              session[a] \subseteq session'[a] /\ session[a] # session'[a] =>
                \A e \in Declarations :
                  /\ ResolvedScope(e, Entries(session[a])) <= ResolvedScope(e, Entries(session'[a]))
                  /\ PermissionsAllow(e, Entries(session[a])) => PermissionsAllow(e, Entries(session'[a]))
                  /\ ScopeAllows(e, Entries(session[a])) => ScopeAllows(e, Entries(session'[a]))
                  /\ \A roles \in SUBSET Roles :
                       /\ HierarchyAllows(e, session[a], roles) => HierarchyAllows(e, session'[a], roles)
                       /\ EntityAllows(e, session[a], roles) => EntityAllows(e, session'[a], roles)]_vars
  BY <1>1
<1>3. QED
  BY <1>2, AlwaysScoped, StepInv, PTL DEF Spec, MoreRolesOpenMore

-----------------------------------------------------------------------------
(* What the throttler lets through *)

\* What is said of 0 and goes on from each number to the next holds of all: N is the
\* set of the numbers it holds of.
LEMMA CountsUp ==
  ASSUME NEW N, 0 \in N, \A n \in Nat : n \in N => n + 1 \in N, NEW k \in Nat
  PROVE  k \in N
  <1> DEFINE F == Nat \ N
  <1> SUFFICES ASSUME k \notin N PROVE FALSE
    OBVIOUS
  <1>1. PICK m \in F : \A i \in F : ~ (<<i, m>> \in OpToRel(<, Nat))
    <2>1. F # {} /\ F \subseteq Nat
      OBVIOUS
    <2> HIDE DEF F
    <2> QED
      BY <2>1, NatLessThanWellFounded, WFMin
  <1>2. m \in Nat /\ m # 0 /\ m - 1 \in Nat /\ m - 1 \notin N
    <2>1. m # 0 /\ m - 1 \in Nat /\ m - 1 + 1 = m
      OBVIOUS
    <2> QED
      BY <2>1
  <1>3. m - 1 \in F /\ <<m - 1, m>> \in OpToRel(<, Nat)
    BY <1>2 DEF OpToRel
  <1> QED
    BY <1>1, <1>3

\* f is what happens up to the n-th request.
Runs(requests, n, f) ==
  f = [k \in 0..n |-> IF k = 0 THEN [counters |-> <<>>, passed |-> TRUE]
                              ELSE Throttle(requests[k], f[k - 1].counters)]

LEMMA RunsStep ==
  ASSUME NEW requests, NEW n \in Nat, NEW f, Runs(requests, n, f), NEW k \in 0..n
  PROVE  f[k] = IF k = 0 THEN [counters |-> <<>>, passed |-> TRUE]
                         ELSE Throttle(requests[k], f[k - 1].counters)
  BY DEF Runs

LEMMA RunsExtend ==
  ASSUME NEW requests, NEW n \in Nat, NEW f, Runs(requests, n, f)
  PROVE  \E g : Runs(requests, n + 1, g)
  <1> DEFINE last == Throttle(requests[n + 1], f[n].counters)
             g == [k \in 0..n + 1 |-> IF k = n + 1 THEN last ELSE f[k]]
  <1>1. ASSUME NEW k \in 0..n + 1
        PROVE  g[k] = IF k = 0 THEN [counters |-> <<>>, passed |-> TRUE]
                               ELSE Throttle(requests[k], g[k - 1].counters)
    <2>1. CASE k = n + 1
      <3>1. g[k] = last /\ k # 0 /\ k - 1 = n /\ g[k - 1] = f[n]
        BY <2>1
      <3> HIDE DEF g
      <3> QED
        BY <2>1, <3>1
    <2>2. CASE k # n + 1
      <3>1. k \in 0..n /\ g[k] = f[k] /\ (k # 0 => g[k - 1] = f[k - 1])
        BY <2>2
      <3> HIDE DEF g
      <3>2. f[k] = IF k = 0 THEN [counters |-> <<>>, passed |-> TRUE]
                            ELSE Throttle(requests[k], f[k - 1].counters)
        <4>1. k \in 0..n
          BY <3>1
        <4> HIDE DEF last
        <4> QED
          BY <4>1, RunsStep, Zenon
      <3>3. CASE k = 0
        BY <3>1, <3>2, <3>3
      <3>4. CASE k # 0
        BY <3>1, <3>2, <3>4
      <3> QED
        BY <3>3, <3>4
    <2> QED
      BY <2>1, <2>2
  <1>2. Runs(requests, n + 1, g)
    <2>1. \E v : g = [k \in 0..n + 1 |-> v[k]]
      OBVIOUS
    <2> HIDE DEF g
    <2> QED
      BY <1>1, <2>1 DEF Runs
  <1> HIDE DEF g
  <1> QED
    BY <1>2

LEMMA RunsExist ==
  ASSUME NEW requests, NEW n \in Nat
  PROVE  \E f : Runs(requests, n, f)
  <1> DEFINE N == {k \in Nat : \E f : Runs(requests, k, f)}
  <1>1. 0 \in N
    <2> DEFINE f == [k \in 0..0 |-> [counters |-> <<>>, passed |-> TRUE]]
    <2>1. Runs(requests, 0, f)
      BY DEF Runs
    <2> QED
      BY <2>1
  <1>2. \A k \in Nat : k \in N => k + 1 \in N
    BY RunsExtend
  <1>3. n \in N
    <2> HIDE DEF N
    <2> QED
      BY <1>1, <1>2, CountsUp
  <1> QED
    BY <1>3

\* Every request finds the counters as the one before left them.
LEMMA OneByOne ==
  ASSUME NEW requests, Len(requests) \in Nat
  PROVE  /\ Throttled(requests)[0].counters = <<>>
         /\ \A k \in 1..Len(requests) :
              Throttled(requests)[k] = Throttle(requests[k], Throttled(requests)[k - 1].counters)
  <1> DEFINE n == Len(requests)
             f == Throttled(requests)
  <1>1. f = CHOOSE g : Runs(requests, n, g)
    BY DEF Throttled, Runs
  <1> HIDE DEF f, n
  <1>2. Runs(requests, n, f)
    BY <1>1, RunsExist DEF n
  <1>3. f[0] = [counters |-> <<>>, passed |-> TRUE]
    <2>1. 0 \in 0..n
      BY DEF n
    <2> QED
      BY <1>2, <2>1, RunsStep DEF n
  <1>4. ASSUME NEW k \in 1..n PROVE f[k] = Throttle(requests[k], f[k - 1].counters)
    <2>1. k \in 0..n /\ k # 0
      BY DEF n
    <2> QED
      BY <1>2, <2>1, RunsStep DEF n
  <1> QED
    BY <1>3, <1>4 DEF f, n

-----------------------------------------------------------------------------
(* One bucket *)

Request(Ips) == [to : AllEndpoints, ip : Ips, up : BOOLEAN, at : Nat]
InOrder(requests) == \A j, k \in DOMAIN requests : j <= k => requests[j].at <= requests[k].at

\* No endpoint has the name of a tier: the buckets of the tier "global" are none
\* of the others.
LEMMA NamesDiffer == \A e \in AllEndpoints : e.path \notin Tiers
  <1>1. \A e \in AuthEndpoints : e.path \notin Tiers
    BY DEF AuthEndpoints, SignInEndpoints, RecoveryEndpoints, RefreshEndpoint, LogoutEndpoint,
           ForgotPasswordEndpoints, SetPasswordEndpoints, ChangePasswordEndpoint,
           TwoFactorEndpoints, SessionEndpoints, TrustedDeviceEndpoints, Public, Signed,
           Skipping, Endpoint, Tiers
  <1>2. \A e \in UserListEndpoints \cup TrashEndpoints \cup ProfileEndpoints :
          e.path \notin Tiers
    BY DEF UserListEndpoints, TrashEndpoints, ProfileEndpoints, Guarded, Signed, Endpoint, Tiers
  <1>3. \A e \in UserFieldEndpoints \cup RegistrationEndpoints \cup UserStatusEndpoints
                   \cup RemovalEndpoints : e.path \notin Tiers
    BY DEF UserFieldEndpoints, RegistrationEndpoints, UserStatusEndpoints, RemovalEndpoints,
           Administer, AssignRoles, Guarded, Endpoint, Tiers
  <1>4. \A e \in UserRoleEndpoints \cup InvitationEndpoints : e.path \notin Tiers
    BY DEF UserRoleEndpoints, InvitationEndpoints, AssignRoles, Guarded, Public, Endpoint, Tiers
  <1>5. \A e \in RoleEndpoints \cup PermissionEndpoints \cup StageEndpoints : e.path \notin Tiers
    BY DEF RoleEndpoints, PermissionEndpoints, StageEndpoints, Guarded, Endpoint, Tiers
  <1>6. \A e \in CaseReadEndpoints \cup CaseSearchEndpoints \cup CaseWriteEndpoints :
          e.path \notin Tiers
    BY DEF CaseReadEndpoints, CaseSearchEndpoints, CaseWriteEndpoints, Signed, Endpoint, Tiers
  <1>7. \A e \in FilterEndpoints \cup HealthEndpoints \cup AppEndpoints : e.path \notin Tiers
    BY DEF FilterEndpoints, HealthEndpoints, AppEndpoints, Signed, Public, Endpoint, Tiers
  <1> QED
    BY <1>1, <1>2, <1>3, <1>4, <1>5, <1>6, <1>7 DEF AllEndpoints, UserEndpoints

LEMMA TierIsATier == \A e : Tier(e) \in Tiers
  BY DEF Tier, Tiers

\* Requests that share a bucket are of one tier.
LEMMA OneTier ==
  ASSUME NEW Ips, NEW r \in Request(Ips), NEW s \in Request(Ips), Bucket(r) = Bucket(s)
  PROVE  Tier(r.to) = Tier(s.to)
  <1>1. r.to.path \notin Tiers /\ s.to.path \notin Tiers
    BY NamesDiffer DEF Request
  <1>2. Tier(r.to) \in Tiers /\ Tier(s.to) \in Tiers
    BY TierIsATier
  <1> QED
    BY <1>1, <1>2 DEF Bucket

LEMMA TogetherShares ==
  ASSUME NEW requests, NEW i, NEW j, Together(requests, i, j)
  PROVE  Counted(requests[j]) /\ Bucket(requests[j]) = Bucket(requests[i])
  BY DEF Together, Bucket

\* What a request does to the counter of bucket b, of tier t.
LEMMA CounterStep ==
  ASSUME NEW Ips, NEW r \in Request(Ips), NEW s \in Request(Ips), NEW counters
  PROVE  LET b == Bucket(s)
             t == Tier(s.to)
             next == Throttle(r, counters)
             old == IF b \in DOMAIN counters THEN counters[b] ELSE NoCounter
             new == Increment(old, r.at, TierTtl[t])
         IN IF Counted(r) /\ Bucket(r) = b
            THEN /\ b \in DOMAIN next.counters /\ next.counters[b] = new
                 /\ next.passed <=> new.hits <= TierLimit[t]
            ELSE /\ b \in DOMAIN next.counters <=> b \in DOMAIN counters
                 /\ b \in DOMAIN counters => next.counters[b] = counters[b]
  <1> DEFINE b == Bucket(s)
             t == Tier(s.to)
             next == Throttle(r, counters)
             old == IF b \in DOMAIN counters THEN counters[b] ELSE NoCounter
             new == Increment(old, r.at, TierTtl[t])
             own == Bucket(r)
             found == IF own \in DOMAIN counters THEN counters[own] ELSE NoCounter
             made == Increment(found, r.at, TierTtl[Tier(r.to)])
             counted == Counted(r)
             limit == TierLimit[t]
  <1>1. IF counted
        THEN /\ next.counters = [k \in DOMAIN counters \cup {own} |->
                                   IF k = own THEN made ELSE counters[k]]
             /\ next.passed <=> made.hits <= TierLimit[Tier(r.to)]
        ELSE next.counters = counters
    BY DEF Throttle
  <1>2. own = b => Tier(r.to) = t
    BY OneTier
  <1>3. own = b => made = new /\ TierLimit[Tier(r.to)] = limit
    BY <1>2
  <1>4. IF counted /\ own = b
        THEN /\ b \in DOMAIN next.counters /\ next.counters[b] = new
             /\ next.passed <=> new.hits <= limit
        ELSE /\ b \in DOMAIN next.counters <=> b \in DOMAIN counters
             /\ b \in DOMAIN counters => next.counters[b] = counters[b]
    <2> HIDE DEF next, made, new, own, b, t, found, old, counted, limit
    <2> QED
      BY <1>1, <1>3
  <1> QED
    BY <1>4

\* After k requests: the counter of the bucket of the i-th, when it has one, counts from
\* one of the requests so far.
Counters(requests, k) == Throttled(requests)[k].counters
CounterOf(requests, i, k) == Counters(requests, k)[Bucket(requests[i])]
HasCounter(requests, i, k) == Bucket(requests[i]) \in DOMAIN Counters(requests, k)
Ttl(request) == TierTtl[Tier(request.to)]
Limit(request) == TierLimit[Tier(request.to)]

CountsFrom(requests, i, k) ==
  HasCounter(requests, i, k) =>
    LET c == CounterOf(requests, i, k)
    IN /\ c \in [hits : Nat \ {0}, until : Nat]
       /\ c.until - Ttl(requests[i]) <= requests[k].at

\* The k-th request counts in the bucket of the i-th.
Hits(requests, i, k) ==
  Counted(requests[k]) /\ Bucket(requests[k]) = Bucket(requests[i])

LEMMA TierNumbers ==
  ASSUME NEW r
  PROVE  Ttl(r) \in Nat \ {0} /\ Limit(r) \in Nat \ {0}
  BY TierIsATier, LimitsPositive, TtlsPositive DEF Ttl, Limit

\* What the k-th request does to the counter of the i-th.
LEMMA OneMore ==
  ASSUME NEW Ips, NEW requests \in Seq(Request(Ips)),
         NEW i \in DOMAIN requests, NEW k \in DOMAIN requests,
         HasCounter(requests, i, k - 1) =>
           CounterOf(requests, i, k - 1) \in [hits : Nat, until : Nat]
  PROVE  LET old == IF HasCounter(requests, i, k - 1) THEN CounterOf(requests, i, k - 1)
                                                      ELSE NoCounter
             new == CounterOf(requests, i, k)
             r == requests[k]
         IN IF Hits(requests, i, k)
            THEN /\ HasCounter(requests, i, k)
                 /\ IF r.at < old.until
                    THEN new = [hits |-> old.hits + 1, until |-> old.until]
                    ELSE new = [hits |-> 1, until |-> r.at + Ttl(requests[i])]
                 /\ Throttled(requests)[k].passed <=> new.hits <= Limit(requests[i])
            ELSE /\ HasCounter(requests, i, k) <=> HasCounter(requests, i, k - 1)
                 /\ HasCounter(requests, i, k) => new = CounterOf(requests, i, k - 1)
  <1> DEFINE b == Bucket(requests[i])
             before == Counters(requests, k - 1)
             next == Throttled(requests)[k]
             old == IF b \in DOMAIN before THEN before[b] ELSE NoCounter
             ttl == Ttl(requests[i])
             limit == Limit(requests[i])
             new == Increment(old, requests[k].at, ttl)
  <1>1. requests[i] \in Request(Ips) /\ requests[k] \in Request(Ips)
    OBVIOUS
  <1>2. k \in 1..Len(requests) /\ Len(requests) \in Nat
    OBVIOUS
  <1>3. next = Throttle(requests[k], before)
    BY <1>2, OneByOne DEF Counters
  <1>4. IF Hits(requests, i, k)
        THEN /\ b \in DOMAIN next.counters /\ next.counters[b] = new
             /\ next.passed <=> new.hits <= limit
        ELSE /\ b \in DOMAIN next.counters <=> b \in DOMAIN before
             /\ b \in DOMAIN before => next.counters[b] = before[b]
    BY <1>1, <1>3, CounterStep DEF Hits, Ttl, Limit
  <1>5. IF requests[k].at < old.until
        THEN new = [hits |-> old.hits + 1, until |-> old.until]
        ELSE new = [hits |-> 1, until |-> requests[k].at + ttl]
    <2>1. old \in [hits : Nat, until : Nat]
      BY DEF HasCounter, CounterOf, NoCounter
    <2> HIDE DEF old
    <2> QED
      BY <2>1 DEF Increment
  <1>6. HasCounter(requests, i, k) <=> b \in DOMAIN next.counters
    BY DEF HasCounter, Counters
  <1>7. HasCounter(requests, i, k - 1) <=> b \in DOMAIN before
    BY DEF HasCounter
  <1>8. /\ CounterOf(requests, i, k) = next.counters[b]
        /\ CounterOf(requests, i, k - 1) = before[b]
    BY DEF CounterOf, Counters
  <1> HIDE DEF next, before, b, new, ttl, limit
  <1> QED
    BY <1>4, <1>5, <1>6, <1>7, <1>8 DEF next, ttl, limit

LEMMA CountsFromAll ==
  ASSUME NEW Ips, NEW requests \in Seq(Request(Ips)), InOrder(requests),
         NEW i \in DOMAIN requests, NEW k \in 0..Len(requests)
  PROVE  CountsFrom(requests, i, k)
  <1> DEFINE n == Len(requests)
             N == {m \in Nat : m \in 0..n => CountsFrom(requests, i, m)}
  <1>1. 0 \in N
    <2>1. Counters(requests, 0) = <<>>
      BY OneByOne DEF Counters
    <2>2. ~ HasCounter(requests, i, 0)
      BY <2>1 DEF HasCounter
    <2> QED
      BY <2>2 DEF CountsFrom
  <1>2. ASSUME NEW m \in Nat, m \in N PROVE m + 1 \in N
    <2>1. SUFFICES ASSUME m + 1 \in 0..n PROVE CountsFrom(requests, i, m + 1)
      OBVIOUS
    <2>2. m + 1 \in DOMAIN requests /\ m + 1 - 1 = m /\ m \in 0..n /\ CountsFrom(requests, i, m)
      BY <1>2, <2>1
    <2> DEFINE r == requests[m + 1]
               old == IF HasCounter(requests, i, m) THEN CounterOf(requests, i, m) ELSE NoCounter
               new == CounterOf(requests, i, m + 1)
               ttl == Ttl(requests[i])
    <2>3. HasCounter(requests, i, m) =>
            CounterOf(requests, i, m) \in [hits : Nat, until : Nat]
      BY <2>2 DEF CountsFrom
    <2>4. /\ r.at \in Nat /\ ttl \in Nat
          /\ m # 0 => requests[m].at \in Nat /\ requests[m].at <= r.at
      <3>1. r \in Request(Ips) /\ (m # 0 => m \in DOMAIN requests /\ requests[m] \in Request(Ips))
        BY <2>2
      <3>2. m # 0 => requests[m].at <= r.at
        BY <2>2, <3>1 DEF InOrder
      <3> QED
        BY <3>1, <3>2, TierNumbers DEF Request
    <2>6. m = 0 => ~ HasCounter(requests, i, m)
      <3>1. Counters(requests, 0) = <<>>
        BY OneByOne DEF Counters
      <3> QED
        BY <3>1 DEF HasCounter
    <2>5. IF Hits(requests, i, m + 1)
          THEN /\ HasCounter(requests, i, m + 1)
               /\ IF r.at < old.until
                  THEN new = [hits |-> old.hits + 1, until |-> old.until]
                  ELSE new = [hits |-> 1, until |-> r.at + ttl]
          ELSE /\ HasCounter(requests, i, m + 1) <=> HasCounter(requests, i, m)
               /\ HasCounter(requests, i, m + 1) => new = CounterOf(requests, i, m)
      BY <2>2, <2>3, OneMore
    <2> DEFINE has == HasCounter(requests, i, m)
               then == HasCounter(requests, i, m + 1)
               c == CounterOf(requests, i, m)
               at == requests[m].at
    <2>7. has => c \in [hits : Nat \ {0}, until : Nat] /\ c.until - ttl <= at
      BY <2>2 DEF CountsFrom
    <2>8. then => new \in [hits : Nat \ {0}, until : Nat] /\ new.until - ttl <= r.at
      <3>1. CASE Hits(requests, i, m + 1)
        <4>1. CASE r.at < old.until
          <5>1. has
            <6>1. ~ has => old.until = 0
              BY DEF NoCounter
            <6> QED
              BY <2>4, <4>1, <6>1
          <5>2. old = c /\ new = [hits |-> c.hits + 1, until |-> c.until]
            BY <2>5, <3>1, <4>1, <5>1
          <5> HIDE DEF new, c, has, old, r, ttl, at
          <5>3. m # 0
            BY <2>6, <5>1 DEF has
          <5> QED
            BY <2>4, <2>7, <5>1, <5>2, <5>3 DEF at
        <4>2. CASE ~ r.at < old.until
          <5>1. new = [hits |-> 1, until |-> r.at + ttl]
            BY <2>5, <3>1, <4>2
          <5> HIDE DEF new, c, has, old, r, ttl, at
          <5> QED
            BY <2>4, <5>1
        <4> QED
          BY <4>1, <4>2
      <3>2. CASE ~ Hits(requests, i, m + 1)
        <4>1. (then <=> has) /\ (then => new = c)
          BY <2>5, <3>2
        <4>2. has => m # 0
          BY <2>6
        <4> HIDE DEF new, c, has, then, old, r, ttl
        <4> QED
          BY <2>4, <2>7, <4>1, <4>2
      <3> QED
        BY <3>1, <3>2
    <2> QED
      BY <2>8 DEF CountsFrom
  <1>3. k \in N
    <2> HIDE DEF N
    <2> QED
      BY <1>1, <1>2, CountsUp
  <1> QED
    BY <1>3

\* The crowd at the i-th request, of the first k requests.
Close(requests, i, j) ==
  /\ Together(requests, i, j)
  /\ requests[j].at < requests[i].at + Ttl(requests[i])
CrowdAt(requests, i, k) ==
  {j \in i..k : Throttled(requests)[j].passed /\ Close(requests, i, j)}

LEMMA CrowdGrows ==
  ASSUME NEW requests, NEW i \in Nat \ {0}, NEW k \in Nat, i <= k + 1
  PROVE  LET n == Cardinality(CrowdAt(requests, i, k))
             m == Cardinality(CrowdAt(requests, i, k + 1))
         IN /\ n \in Nat /\ m \in Nat
            /\ m = IF Throttled(requests)[k + 1].passed /\ Close(requests, i, k + 1)
                   THEN n + 1 ELSE n
  <1> DEFINE old == CrowdAt(requests, i, k)
             new == CrowdAt(requests, i, k + 1)
  <1>1. IsFiniteSet(old)
    <2>1. IsFiniteSet(i..k)
      BY FS_Interval
    <2>2. old \subseteq i..k
      BY DEF CrowdAt
    <2> QED
      BY <2>1, <2>2, FS_Subset
  <1>2. k + 1 \notin old
    BY DEF CrowdAt
  <1>3. new = IF Throttled(requests)[k + 1].passed /\ Close(requests, i, k + 1)
              THEN old \cup {k + 1} ELSE old
    <2>1. i..k + 1 = (i..k) \cup {k + 1}
      OBVIOUS
    <2> QED
      BY <2>1 DEF CrowdAt
  <1> HIDE DEF old, new
  <1>4. Cardinality(old) \in Nat /\ Cardinality(old \cup {k + 1}) = Cardinality(old) + 1
    BY <1>1, <1>2, FS_AddElement, FS_CardinalityType
  <1> QED
    BY <1>3, <1>4 DEF old, new

\* The window that was open when the i-th request came began with it or with an earlier
\* one, which is then not of the crowd; another one can begin in the period, but a third
\* cannot.
Few(requests, i, k) ==
  LET c == CounterOf(requests, i, k)
      at == requests[i].at
      ttl == Ttl(requests[i])
      limit == Limit(requests[i])
      began == c.until - ttl
      answered == IF c.hits <= limit THEN c.hits ELSE limit
      crowd == Cardinality(CrowdAt(requests, i, k))
  IN /\ HasCounter(requests, i, k) /\ at - ttl < began
     /\ began < at => crowd <= answered - 1
     /\ began = at => crowd <= answered
     /\ at < began /\ began < at + ttl => crowd <= limit - 1 + answered
     /\ at + ttl <= began => crowd <= 2 * limit - 1

LEMMA FewAtFirst ==
  ASSUME NEW Ips, NEW requests \in Seq(Request(Ips)), InOrder(requests),
         NEW i \in DOMAIN requests, Counted(requests[i])
  PROVE  Few(requests, i, i)
  <1> DEFINE old == IF HasCounter(requests, i, i - 1) THEN CounterOf(requests, i, i - 1)
                                                      ELSE NoCounter
             new == CounterOf(requests, i, i)
             at == requests[i].at
             ttl == Ttl(requests[i])
             limit == Limit(requests[i])
             crowd == Cardinality(CrowdAt(requests, i, i))
             passed == Throttled(requests)[i].passed
             has == HasCounter(requests, i, i - 1)
  <1>1. i \in Nat \ {0} /\ i - 1 \in Nat /\ i - 1 \in 0..Len(requests) /\ i - 1 + 1 = i
    OBVIOUS
  <1>2. at \in Nat /\ ttl \in Nat \ {0} /\ limit \in Nat \ {0}
    <2>1. requests[i] \in Request(Ips)
      OBVIOUS
    <2> QED
      BY <2>1, TierNumbers DEF Request
  <1>3. CountsFrom(requests, i, i - 1)
    BY <1>1, CountsFromAll
  <1>4. has => /\ old \in [hits : Nat \ {0}, until : Nat]
               /\ old.until - ttl <= requests[i - 1].at
    BY <1>3 DEF CountsFrom
  <1>5. Hits(requests, i, i)
    BY DEF Hits
  <1>6. /\ HasCounter(requests, i, i)
        /\ IF at < old.until THEN new = [hits |-> old.hits + 1, until |-> old.until]
                             ELSE new = [hits |-> 1, until |-> at + ttl]
        /\ passed <=> new.hits <= limit
    <2>1. has => CounterOf(requests, i, i - 1) \in [hits : Nat, until : Nat]
      BY <1>4
    <2> QED
      BY <1>5, <2>1, OneMore
  <1>7. crowd \in Nat /\ crowd <= IF passed THEN 1 ELSE 0
    <2>1. CrowdAt(requests, i, i - 1) = {}
      BY <1>1 DEF CrowdAt
    <2>2. Cardinality(CrowdAt(requests, i, i - 1)) = 0
      BY <2>1, FS_EmptySet
    <2>3. i <= i - 1 + 1
      BY <1>1
    <2>4. LET n == Cardinality(CrowdAt(requests, i, i - 1))
              m == Cardinality(CrowdAt(requests, i, i - 1 + 1))
          IN /\ n \in Nat /\ m \in Nat
             /\ m = IF Throttled(requests)[i - 1 + 1].passed /\ Close(requests, i, i - 1 + 1)
                    THEN n + 1 ELSE n
      BY <1>1, <2>3, CrowdGrows
    <2> QED
      BY <1>1, <2>2, <2>4
  <1>8. has => i - 1 # 0 /\ requests[i - 1].at \in Nat /\ requests[i - 1].at <= at
    <2>1. ~ HasCounter(requests, i, 0)
      <3>1. Counters(requests, 0) = <<>>
        BY OneByOne DEF Counters
      <3> QED
        BY <3>1 DEF HasCounter
    <2>2. has => i - 1 # 0
      BY <2>1
    <2>3. i - 1 # 0 => i - 1 \in DOMAIN requests /\ requests[i - 1] \in Request(Ips)
      BY <1>1
    <2>4. i - 1 # 0 => requests[i - 1].at <= at
      BY <1>1, <2>3 DEF InOrder
    <2> QED
      BY <2>2, <2>3, <2>4 DEF Request
  <1> DEFINE began == new.until - ttl
             answered == IF new.hits <= limit THEN new.hits ELSE limit
  <1>9. /\ at - ttl < began
        /\ began < at => crowd <= answered - 1
        /\ began = at => crowd <= answered
        /\ began <= at
    <2>1. CASE at < old.until
      <3>1. has
        <4>1. ~ has => old.until = 0
          BY DEF NoCounter
        <4> QED
          BY <1>2, <2>1, <4>1
      <3>2. new = [hits |-> old.hits + 1, until |-> old.until]
        BY <1>6, <2>1
      <3> DEFINE h == old.hits
                 u == old.until
                 before == requests[i - 1].at
      <3>3. h \in Nat \ {0} /\ u \in Nat /\ before \in Nat /\ u - ttl <= before /\ before <= at
        BY <1>4, <1>8, <3>1
      <3>4. new.hits = h + 1 /\ new.until = u /\ at < u
        BY <2>1, <3>2
      <3> HIDE DEF old, new, at, ttl, limit, crowd, passed, h, u, before, has
      <3> QED
        BY <1>2, <1>6, <1>7, <3>3, <3>4
    <2>2. CASE ~ at < old.until
      <3>1. new.hits = 1 /\ new.until = at + ttl
        BY <1>6, <2>2
      <3> HIDE DEF old, new, at, ttl, limit, crowd, passed, has
      <3> QED
        BY <1>2, <1>6, <1>7, <3>1
    <2> QED
      BY <2>1, <2>2
  <1> HIDE DEF old, new, at, ttl, limit, crowd, began, answered, passed, has
  <1>10. /\ ~ (at < began /\ began < at + ttl)
         /\ ~ at + ttl <= began
    <2>1. new.until \in Int
      <3>1. CountsFrom(requests, i, i)
        <4>1. i \in 0..Len(requests)
          OBVIOUS
        <4> QED
          BY <4>1, CountsFromAll
      <3> QED
        BY <1>6, <3>1 DEF CountsFrom, new
    <2> QED
      BY <1>2, <1>9, <2>1 DEF began
  <1> QED
    BY <1>6, <1>9, <1>10 DEF Few, new, at, ttl, limit, crowd, began, answered

\* The numbers of one more request: at is when the i-th came, now when this one does, and
\* was and began are the beginnings of the windows it finds and leaves.
LEMMA FewNumbers ==
  ASSUME NEW at \in Nat, NEW now \in Nat, NEW ttl \in Nat \ {0}, NEW limit \in Nat \ {0},
         NEW was \in Int, NEW hits \in Nat \ {0}, NEW crowd \in Nat, at <= now, was <= now,
         NEW began \in Int, NEW count \in Nat, NEW more \in Nat,
         IF now < was + ttl THEN began = was /\ count = hits + 1 ELSE began = now /\ count = 1,
         more <= IF count <= limit /\ now < at + ttl THEN crowd + 1 ELSE crowd,
         at - ttl < was,
         was < at => crowd <= (IF hits <= limit THEN hits ELSE limit) - 1,
         was = at => crowd <= IF hits <= limit THEN hits ELSE limit,
         at < was /\ was < at + ttl => crowd <= limit - 1 + IF hits <= limit THEN hits ELSE limit,
         at + ttl <= was => crowd <= 2 * limit - 1
  PROVE  /\ at - ttl < began
         /\ began < at => more <= (IF count <= limit THEN count ELSE limit) - 1
         /\ began = at => more <= IF count <= limit THEN count ELSE limit
         /\ at < began /\ began < at + ttl =>
              more <= limit - 1 + IF count <= limit THEN count ELSE limit
         /\ at + ttl <= began => more <= 2 * limit - 1
  <1>1. CASE now < was + ttl
    <2>1. began = was /\ count = hits + 1
      BY <1>1
    <2>2. more <= IF hits + 1 <= limit /\ now < at + ttl THEN crowd + 1 ELSE crowd
      BY <2>1
    <2> QED
      BY <2>1, <2>2
  <1>2. CASE ~ now < was + ttl
    <2>1. began = now /\ count = 1
      BY <1>2
    <2>2. more <= IF now < at + ttl THEN crowd + 1 ELSE crowd
      BY <2>1
    <2> QED
      BY <1>2, <2>1, <2>2
  <1> QED
    BY <1>1, <1>2

LEMMA FewGoesOn ==
  ASSUME NEW Ips, NEW requests \in Seq(Request(Ips)), InOrder(requests),
         NEW i \in DOMAIN requests, NEW k \in i..Len(requests), k + 1 \in DOMAIN requests,
         Few(requests, i, k)
  PROVE  Few(requests, i, k + 1)
  <1> DEFINE old == CounterOf(requests, i, k)
             new == CounterOf(requests, i, k + 1)
             at == requests[i].at
             now == requests[k + 1].at
             ttl == Ttl(requests[i])
             limit == Limit(requests[i])
             crowd == Cardinality(CrowdAt(requests, i, k))
             more == Cardinality(CrowdAt(requests, i, k + 1))
             passed == Throttled(requests)[k + 1].passed
             close == Close(requests, i, k + 1)
             counts == Hits(requests, i, k + 1)
             was == old.until - ttl
             began == new.until - ttl
  <1>1. /\ i \in Nat \ {0} /\ k \in Nat /\ k \in DOMAIN requests /\ i <= k + 1 /\ i <= k
        /\ k + 1 - 1 = k /\ k \in 0..Len(requests)
    OBVIOUS
  <1>2. at \in Nat /\ now \in Nat /\ ttl \in Nat \ {0} /\ limit \in Nat \ {0}
    <2>1. requests[i] \in Request(Ips) /\ requests[k + 1] \in Request(Ips)
      OBVIOUS
    <2> QED
      BY <2>1, TierNumbers DEF Request
  <1>3. at <= now /\ requests[k].at \in Nat /\ requests[k].at <= now
    <2>1. requests[k] \in Request(Ips)
      BY <1>1
    <2>2. i <= k + 1 /\ k <= k + 1
      BY <1>1
    <2> QED
      BY <1>1, <2>1, <2>2 DEF InOrder, Request
  <1>4. /\ old \in [hits : Nat \ {0}, until : Nat] /\ old.until - ttl <= requests[k].at
        /\ HasCounter(requests, i, k)
    <2>1. CountsFrom(requests, i, k)
      BY <1>1, CountsFromAll
    <2>2. HasCounter(requests, i, k)
      BY DEF Few
    <2> QED
      BY <2>1, <2>2 DEF CountsFrom
  <1>5. IF counts
        THEN /\ HasCounter(requests, i, k + 1)
             /\ IF now < old.until
                THEN new = [hits |-> old.hits + 1, until |-> old.until]
                ELSE new = [hits |-> 1, until |-> now + ttl]
             /\ passed <=> new.hits <= limit
        ELSE HasCounter(requests, i, k + 1) /\ new = old
    <2>1. HasCounter(requests, i, k) =>
            CounterOf(requests, i, k) \in [hits : Nat, until : Nat]
      BY <1>4
    <2> QED
      BY <1>1, <1>4, <2>1, OneMore
  <1>6. /\ crowd \in Nat /\ more \in Nat
        /\ more = IF passed /\ close THEN crowd + 1 ELSE crowd
    BY <1>1, CrowdGrows
  <1>7. close => counts /\ now < at + ttl
    BY TogetherShares DEF Close, Hits
  <1>8. /\ at - ttl < was
        /\ was < at => crowd <= (IF old.hits <= limit THEN old.hits ELSE limit) - 1
        /\ was = at => crowd <= IF old.hits <= limit THEN old.hits ELSE limit
        /\ at < was /\ was < at + ttl =>
             crowd <= limit - 1 + IF old.hits <= limit THEN old.hits ELSE limit
        /\ at + ttl <= was => crowd <= 2 * limit - 1
    BY DEF Few
  <1>9. CASE ~ counts
    <2>1. new = old /\ more = crowd /\ HasCounter(requests, i, k + 1)
      BY <1>5, <1>6, <1>7, <1>9
    <2> QED
      BY <1>8, <2>1 DEF Few
  <1>10. CASE counts
    <2> DEFINE hits == old.hits
               count == new.hits
    <2>1. /\ hits \in Nat \ {0} /\ was \in Int /\ was <= now
      <3> DEFINE u == old.until
                 before == requests[k].at
      <3>1. u \in Nat /\ old.hits \in Nat \ {0} /\ u - ttl <= before
        BY <1>4
      <3> HIDE DEF u, before, ttl, now, old
      <3> QED
        BY <1>2, <1>3, <3>1 DEF u, before
    <2>2. IF now < was + ttl THEN began = was /\ count = hits + 1 ELSE began = now /\ count = 1
      <3> DEFINE u == old.until
                 v == new.until
      <3>1. u \in Nat
        BY <1>4
      <3>2. IF now < u THEN v = u /\ count = hits + 1 ELSE v = now + ttl /\ count = 1
        BY <1>5, <1>10
      <3> HIDE DEF u, v, ttl, now, old, new
      <3> QED
        BY <1>2, <3>1, <3>2 DEF u, v
    <2>3. count \in Nat /\ began \in Int
      <3> HIDE DEF count, hits, began, was
      <3> QED
        BY <1>2, <2>1, <2>2
    <2>4. more <= IF count <= limit /\ now < at + ttl THEN crowd + 1 ELSE crowd
      <3>1. passed => count <= limit
        BY <1>5, <1>10
      <3> HIDE DEF more, crowd, count, limit, now, at, ttl, passed, close
      <3> QED
        BY <1>6, <1>7, <3>1
    <2>5. /\ at - ttl < began
          /\ began < at => more <= (IF count <= limit THEN count ELSE limit) - 1
          /\ began = at => more <= IF count <= limit THEN count ELSE limit
          /\ at < began /\ began < at + ttl =>
               more <= limit - 1 + IF count <= limit THEN count ELSE limit
          /\ at + ttl <= began => more <= 2 * limit - 1
      <3>1. /\ was < at => crowd <= (IF hits <= limit THEN hits ELSE limit) - 1
            /\ was = at => crowd <= IF hits <= limit THEN hits ELSE limit
            /\ at < was /\ was < at + ttl =>
                 crowd <= limit - 1 + IF hits <= limit THEN hits ELSE limit
            /\ at + ttl <= was => crowd <= 2 * limit - 1
            /\ at - ttl < was
        BY <1>8
      <3> HIDE DEF more, crowd, count, limit, now, at, ttl, hits, was, began
      <3> QED
        BY <1>2, <1>3, <1>6, <2>1, <2>2, <2>3, <2>4, <3>1, FewNumbers
    <2>6. HasCounter(requests, i, k + 1)
      BY <1>5, <1>10
    <2> QED
      BY <2>5, <2>6 DEF Few
  <1> QED
    BY <1>9, <1>10

\* In no period as long as a window does a client see two windows' worth of its requests of
\* a tier let through, whatever the limits and windows of the tiers, however many requests
\* there are and whatever else is counted between them.
THEOREM CrowdsStaySmall ==
  ASSUME NEW Ips, NEW requests \in Seq(Request(Ips)), InOrder(requests),
         NEW i \in DOMAIN requests, Counted(requests[i])
  PROVE  Crowd(requests, i) <= Most(requests[i])
  <1> DEFINE n == Len(requests)
             N == {m \in Nat : i + m \in i..n => Few(requests, i, i + m)}
  <1>1. n \in Nat /\ i \in 1..n
    OBVIOUS
  <1>2. 0 \in N
    <2>1. i + 0 = i /\ 0 \in Nat
      BY <1>1
    <2> QED
      BY <2>1, FewAtFirst
  <1>3. ASSUME NEW m \in Nat, m \in N PROVE m + 1 \in N
    <2>1. SUFFICES ASSUME i + (m + 1) \in i..n PROVE Few(requests, i, i + (m + 1))
      OBVIOUS
    <2>2. i + m \in i..n /\ i + (m + 1) = i + m + 1 /\ i + m + 1 \in DOMAIN requests
      BY <1>1, <2>1
    <2>3. Few(requests, i, i + m)
      BY <1>3, <2>2
    <2> QED
      BY <2>2, <2>3, FewGoesOn
  <1>4. n - i \in Nat /\ i + (n - i) = n /\ n \in i..n
    BY <1>1
  <1>5. Few(requests, i, n)
    <2>1. n - i \in N
      <3> HIDE DEF N
      <3> QED
        BY <1>2, <1>3, <1>4, CountsUp
    <2> QED
      BY <1>4, <2>1
  <1> DEFINE c == CounterOf(requests, i, n)
             at == requests[i].at
             ttl == Ttl(requests[i])
             limit == Limit(requests[i])
             crowd == Cardinality(CrowdAt(requests, i, n))
  <1>6. Crowd(requests, i) = crowd /\ Most(requests[i]) = 2 * limit - 1
    <2>1. {j \in i..Len(requests) :
             /\ Throttled(requests)[j].passed /\ Together(requests, i, j)
             /\ requests[j].at < requests[i].at + TierTtl[Tier(requests[i].to)]}
            = CrowdAt(requests, i, n)
      BY DEF CrowdAt, Close, Ttl
    <2> QED
      BY <2>1 DEF Crowd, Most, Limit
  <1>7. at \in Nat /\ ttl \in Nat \ {0} /\ limit \in Nat \ {0} /\ crowd \in Nat
    <2>1. requests[i] \in Request(Ips)
      OBVIOUS
    <2>2. IsFiniteSet(CrowdAt(requests, i, n))
      <3>1. IsFiniteSet(i..n)
        BY FS_Interval
      <3>2. CrowdAt(requests, i, n) \subseteq i..n
        BY DEF CrowdAt
      <3> QED
        BY <3>1, <3>2, FS_Subset
    <2> QED
      BY <2>1, <2>2, TierNumbers, FS_CardinalityType DEF Request
  <1>8. c \in [hits : Nat \ {0}, until : Nat]
    <2>1. CountsFrom(requests, i, n) /\ HasCounter(requests, i, n)
      <3>1. n \in 0..Len(requests)
        BY <1>1
      <3> QED
        BY <1>5, <3>1, CountsFromAll DEF Few
    <2> QED
      BY <2>1 DEF CountsFrom
  <1> DEFINE began == c.until - ttl
             hits == c.hits
  <1>9. /\ began < at => crowd <= (IF hits <= limit THEN hits ELSE limit) - 1
        /\ began = at => crowd <= IF hits <= limit THEN hits ELSE limit
        /\ at < began /\ began < at + ttl =>
             crowd <= limit - 1 + IF hits <= limit THEN hits ELSE limit
        /\ at + ttl <= began => crowd <= 2 * limit - 1
    BY <1>5 DEF Few
  <1>10. hits \in Nat \ {0} /\ began \in Int
    <2> DEFINE u == c.until
    <2>1. hits \in Nat \ {0} /\ u \in Nat
      BY <1>8
    <2> HIDE DEF u, hits, ttl, c
    <2> QED
      BY <1>7, <2>1 DEF u
  <1>11. crowd <= 2 * limit - 1
    <2> HIDE DEF hits, began, limit, at, ttl, crowd
    <2> QED
      BY <1>7, <1>9, <1>10
  <1> QED
    BY <1>6, <1>11

\* So it is of every sequence of requests that TLC goes through.
THEOREM SampleCrowdsStaySmall ==
  ASSUME NEW Ips, SampleRequests \subseteq {requests \in Seq(Request(Ips)) : InOrder(requests)}
  PROVE  CrowdsBounded
  <1> SUFFICES ASSUME NEW requests \in SampleRequests, NEW i \in DOMAIN requests,
                      Counted(requests[i])
               PROVE  Crowd(requests, i) <= Most(requests[i])
    BY DEF CrowdsBounded
  <1> QED
    BY CrowdsStaySmall
=============================================================================
