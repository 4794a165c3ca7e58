------------------------------ MODULE Endpoints ------------------------------
(***************************************************************************)
(* The HTTP surface of the API: what each endpoint declares with its       *)
(* decorators, and what the guards make of it.  A request passes           *)
(* JwtAuthGuard and PermissionsGuard, then the guards its own endpoint     *)
(* names; it reaches its handler when all of them let it pass.             *)
(***************************************************************************)
EXTENDS Naturals, FiniteSets, Seeds

(***************************************************************************)
(* Declarations.  "public": @Public().  "skips": the account checks of     *)
(* JwtAuthGuard it is exempt from (@AllowPending,                          *)
(* @SkipTwoFactorEnforcement).  "perms": @Permissions, any one of which    *)
(* suffices.  "guards": the guards of its own.                             *)
(***************************************************************************)
Endpoint(path, public, skips, perms, guards) ==
  [path |-> path, public |-> public, skips |-> skips, perms |-> perms, guards |-> guards]

Public(paths) == {Endpoint(p, TRUE, {}, {}, {}) : p \in paths}
Signed(paths) == {Endpoint(p, FALSE, {}, {}, {}) : p \in paths}
Guarded(paths, perms, guards) == {Endpoint(p, FALSE, {}, perms, guards) : p \in paths}
Skipping(paths, skips) == {Endpoint(p, FALSE, skips, {}, {}) : p \in paths}

\* AuthController, in the order of its handlers.
SignInEndpoints == Public({"register", "login", "verifyTwoFactor"})
RecoveryEndpoints == Public({"recoverRequest", "recoverConfirm"})
RefreshEndpoint == Public({"refresh"})
LogoutEndpoint == Skipping({"logout"}, {"pending", "twoFactor"})
ForgotPasswordEndpoints == Public({"forgotPassword", "validateResetToken", "resetPassword"})
SetPasswordEndpoints == Public({"validateSetPasswordToken", "setPassword"})
ChangePasswordEndpoint == Skipping({"changePassword"}, {"pending", "twoFactor"})
TwoFactorEndpoints ==
  Skipping({"setupTwoFactor", "confirmTwoFactor", "twoFactorStatus"}, {"twoFactor"})
    \cup Signed({"disableTwoFactor", "regenerateBackupCodes"})
SessionEndpoints ==
  Public({"resolveConflict"}) \cup Signed({"listSessions", "terminateSession", "logoutAll"})
TrustedDeviceEndpoints ==
  Signed({"listTrustedDevices", "revokeTrustedDevice", "revokeAllTrustedDevices"})

AuthEndpoints ==
  SignInEndpoints \cup RecoveryEndpoints \cup RefreshEndpoint \cup LogoutEndpoint
    \cup ForgotPasswordEndpoints \cup SetPasswordEndpoints \cup ChangePasswordEndpoint
    \cup TwoFactorEndpoints \cup SessionEndpoints \cup TrustedDeviceEndpoints

-----------------------------------------------------------------------------
P(module, action) == <<module, action, "ALL">>
Own(module, action) == <<module, action, "OWN">>

\* UsersController: lists, trash, and single profiles.
UserListEndpoints ==
  Guarded({"listUsers", "userFilterOptions"}, {P("Users", "Read")}, {})
    \cup Guarded({"twoFactorStats"}, {P("Users", "Admin")}, {})
    \cup Guarded({"twoFactorEnforcement"}, {P("Users", "Update")}, {})
TrashEndpoints ==
  Guarded({"listDeletedUsers", "getDeletedUser"}, {P("Trash", "View")}, {})
    \cup Guarded({"bulkTrashAction"}, {P("Trash", "Restore"), P("Trash", "HardDelete")},
                 {"trashAction"})
    \cup Guarded({"restoreUser"}, {P("Trash", "Restore")}, {})
ProfileEndpoints ==
  Signed({"getCurrentUser", "updateCurrentUser"})
    \cup Guarded({"getUserById"}, {Own("Users", "Read")}, {"scope"})

\* An administrator acting on another user, with or without roles to assign.
Administer(paths) == Guarded(paths, {P("Users", "Admin")}, {"hierarchy", "notSelf"})
AssignRoles(paths) == Guarded(paths, {P("Users", "Admin")}, {"hierarchy", "entity", "notSelf"})

\* UsersController: fields of one user.
UserFieldEndpoints ==
  AssignRoles({"updateUser"})
    \cup Administer({"adminSetPassword", "changeEmail", "switchAuthProvider"})

\* UsersController: registrations.
RegistrationEndpoints == AssignRoles({"approveUser", "unrejectUser"}) \cup Administer({"rejectUser"})

\* UsersController: suspension and deactivation, then what takes away.
UserStatusEndpoints ==
  AssignRoles({"reactivateUser"}) \cup Administer({"suspendUser", "unsuspendUser", "deactivateUser"})
RemovalEndpoints ==
  Administer({"adminDisableTwoFactor", "adminResetTwoFactor"})
    \cup Guarded({"softDeleteUser"}, {Own("Users", "Delete")}, {"scope", "hierarchy"})

UserRoleEndpoints ==
  Guarded({"listRolesOfUser"}, {P("Users", "Read")}, {}) \cup AssignRoles({"syncRoles"})

InvitationEndpoints ==
  Guarded({"sendInvite"}, {P("Users", "Admin")}, {"entity"})
    \cup Guarded({"listInvitations", "resendInvite", "revokeInvite"}, {P("Users", "Admin")}, {})
    \cup AssignRoles({"syncInvitedRoles"})
    \cup Public({"validateInvite", "acceptInvite"})

RoleEndpoints ==
  Guarded({"listRoles", "getRole"}, {P("Roles", "Read")}, {})
    \cup Guarded({"createRole"}, {P("Roles", "Admin")}, {})
    \cup Guarded({"updateRole", "removeRole"}, {P("Roles", "Admin")}, {"entity"})

PermissionEndpoints == Guarded({"listPermissions", "getPermission"}, {P("Roles", "Read")}, {})

StageEndpoints ==
  Guarded({"getAllStages"}, {P("Stages", "Read")}, {})
    \cup Guarded({"createStage"}, {P("Stages", "Create")}, {})
    \cup Guarded({"removeStage"}, {P("Stages", "Delete")}, {})

\* CasesController: every signed-in user may read and change every case.
CaseReadEndpoints ==
  Signed({"getAllCases", "getCasesByStage", "cityFilterOptions", "stateFilterOptions"})
CaseSearchEndpoints == Signed({"searchCases", "getAllByStages", "displayPropertiesFilter"})
CaseWriteEndpoints == Signed({"createCase", "dragCase", "updateCase", "removeCase"})

FilterEndpoints == Signed({"getFilters", "createFilter", "removeFilter"})
HealthEndpoints == Public({"health", "liveness", "readiness"})
AppEndpoints == Public({"getData"})

UserEndpoints ==
  UserListEndpoints \cup TrashEndpoints \cup ProfileEndpoints \cup UserFieldEndpoints
    \cup RegistrationEndpoints \cup UserStatusEndpoints \cup RemovalEndpoints \cup UserRoleEndpoints \cup InvitationEndpoints

AllEndpoints ==
  AuthEndpoints \cup UserEndpoints \cup RoleEndpoints \cup PermissionEndpoints \cup StageEndpoints
    \cup CaseReadEndpoints \cup CaseSearchEndpoints \cup CaseWriteEndpoints \cup FilterEndpoints
    \cup HealthEndpoints \cup AppEndpoints

At(path) == CHOOSE e \in AllEndpoints : e.path = path

-----------------------------------------------------------------------------
(***************************************************************************)
(* JwtAuthGuard, on what the session record says of the account.           *)
(***************************************************************************)
StatusAllows(e, status) == status = "ACTIVE" \/ (status = "PENDING" /\ "pending" \in e.skips)

TwoFactorAllows(e, account) ==
  \/ "twoFactor" \in e.skips
  \/ account.enabled
  \/ ~account.enforced
  \/ account.inGrace

AccountAllows(e, account) == StatusAllows(e, account.status) /\ TwoFactorAllows(e, account)

-----------------------------------------------------------------------------
(***************************************************************************)
(* Permissions.  A role's grants are looked up in a trie of module and     *)
(* action, in which "*" stands for all, and in a map from the exact pair   *)
(* to its scopes, which falls back to the wildcard pair only.              *)
(***************************************************************************)
ScopeLevel == [OWN |-> 1, ASSIGNED |-> 2, TEAM |-> 3, ALL |-> 4]

TrieHas(grants, p) ==
  \E g \in grants : g[1] \in {"*", p[1]} /\ g[2] \in {"*", p[2]}

ScopesIn(grants, module, action) == {g[3] : g \in {h \in grants : <<h[1], h[2]>> = <<module, action>>}}

ScopesOf(grants, p) ==
  IF ScopesIn(grants, p[1], p[2]) # {} THEN ScopesIn(grants, p[1], p[2])
                                       ELSE ScopesIn(grants, "*", "*")

\* RbacService.checkPermissionWithEntry.
EntryAllows(grants, p, scope) ==
  /\ TrieHas(grants, p)
  /\ \E s \in ScopesOf(grants, p) : ScopeLevel[s] >= ScopeLevel[scope]

\* (mutant) Scopes are looked up without the fallback to the wildcard pair.
EffectiveExactScope(entries, p) ==
  LET levels == UNION {{ScopeLevel[s] : s \in ScopesIn(g, p[1], p[2])} : g \in {h \in entries : TrieHas(h, p)}}
  IN IF levels = {} THEN 0 ELSE CHOOSE n \in levels : \A m \in levels : m <= n

\* RbacService.getEffectiveScope: the widest scope of any role, as a level,
\* 0 standing for null.
EffectiveScope(entries, p) ==
  LET levels == UNION {{ScopeLevel[s] : s \in ScopesOf(g, p)} : g \in {h \in entries : TrieHas(h, p)}}
  IN IF levels = {} THEN 0 ELSE CHOOSE n \in levels : \A m \in levels : m <= n

PermissionsAllow(e, entries) == e.perms = {} \/ \E p \in e.perms, g \in entries : TrieHas(g, p)

\* ScopeResolutionGuard: the scope that the handler's queries are given.
ResolvedScope(e, entries) ==
  LET scopes == {EffectiveScope(entries, p) : p \in e.perms}
  IN IF scopes = {} THEN 0 ELSE CHOOSE n \in scopes : \A m \in scopes : m <= n

\* ScopeGuard, for a request on somebody else.
ScopeAllows(e, entries) ==
  "scope" \in e.guards =>
    \A p \in {q \in e.perms : q[3] = "OWN"} : \E g \in entries : EntryAllows(g, p, "ALL")

\* TrashBulkActionGuard: the action asked for needs its own permission.
TrashActionAllows(e, entries, action) ==
  "trashAction" \in e.guards => \E g \in entries : TrieHas(g, P("Trash", action))

-----------------------------------------------------------------------------
(***************************************************************************)
(* Role levels.  A role that is not built in has the default level 0.      *)
(***************************************************************************)
LevelOf(r) == IF r \in BuiltIn THEN SeedLevel[r] ELSE 0

\* (mutant) The lowest level of any role.
LowestRank(roles) ==
  IF roles = {} THEN 0 ELSE LevelOf(CHOOSE r \in roles : \A s \in roles : LevelOf(s) >= LevelOf(r))

\* The effective level: that of the highest role.
Rank(roles) ==
  IF roles = {} THEN 0 ELSE LevelOf(CHOOSE r \in roles : \A s \in roles : LevelOf(s) <= LevelOf(r))

OwnerPeers(actor, level) == "Owner" \in actor /\ level = Rank(actor)

\* RoleHierarchyGuard, for a request on somebody else, whose roles are target.
HierarchyAllows(e, actor, target) ==
  "hierarchy" \in e.guards =>
    /\ Rank(actor) > 0
    /\ target # {} => Rank(target) < Rank(actor) \/ OwnerPeers(actor, Rank(target))

\* (mutant) Only roles above the actor's are forbidden.
EntityAllowsPeers(e, actor, named) ==
  "entity" \in e.guards =>
    /\ Rank(actor) > 0
    /\ LET forbidden == {r \in named : LevelOf(r) > Rank(actor)}
       IN forbidden # {} => \A r \in forbidden : OwnerPeers(actor, LevelOf(r))

\* RoleEntityHierarchyGuard: of the roles named, those found in the table.
EntityAllows(e, actor, named) ==
  "entity" \in e.guards =>
    /\ Rank(actor) > 0
    /\ LET forbidden == {r \in named : LevelOf(r) >= Rank(actor)}
       IN forbidden # {} => \A r \in forbidden : OwnerPeers(actor, LevelOf(r))
=============================================================================
