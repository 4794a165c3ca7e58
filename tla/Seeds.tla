-------------------------------- MODULE Seeds --------------------------------
(***************************************************************************)
(* The permissions and built-in roles that RbacSeeder writes into the      *)
(* database.  A permission is <<module, action>>, a grant adds its scope.  *)
(***************************************************************************)
All(modules, actions) == modules \X actions \X {"ALL"}
Scoped(modules, actions, scope) == modules \X actions \X {scope}

Edit == {"Create", "Read", "Update", "Delete"}
Wildcard == <<"*", "*">>

PermissionSeed ==
  ({"Cases", "Agencies", "Emails", "Users", "Roles", "Attorneys", "Reminders",
    "Tasks", "AgencyRequests"} \X Edit)
    \cup ({"Cases", "Agencies", "Reports"} \X {"Export"})
    \cup ({"Cases", "Leaderboard", "Tasks", "AgencyRequests"} \X {"Manage"})
    \cup ({"Templates", "Users", "Roles", "Settings", "Billing", "Auth", "Teams"} \X {"Admin"})
    \cup ({"Reports", "Settings", "Billing", "Files", "Leaderboard", "Audit", "Auth", "Teams"}
            \X {"Read"})
    \cup ({"Settings", "Billing"} \X {"Update"})
    \cup ({"Files", "PipelineStatuses"} \X {"Create", "Read", "Delete"})
    \cup {<<"PipelineStatuses", "Update">>}
    \cup ({"Trash"} \X {"View", "Restore", "HardDelete"})

AdminGrants ==
  All({"Users", "Roles", "Cases", "Agencies", "Emails", "Attorneys", "Tasks", "Reminders",
       "AgencyRequests"}, Edit)
    \cup All({"Users", "Roles", "Templates", "Settings", "Auth", "Teams"}, {"Admin"})
    \cup All({"Cases", "Agencies", "Reports"}, {"Export"})
    \cup All({"Reports", "Files", "Audit", "Settings", "Auth", "Teams", "Leaderboard"}, {"Read"})
    \cup All({"AgencyRequests", "Leaderboard"}, {"Manage"})
    \cup All({"Files"}, {"Create", "Delete"})
    \cup All({"Settings"}, {"Update"})
    \cup All({"Trash"}, {"View", "Restore", "HardDelete"})

\* Described as an employee who does not see attorneys; it lacks two more
\* permissions, on reminders.
ContractorGrants ==
  All({"Cases", "Files", "Tasks", "Reminders"}, {"Create", "Read"})
    \cup All({"Agencies", "AgencyRequests"}, {"Create", "Read", "Update"})
    \cup All({"Leaderboard"}, {"Read"})
    \cup Scoped({"Cases"}, {"Update", "Export"}, "OWN")
    \cup Scoped({"Cases"}, {"Manage"}, "TEAM")
    \cup Scoped({"Emails"}, {"Read", "Create"}, "OWN")
    \cup Scoped({"Reports"}, {"Read"}, "OWN")
    \cup Scoped({"Tasks"}, {"Update"}, "ASSIGNED")
    \cup Scoped({"Tasks", "AgencyRequests"}, {"Delete"}, "OWN")
    \cup Scoped({"Trash"}, {"View", "Restore", "HardDelete"}, "OWN")

EmployeeGrants ==
  ContractorGrants
    \cup All({"Attorneys"}, {"Read"})
    \cup {<<"Reminders", "Update", "ASSIGNED">>, <<"Reminders", "Delete", "OWN">>}

AttorneyGrants ==
  Scoped({"Files"}, {"Create", "Read"}, "ASSIGNED")
    \cup Scoped({"Tasks"}, {"Read", "Update"}, "ASSIGNED")
    \cup Scoped({"Cases", "Reminders", "AgencyRequests"}, {"Read"}, "ASSIGNED")
    \cup Scoped({"Cases"}, {"Read"}, "TEAM")

UserGrants == Scoped({"Cases", "Reminders"}, {"Read"}, "OWN")

BuiltIn == {"Owner", "Admin", "Employee", "Contractor", "Attorney", "User"}

SeedGrants ==
  [Owner |-> {<<"*", "*", "ALL">>}, Admin |-> AdminGrants, Employee |-> EmployeeGrants,
   Contractor |-> ContractorGrants, Attorney |-> AttorneyGrants, User |-> UserGrants]

SeedLevel ==
  [Owner |-> 100, Admin |-> 90, Employee |-> 80, Contractor |-> 70, Attorney |-> 60, User |-> 50]

\* RbacSeeder.seed throws on a role that refers to a permission not seeded,
\* the wildcard apart, which it adds.
SeederAccepts(role) ==
  \A g \in SeedGrants[role] : <<g[1], g[2]>> \in PermissionSeed \cup {Wildcard}
=============================================================================
