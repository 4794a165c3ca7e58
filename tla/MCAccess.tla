------------------------------ MODULE MCAccess -------------------------------
EXTENDS Access, Throttling

CONSTANTS First, Second, Third

MCChoices == {{"Custom"}, {"Admin", "Custom"}, {"Owner", "Admin"}}

MCGrantSets ==
  {{<<"Users", "Admin", "ALL">>, <<"Users", "Read", "OWN">>},
   {<<"Users", "Read", "TEAM">>, <<"Roles", "Admin", "ALL">>}}

\* The actors start as an administrator and either another one or an owner;
\* the third user is absent or without roles.
MCInit ==
  /\ Init
  /\ held[First] = {"Admin"}
  /\ held[Second] \in {{"Admin"}, {"Owner"}}
  /\ held[Third] = {}

\* Ids that the guard is not shown come with the first request of a behaviour.
FirstMayHide ==
  \A a \in Actors :
    req'[a] # req[a] /\ req'[a].pc \in {"assign", "invite"} =>
      req'[a].shown = req'[a].target \/ begun' = 1

MCNext == Next /\ FirstMayHide

MCSpec == MCInit /\ [][MCNext]_vars

\* Two clients, two handlers that share a tier, one that shares with nobody, and
\* one that is not counted because Redis does not answer.
Kinds ==
  [to : {At("login"), At("resetPassword")}, ip : {1, 2}, up : {TRUE}]
    \cup {[to |-> At("getAllCases"), ip |-> 1, up |-> TRUE], [to |-> At("login"), ip |-> 1, up |-> FALSE]}

Times == {t \in [1..4 -> 0..3] : t[1] = 0 /\ \A i \in 1..3 : t[i] <= t[i + 1]}

MCSampleRequests ==
  {[i \in 1..4 |-> [to |-> k[i].to, ip |-> k[i].ip, up |-> k[i].up, at |-> t[i]]] :
     k \in [1..4 -> Kinds], t \in Times}

MCTierLimit == [otp |-> 1, registration |-> 1, auth |-> 2, public |-> 1, global |-> 1]
MCTierTtl == [otp |-> 2, registration |-> 2, auth |-> 2, public |-> 2, global |-> 2]

\* Whatever handlers of a tier a client spreads its requests over, no period as long
\* as a window sees two windows' worth of them let through: a window begins with a
\* request, so that only the others can crowd against the next one; and so they can.
LessThanTwiceTheLimit == [][CrowdsBounded /\ BoundReached]_vars
=============================================================================
