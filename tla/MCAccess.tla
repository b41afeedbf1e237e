------------------------------ MODULE MCAccess ------------------------------
(* Model-checking instance of what decides who may do what: the members,     *)
(* teams and roles of an organization, and the caches in front of the        *)
(* authorizer.  It is the union (not the product) of components that share   *)
(* no state: a behaviour is one component's, chosen by focus in its initial  *)
(* state; the other rests in one initial state.                              *)
EXTENDS Tenancy, AccessCache

CONSTANTS ta, tb

VARIABLE focus

MCRoles == [u \in User |-> "admin"]
MCTeams == [u \in User |-> {}]
MCAnchor == [r \in OrgRole |-> IF r = AdminRole THEN AnchorName ELSE r]
OneTeam == [r \in {AdminRole} |-> ta]
MCInitialTeams == {OneTeam, [r \in OrgRole |-> IF r = AdminRole THEN ta ELSE tb]}

accessRunVars == <<focus, tenancyVars, accessVars>>
AccessRunInit ==
    /\ focus \in {"tenancy", "caches"} /\ TenancyInit /\ AccessInit
    /\ focus # "tenancy" => DOMAIN OneTeam = {r \in OrgRole : role[r].exists}
    /\ focus # "caches" => backend = "memory" /\ \A o \in AccessObject : object[o] = "absent"
\* An idle call has no state, so the names of the two calls are interchangeable: the second
\* begins only while the first is in progress.
LowestIdleBegins == orgCall["k2"].pc = "idle" /\ orgCall["k1"].pc = "idle" => orgCall'["k2"].pc = "idle"
AccessRunNext ==
    \/ focus = "tenancy" /\ TenancyNext /\ LowestIdleBegins /\ UNCHANGED <<focus, accessVars>>
    \/ focus = "caches" /\ AccessNext /\ UNCHANGED <<focus, tenancyVars>>

\* The handlers of events and the sync loops run again and again, a call that was begun
\* goes on, and entries of a cache expire.
OnTenancy(A) == focus = "tenancy" /\ A /\ UNCHANGED <<focus, accessVars>>
OnCaches(A) == focus = "caches" /\ A /\ UNCHANGED <<focus, tenancyVars>>
AccessRunFairness ==
    /\ WF_tenancyVars(OnTenancy(HandleOrgEvents)) /\ WF_tenancyVars(OnTenancy(TeamSyncStep))
    /\ WF_tenancyVars(OnTenancy(RoleSyncStep)) /\ \A c \in TenancyCall : WF_tenancyVars(OnTenancy(OrgCallStep(c)))
    /\ WF_accessVars(OnCaches(Expire)) /\ WF_accessVars(OnCaches(HandleParent))
    /\ WF_accessVars(OnCaches(bump)) /\ \A c \in AccessCall : WF_accessVars(OnCaches(AccessStep(c)))
AccessRunSpec == AccessRunInit /\ [][AccessRunNext]_accessRunVars /\ AccessRunFairness

\* The components are well typed.
AccessRunTypeOK == TenancyTypeOK /\ AccessTypeOK

\* Rows, Keycloak groups, OpenFGA tuples and cached answers agree in the end, in whatever order
\* calls, events and loops ran: the grants of roles and teams and the members (Tenancy), the caches
\* and the tuples of objects (AccessCache).  The components stay well typed.
AccessConverges ==
    []AccessRunTypeOK /\ GrantsSettle /\ MembersSettle /\ CacheConverges /\ LiveGetsTuple
=============================================================================
