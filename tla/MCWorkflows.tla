---------------------------- MODULE MCWorkflows ----------------------------
(* Model-checking instance of the long-running workflows: drift sweeps,      *)
(* scaffold runs, tenant zones, the distribution of policies, the creation   *)
(* of tenants and the start of servers, the delivery of notifications.  It   *)
(* is the union (not the product) of components that share no state: a       *)
(* behaviour is one component's, chosen by focus in its initial state; the   *)
(* others rest in one initial state.                                         *)
EXTENDS Drift, Scaffold, ZoneFactory, Policies, TenantSetup, Notifications

CONSTANTS i1, i2, d1, d2, ra1, ra2, k1, k2, q1, q2, p1, e1, none

VARIABLE focus

MCRoles == [u \in User |-> "admin"]
MCTeams == [u \in User |-> {}]
MCProcesses == [c \in ZoneCall |-> "replica"]
MCMembers == [t \in PackTarget |-> IF t = "org" THEN {"c1", "c2"} ELSE {"c1"}]

workflowVars == <<focus, driftVars, scaffoldVars, zoneVars, policyVars, setupVars, notifyVars>>
WorkflowsInit ==
    /\ focus \in {"drift", "scaffold", "zone", "policies", "setup", "notify"}
    /\ DriftInit /\ ScaffoldInit /\ ZoneInit /\ PolicyInit /\ SetupInit /\ NotifyInit
    /\ focus # "setup" => adminGroup = {CHOOSE u \in PlatformUser : TRUE}
    /\ focus # "notify" => ListEndpoints = {}
WorkflowsNext ==
    \/ focus = "drift" /\ DriftNext /\ UNCHANGED <<focus, scaffoldVars, zoneVars, policyVars, setupVars, notifyVars>>
    \/ focus = "scaffold" /\ ScaffoldNext /\ UNCHANGED <<focus, driftVars, zoneVars, policyVars, setupVars, notifyVars>>
    \/ focus = "zone" /\ ZoneNext /\ UNCHANGED <<focus, driftVars, scaffoldVars, policyVars, setupVars, notifyVars>>
    \/ focus = "policies" /\ PolicyNext /\ UNCHANGED <<focus, driftVars, scaffoldVars, zoneVars, setupVars, notifyVars>>
    \/ focus = "setup" /\ SetupNext /\ UNCHANGED <<focus, driftVars, scaffoldVars, zoneVars, policyVars, notifyVars>>
    \/ focus = "notify" /\ NotifyNext /\ UNCHANGED <<focus, driftVars, scaffoldVars, zoneVars, policyVars, setupVars>>

\* The loops of the server run again and again, a call that was begun goes on, events are
\* handled, a server that is down is started, and the cloud makes progress.  Requests,
\* decisions and faults may never happen.
OnDrift(A) == focus = "drift" /\ A /\ UNCHANGED <<focus, scaffoldVars, zoneVars, policyVars, setupVars, notifyVars>>
OnScaffold(A) == focus = "scaffold" /\ A /\ UNCHANGED <<focus, driftVars, zoneVars, policyVars, setupVars, notifyVars>>
OnZone(A) == focus = "zone" /\ A /\ UNCHANGED <<focus, driftVars, scaffoldVars, policyVars, setupVars, notifyVars>>
OnPolicies(A) == focus = "policies" /\ A /\ UNCHANGED <<focus, driftVars, scaffoldVars, zoneVars, setupVars, notifyVars>>
OnSetup(A) == focus = "setup" /\ A /\ UNCHANGED <<focus, driftVars, scaffoldVars, zoneVars, policyVars, notifyVars>>
OnNotify(A) == focus = "notify" /\ A /\ UNCHANGED <<focus, driftVars, scaffoldVars, zoneVars, policyVars, setupVars>>
WorkflowsFairness ==
    /\ \A w \in DriftSweeper : WF_driftVars(OnDrift(SweepStep(w)))
    /\ WF_scaffoldVars(OnScaffold(ResumeStep)) /\ \A d \in Driver : WF_scaffoldVars(OnScaffold(DriverStep(d)))
    /\ WF_zoneVars(OnZone(CloudProgress)) /\ WF_zoneVars(OnZone(\E c \in ZoneCall : reconcileOnce(c)))
    /\ \A c \in ZoneCall : WF_zoneVars(OnZone(CallStep(c)))
    /\ \A c \in PolicyCall : WF_policyVars(OnPolicies(PolicyHandle(c))) /\ WF_policyVars(OnPolicies(PolicyCallReturns(c)))
    /\ \A p \in SetupProcess : WF_setupVars(OnSetup(TenantStep(p)))
    /\ \A r \in Server : WF_setupVars(OnSetup(BootStep(r)))
    /\ WF_setupVars(OnSetup(SyncReads)) /\ WF_setupVars(OnSetup(SyncWrites))
    /\ WF_notifyVars(OnNotify(HandlerStep))
WorkflowsSpec == WorkflowsInit /\ [][WorkflowsNext]_workflowVars /\ WorkflowsFairness

\* The components are well typed.
WorkflowsTypeOK == DriftTypeOK /\ ScaffoldTypeOK /\ ZoneTypeOK /\ PolicyTypeOK /\ SetupTypeOK /\ NotifyTypeOK

\* In the behaviours of TenantSetup every server comes up, whatever races for the platform
\* organization and whichever transaction fails, and the org_creator tuples settle on the
\* administrators' group, unless the seed was cut short between Keycloak and its row.
StartedServersComeUp == <>[](focus = "setup" => ServersUp \/ PlatformOrgSlug \in orphaned)

\* What a workflow has reported is true outside its own rows, whatever failed, crashed or ran
\* twice on the way: a completed run has made everything (Scaffold), an answered creation of a
\* tenant has made its creator its administrator, a failed one leaves no organization, a started
\* server has completed the tenants it found (TenantSetup), a handled event has a recorded delivery
\* per endpoint within its attempts (Notifications); and the components are well typed.
ReportedIsDone ==
    /\ WorkflowsTypeOK
    /\ CompletedRunIsDone
    /\ NoOrphanOrg /\ CreatorIsAdmin /\ BackfillHeals
    /\ HandledIsRecorded /\ AttemptsCapped

\* No resume, retry, redelivery or race gets around a decision: a zone is torn down only when that
\* was approved (ZoneFactory), a denied evaluation passes only under a valid exemption (Policies).
GatesHold == ZoneTeardownApproved /\ PassedIsExempt

\* Each workflow comes to rest, and a decided exemption stays decided: drift is recorded and resolved (Drift), runs and zones reach a
\* state in which people have a say (Scaffold, ZoneFactory), assigned packs are distributed
\* (Policies), servers come up (TenantSetup) and events are handled (Notifications).
WorkflowsSettle ==
    /\ DriftSettles /\ RunSettles /\ ZoneSettles /\ AssignedIsDistributed /\ StartedServersComeUp
    /\ EventsAreHandled /\ ExemptionFinal
=============================================================================
