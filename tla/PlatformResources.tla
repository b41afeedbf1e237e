-------------------------- MODULE PlatformResources --------------------------
(***************************************************************************)
(* internal/platformresources: the rows of one tenant's platform           *)
(* resources, the manifests rendered for them in the platform repository,  *)
(* the statuses agents report back, the resync an operator asks for, and   *)
(* the removal of the manifests when the tenant is deleted.                *)
(***************************************************************************)
EXTENDS Caller, Naturals, Sequences, FiniteSets

CONSTANTS BaseResource,      \* realm, DNS zone, namespace: one row each
          ClientResource,    \* keycloak clients of clusters
          PlatformCluster, OrgCluster,  \* clusters of the platform and of the tenant
          ResourceCall,      \* calls in progress at once
          MaxResourceRequests, MaxResourceFaults, MaxHealthChanges, MaxInFlight  \* bounds

ASSUME ResourceAssumption ==
    /\ BaseResource \cap ClientResource = {} /\ ClientResource # {} /\ IsFiniteSet(BaseResource \cup ClientResource)
    /\ PlatformCluster \cap OrgCluster = {}
    /\ MaxResourceRequests \in Nat /\ MaxResourceFaults \in Nat /\ MaxHealthChanges \in Nat /\ MaxInFlight \in Nat

VARIABLES prRow,        \* platform_resources.status
          prFiles,      \* manifests in the platform repository
          kcClients,    \* clients that exist in Keycloak
          resourceHealth,       \* what the cluster makes of each manifest
          inFlight,     \* status updates on their way, in the order of the stream
          platformOrg,  \* the platform organization exists
          clustersOf,   \* which clusters are registered
          resyncs,      \* resync commands waiting, by cluster
          everQueued,   \* ids ever used, by cluster: an id is queued once
          prCall,       \* calls in progress
          answered,     \* reconciles answered with success
          missed,       \* resources one of whose updates was lost or met no row
          prOverlap,    \* a registration or a reconcile ran beside the teardown, or was cut short
          prAsked, prFaults, prChanges  \* bounds

registryVars == <<platformOrg, clustersOf>>
resourceVars == <<prRow, prFiles, kcClients, resourceHealth, inFlight, registryVars, resyncs, everQueued, prCall,
                  answered, missed, prOverlap, prAsked, prFaults, prChanges>>

Resource == BaseResource \cup ClientResource
RenderedFile == Resource \cup {"project"}
AnyCluster == PlatformCluster \cup OrgCluster
PlatformResourceStatus == {"ready", "reconciling", "failed"}
Health == {"progressing", "healthy", "degraded"}
StatusUpdate == [resource : Resource, health : Health]
AClient == CHOOSE r \in ClientResource : TRUE
IdlePrCall == [op |-> "none", pc |-> "idle", client |-> AClient, left |-> {}, nonce |-> 0]

\* Rows, manifests, updates, commands and calls are well formed.
ResourceTypeOK ==
    /\ prRow \in [Resource -> PlatformResourceStatus \cup {"none"}] /\ prFiles \subseteq RenderedFile
    /\ kcClients \subseteq ClientResource /\ resourceHealth \in [Resource -> Health \cup {"none"}]
    /\ inFlight \in Seq(StatusUpdate) /\ platformOrg \in BOOLEAN /\ clustersOf \subseteq AnyCluster
    /\ resyncs \in [AnyCluster -> SUBSET (1 .. MaxResourceRequests)]
    /\ everQueued \in [AnyCluster -> SUBSET (1 .. MaxResourceRequests)]
    /\ prCall \in [ResourceCall -> [op : {"none", "register", "reconcile", "teardown"},
          pc : {"idle", "client", "render", "row", "mark", "commit", "notify", "record", "delete"},
          client : ClientResource, left : SUBSET (AnyCluster \cup RenderedFile), nonce : 0 .. MaxResourceRequests]]
    /\ answered \subseteq 1 .. MaxResourceRequests /\ missed \subseteq Resource /\ prOverlap \in BOOLEAN
    /\ prAsked \in 0 .. MaxResourceRequests /\ prFaults \in 0 .. MaxResourceFaults /\ prChanges \in 0 .. MaxHealthChanges

\* A tenant whose base resources were recorded when it was created, or were not.  The
\* platform organization is there from the start of the server, unless it was
\* decommissioned as any tenant may be, and its clusters with it.
ResourceInit ==
    /\ \E b \in {"none", "reconciling"} :
          prRow = [r \in Resource |-> IF r \in BaseResource THEN b ELSE "none"]
    /\ platformOrg \in BOOLEAN /\ clustersOf \in {OrgCluster} \cup (IF platformOrg THEN {AnyCluster} ELSE {})
    /\ prFiles = {} /\ kcClients = {} /\ resourceHealth = [r \in Resource |-> "none"] /\ inFlight = <<>>
    /\ resyncs = [c \in AnyCluster |-> {}] /\ everQueued = [c \in AnyCluster |-> {}]
    /\ prCall = [k \in ResourceCall |-> IdlePrCall] /\ answered = {} /\ missed = {} /\ prOverlap = FALSE
    /\ prAsked = 0 /\ prFaults = 0 /\ prChanges = 0

boundsSame == UNCHANGED <<registryVars, prAsked, prFaults, prChanges>>
agentSame == UNCHANGED <<resourceHealth, inFlight, missed>>
queueSame == UNCHANGED <<resyncs, everQueued, answered>>
PrGoto(k, pc) == prCall' = [prCall EXCEPT ![k].pc = pc]
PrReturn(k) == prCall' = [prCall EXCEPT ![k] = IdlePrCall]
TornDownBeside(k) == prOverlap \/ \E d \in ResourceCall \ {k} : prCall[d].op = "teardown"

-----------------------------------------------------------------------------
(* Rows *)

\* The upsert keeps the status of a row that exists.
UpsertDesired(r) == prRow' = [prRow EXCEPT ![r] = IF @ = "none" THEN "reconciling" ELSE @]
EnsureDesired(r) == r \in Resource /\ UpsertDesired(r)
MarkProvisionedRow(r) == prRow' = [prRow EXCEPT ![r] = IF @ = "none" THEN @ ELSE "ready"]
MarkProvisioned(r) == MarkProvisionedRow(r)
\* The server starts: base rows, and clients that Keycloak knows.
BackfillBase ==
    /\ \E r \in BaseResource : prRow[r] = "none" /\ EnsureDesired(r)
    /\ UNCHANGED <<prFiles, kcClients, prCall, prOverlap>> /\ agentSame /\ queueSame /\ boundsSame
BackfillServerProvisioned ==
    /\ \E r \in kcClients : prRow[r] \notin {"none", "ready"} /\ MarkProvisioned(r)
    /\ UNCHANGED <<prFiles, kcClients, prCall, prOverlap>> /\ agentSame /\ queueSame /\ boundsSame

-----------------------------------------------------------------------------
(* Manifests *)

\* AppProject, DNS record, namespace and realm, whether or not their rows exist.
renderTenantDescriptors == BaseResource \cup {"project"}
RenderTenantFiles == renderTenantDescriptors
renderClientClaim(r) == {r}
\* What a teardown removes: the same renders, and a claim for every client that has a row.
clientClaimRenderPaths == UNION {renderClientClaim(r) : r \in {c \in ClientResource : prRow[c] # "none"}}
TenantRenderPaths == renderTenantDescriptors \cup clientClaimRenderPaths
CommitFiles(files) == prFiles' = prFiles \cup files
DeleteFiles(files) == prFiles' = prFiles \ files

\* RegisterCluster: the client, its claim, its row, and at the end the mark.
RenderKeycloakClientClaim(r) == CommitFiles(renderClientClaim(r))
RegistrationStep(k) ==
    /\ prCall[k].op = "register"
    /\ LET r == prCall[k].client
       IN \/ prCall[k].pc = "client" /\ kcClients' = kcClients \cup {r} /\ PrGoto(k, "render") /\ UNCHANGED <<prRow, prFiles>>
          \/ prCall[k].pc = "render" /\ RenderKeycloakClientClaim(r) /\ PrGoto(k, "row") /\ UNCHANGED <<prRow, kcClients>>
          \/ prCall[k].pc = "row" /\ EnsureDesired(r) /\ PrGoto(k, "mark") /\ UNCHANGED <<prFiles, kcClients>>
          \/ prCall[k].pc = "mark" /\ MarkProvisioned(r) /\ PrReturn(k) /\ UNCHANGED <<prFiles, kcClients>>
    /\ prOverlap' = TornDownBeside(k) /\ agentSame /\ queueSame /\ boundsSame

-----------------------------------------------------------------------------
(* Reconcile *)

\* The clusters of the platform, and those of the tenant where the platform has none;
\* no cluster at all where there is no platform organization.
ResyncTargets ==
    IF ~platformOrg THEN {}
    ELSE IF clustersOf \cap PlatformCluster # {} THEN clustersOf \cap PlatformCluster ELSE clustersOf
\* ON CONFLICT DO NOTHING: an id that was ever used queues nothing.
QueueResync(c, id) ==
    /\ resyncs' = IF id \in everQueued[c] THEN resyncs ELSE [resyncs EXCEPT ![c] = @ \cup {id}]
    /\ everQueued' = [everQueued EXCEPT ![c] = @ \cup {id}]
enqueueResync(c, nonce) == QueueResync(c, nonce)
RequestReconcile(k) ==
    /\ prCall[k].op = "reconcile" /\ prCall[k].pc = "commit" /\ CommitFiles(RenderTenantFiles)
    /\ prCall' = [prCall EXCEPT ![k].pc = "notify", ![k].left = ResyncTargets]
    /\ prOverlap' = TornDownBeside(k) /\ UNCHANGED <<prRow, kcClients>> /\ agentSame /\ queueSame /\ boundsSame
NotifiesCluster(k) ==
    /\ prCall[k].op = "reconcile" /\ prCall[k].pc = "notify"
    /\ \/ \E c \in prCall[k].left :
             enqueueResync(c, prCall[k].nonce) /\ prCall' = [prCall EXCEPT ![k].left = @ \ {c}]
       \/ prCall[k].left = {} /\ PrGoto(k, "record") /\ UNCHANGED <<resyncs, everQueued>>
    /\ UNCHANGED <<prRow, prFiles, kcClients, answered, prOverlap>> /\ agentSame /\ boundsSame
ReconcileTx(k) ==
    /\ prCall[k].op = "reconcile" /\ prCall[k].pc = "record" /\ PrReturn(k)
    /\ answered' = answered \cup {prCall[k].nonce}
    /\ UNCHANGED <<prRow, prFiles, kcClients, resyncs, everQueued, prOverlap>> /\ agentSame /\ boundsSame

-----------------------------------------------------------------------------
(* Teardown: the paths are computed, then removed in one commit *)

TeardownStep(k) ==
    /\ prCall[k].op = "teardown"
    /\ \/ /\ prCall[k].pc = "commit" /\ UNCHANGED prFiles
          /\ prCall' = [prCall EXCEPT ![k].pc = "delete", ![k].left = TenantRenderPaths]
       \/ prCall[k].pc = "delete" /\ DeleteFiles(prCall[k].left) /\ PrReturn(k)
    /\ prOverlap' = (prOverlap \/ \E d \in ResourceCall \ {k} : prCall[d].op \in {"register", "reconcile"})
    /\ UNCHANGED <<prRow, kcClients>> /\ agentSame /\ queueSame /\ boundsSame
PrCallFails(k) ==
    /\ prCall[k] # IdlePrCall /\ PrReturn(k) /\ prOverlap' = TRUE /\ prFaults < MaxResourceFaults /\ prFaults' = prFaults + 1
    /\ UNCHANGED <<prRow, prFiles, kcClients, registryVars, prAsked, prChanges>> /\ agentSame /\ queueSame
ResourceStep(k) ==
    RegistrationStep(k) \/ RequestReconcile(k) \/ NotifiesCluster(k) \/ ReconcileTx(k) \/ TeardownStep(k)

-----------------------------------------------------------------------------
(* Status updates *)

deriveStatus(h) == CASE h = "healthy" -> "ready" [] h = "degraded" -> "failed" [] OTHER -> "reconciling"
\* The cluster takes up a manifest, or its state changes; the agent reports it.
ClusterChanges ==
    /\ prChanges < MaxHealthChanges /\ prChanges' = prChanges + 1 /\ Len(inFlight) < MaxInFlight
    /\ \E r \in prFiles \cap Resource, h \in Health :
          /\ h # resourceHealth[r] /\ resourceHealth' = [resourceHealth EXCEPT ![r] = h]
          /\ inFlight' = Append(inFlight, [resource |-> r, health |-> h])
    /\ UNCHANGED <<prRow, prFiles, kcClients, registryVars, prCall, missed, prOverlap, prAsked, prFaults>> /\ queueSame
\* The state of everything in the cluster, one report each.
Snapshot ==
    LET known == {r \in Resource : resourceHealth[r] # "none"}
        order == CHOOSE f \in [1 .. Cardinality(known) -> known] : \A r \in known : \E i \in DOMAIN f : f[i] = r
    IN  [i \in DOMAIN order |-> [resource |-> order[i], health |-> resourceHealth[order[i]]]]
\* The agent answers a resync with it.
AgentResyncs(c) ==
    /\ Len(inFlight) < MaxInFlight
    /\ \E id \in resyncs[c] : resyncs' = [resyncs EXCEPT ![c] = @ \ {id}]
    /\ inFlight' = inFlight \o Snapshot
    /\ missed' = {}
    /\ UNCHANGED <<prRow, prFiles, kcClients, resourceHealth, registryVars, everQueued, prCall, answered, prOverlap, prAsked, prFaults, prChanges>>
\* The stream breaks and what was on it is gone.
StreamBreaks ==
    /\ inFlight # <<>> /\ inFlight' = <<>> /\ prFaults < MaxResourceFaults /\ prFaults' = prFaults + 1
    /\ missed' = missed \cup {inFlight[i].resource : i \in DOMAIN inFlight}
    /\ UNCHANGED <<prRow, prFiles, kcClients, resourceHealth, registryVars, prCall, prOverlap, prAsked, prChanges>> /\ queueSame
\* Mutant: a row that is ready stays ready.
ApplyStatusRowOnce(r, status) == prRow' = [prRow EXCEPT ![r] = IF @ \in {"none", "ready"} THEN @ ELSE status]
ApplyStatusRow(r, status) == prRow' = [prRow EXCEPT ![r] = IF @ = "none" THEN @ ELSE status]
\* statusSinkRouter hands the kinds of this module over, whichever cluster reports them.
ApplyResourceStatus ==
    /\ inFlight # <<>> /\ inFlight' = Tail(inFlight)
    /\ ApplyStatusRow(Head(inFlight).resource, deriveStatus(Head(inFlight).health))
    /\ missed' = IF prRow[Head(inFlight).resource] = "none" THEN missed \cup {Head(inFlight).resource} ELSE missed
    /\ UNCHANGED <<prFiles, kcClients, resourceHealth, registryVars, prCall, prOverlap, prAsked, prFaults, prChanges>> /\ queueSame

-----------------------------------------------------------------------------
(* Callers *)

BeginResource(k, call) ==
    /\ prCall[k] = IdlePrCall /\ prCall' = [prCall EXCEPT ![k] = call]
    /\ prAsked < MaxResourceRequests /\ prAsked' = prAsked + 1
    /\ UNCHANGED <<prRow, prFiles, kcClients, registryVars, prOverlap, prFaults, prChanges>> /\ agentSame /\ queueSame
authorizeResources(u, relation) == Authorized(u, relation)
ListResources == {r \in Resource : prRow[r] # "none"}
reconcile(u, k) ==
    authorizeResources(u, "clusters_register") /\ BeginResource(k, [IdlePrCall EXCEPT !.op = "reconcile", !.pc = "commit", !.nonce = prAsked + 1])
RegisterClusterBegins(k) ==
    \E r \in ClientResource : BeginResource(k, [IdlePrCall EXCEPT !.op = "register", !.pc = "client", !.client = r])
TeardownBegins(k) == BeginResource(k, [IdlePrCall EXCEPT !.op = "teardown", !.pc = "commit"])

ResourceNext ==
    \/ \E k \in ResourceCall :
          \/ ResourceStep(k) \/ PrCallFails(k) \/ RegisterClusterBegins(k) \/ TeardownBegins(k)
          \/ \E u \in User : reconcile(u, k)
    \/ BackfillBase \/ BackfillServerProvisioned
    \/ ClusterChanges \/ StreamBreaks \/ ApplyResourceStatus \/ \E c \in AnyCluster : AgentResyncs(c)
ResourceSpec == ResourceInit /\ [][ResourceNext]_resourceVars

-----------------------------------------------------------------------------
(* Properties *)

\* A teardown removes every manifest that was rendered for the tenant: the renders and
\* the paths computed for the removal agree, claims of clients included, as long as
\* nothing was rendered meanwhile and no registration was cut short.
TeardownIsClean ==
    [][\A k \in ResourceCall :
          prCall[k].op = "teardown" /\ prCall[k].pc = "delete" /\ prCall'[k] = IdlePrCall /\ ~prOverlap' => prFiles' = {}]_resourceVars

\* Every reconcile that was answered with success put a command of its own into the
\* queue of every cluster the code addresses: a second one is not swallowed by the first.
EveryReconcileNotifies == \A c \in ResyncTargets : Cardinality(everQueued[c]) >= Cardinality(answered)

\* Not kept by the code: without the platform organization a reconcile is answered with
\* success and no agent is told, though the tenant has clusters.
ReconcileReachesAnAgent == answered # {} /\ clustersOf # {} => \E c \in clustersOf : everQueued[c] # {}

\* The status of a base resource settles on what the cluster last made of it, unless an
\* update of it was lost, or came before its row, and no resync followed.
StatusFollowsHealth ==
    <>[](\A r \in BaseResource : resourceHealth[r] # "none" /\ r \notin missed => prRow[r] = deriveStatus(resourceHealth[r]))
=============================================================================
