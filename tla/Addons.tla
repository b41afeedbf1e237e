------------------------------- MODULE Addons -------------------------------
(***************************************************************************)
(* internal/addons: one catalog item, discovered on clusters by their      *)
(* agents and adopted under GitOps for one cluster or (row "*") for the    *)
(* fleet, updated, pruned and deleted, with the merge of pull requests and *)
(* the re-rendering of the fleet's manifest.                               *)
(*                                                                         *)
(* A call renders, writes to git, queues the registration and stores its   *)
(* row one after the other, from what it read first; calls overlap, fail   *)
(* and are interrupted in between.                                         *)
(***************************************************************************)
EXTENDS Caller, Naturals, FiniteSets

CONSTANTS AddonCluster,   \* clusters of the organization
          AddonId,        \* row ids
          AddonRepo,      \* repositories
          RepoOf,         \* the repository a row is rendered into: its cluster's baseline
          AddonVersion,   \* versions of the item
          PRPolicy,       \* whether the repository's commit policy, which may be edited, is pull_request
          AddonCall,      \* calls in progress at once
          NoAddon,        \* no row, no version
          MaxAddonRequests, MaxAddonFaults  \* bounds

ASSUME AddonAssumption ==
    /\ "*" \notin AddonCluster /\ NoAddon \notin AddonId \cup AddonVersion \cup AddonCluster \cup {"*"}
    /\ RepoOf \in [AddonCluster \cup {"*"} -> AddonRepo]
    /\ PRPolicy \subseteq BOOLEAN /\ {MaxAddonRequests, MaxAddonFaults} \subseteq Nat

VARIABLES addon,       \* cluster_addons rows of the item
          manifest,    \* what was last written for each row, merged or not
          gitFile,     \* what the base branch of each repository has in each file
          registered,  \* agent_commands: the cluster and the manifest of each registration
          addonCall,   \* calls in progress
          upClusters,  \* clusters that are active or degraded
          fleetEvents, \* cluster events the fleet reconciler has yet to handle
          addonAsked, addonFaults  \* bounds

addonVars == <<addon, manifest, gitFile, registered, addonCall, upClusters, fleetEvents, addonAsked, addonFaults>>

AddonKey == AddonCluster \cup {"*"}
\* pr: pr_url is set; old: a claim whose call is gone for more than 10 minutes.
ClusterAddon == [state : {"absent", "discovered", "adopting", "managed", "update_failed"},
                 id : AddonId \cup {NoAddon}, app : AddonId \cup {NoAddon},
                 version : AddonVersion \cup {NoAddon}, prune : BOOLEAN, pr : BOOLEAN]
Mode(k) == IF k = "*" THEN "applicationset" ELSE "application"
\* repoPath: addons/<the item>, whichever row it is, with a file for each mode.
AddonPath == AddonRepo \X {"application", "applicationset"}
pathOf(k) == <<RepoOf[k], Mode(k)>>
\* app: the application the file declares, of the row it was rendered for.
Manifest == [path : AddonPath \cup {NoAddon}, app : AddonId \cup {NoAddon}, version : AddonVersion \cup {NoAddon}, prune : BOOLEAN, merged : BOOLEAN,
             targets : SUBSET AddonCluster]
NoRow == [state |-> "absent", id |-> NoAddon, app |-> NoAddon, version |-> NoAddon,
          prune |-> FALSE, pr |-> FALSE]
NoManifest == [path |-> NoAddon, app |-> NoAddon, version |-> NoAddon, prune |-> FALSE, merged |-> FALSE, targets |-> {}]
Registration == [key : AddonKey \cup {NoAddon}, app : AddonId \cup {NoAddon}, version : AddonVersion \cup {NoAddon}]
NoRegistration == [key |-> NoAddon, app |-> NoAddon, version |-> NoAddon]
AddonCallRow == [pc : {"idle", "write", "register", "record", "merge", "ingest", "fleet"},
                 op : {"adopt", "update", "prune", "merge", "ingest", "fleet"},
                 key : AddonKey, row : ClusterAddon, inserted : BOOLEAN]
IdleAddonCall == [pc |-> "idle", op |-> "adopt", key |-> "*", row |-> NoRow, inserted |-> FALSE]

\* Rows, manifests, registrations and calls are well formed.
AddonTypeOK ==
    /\ addon \in [AddonKey -> ClusterAddon] /\ manifest \in [AddonId -> Manifest]
    /\ gitFile \in [AddonPath -> Manifest]
    /\ registered \in [AddonId -> Registration] /\ addonCall \in [AddonCall -> AddonCallRow]
    /\ upClusters \subseteq AddonCluster /\ fleetEvents \in BOOLEAN
    /\ addonAsked \in 0 .. MaxAddonRequests /\ addonFaults \in 0 .. MaxAddonFaults

AddonInit ==
    /\ addon = [k \in AddonKey |-> NoRow] /\ manifest = [i \in AddonId |-> NoManifest]
    /\ gitFile = [p \in AddonPath |-> NoManifest]
    /\ registered = [i \in AddonId |-> NoRegistration]
    /\ addonCall = [c \in AddonCall |-> IdleAddonCall]
    /\ upClusters = AddonCluster /\ fleetEvents = FALSE
    /\ addonAsked = 0 /\ addonFaults = 0

-----------------------------------------------------------------------------
(* Store *)

UsedIds == {addon[k].id : k \in AddonKey} \cup {addonCall[c].row.id : c \in AddonCall}
           \cup {i \in AddonId : manifest[i] # NoManifest}
FreshId == CHOOSE i \in AddonId \ UsedIds : TRUE

\* Mutant: the flag of the row that is written wins.
UpsertClusterAddonOverwrites(k, r) ==
    addon' = [addon EXCEPT ![k] = [r EXCEPT !.id = IF addon[k].state = "absent" THEN @ ELSE addon[k].id]]
\* UpsertClusterAddon: on conflict the row's id stays, a managed state stays, the
\* prune flag sticks and an empty pr_url does not clear the one there is.
UpsertClusterAddon(k, r) ==
    addon' = [addon EXCEPT ![k] =
        IF addon[k].state = "absent" THEN r
        ELSE [r EXCEPT !.id = addon[k].id, !.prune = @ \/ addon[k].prune, !.pr = @ \/ addon[k].pr]]

\* ClaimClusterAddonForAdoption: no row, a discovered one, or a claim of a call
\* that is gone.
Claimant(k) == \E c \in AddonCall : addonCall[c].op = "adopt" /\ addonCall[c].pc # "idle"
                                    /\ addonCall[c].key = k
Claimable(k) ==
    \/ addon[k].state = "absent" /\ AddonId \ UsedIds # {}
    \/ addon[k].state = "discovered"
    \/ addon[k].state = "adopting" /\ ~Claimant(k)
ClaimClusterAddonForAdoption(k) ==
    /\ Claimable(k)
    /\ addon' = [addon EXCEPT ![k].state = "adopting",
                              ![k].id = IF addon[k].state = "absent" THEN FreshId ELSE @]
\* ReleaseClusterAddonClaim: only while the row of that id is still claimed.
ReleaseClusterAddonClaim(call) ==
    LET k == call.key
    IN  addon' = IF addon[k].id # call.row.id \/ addon[k].state # "adopting" THEN addon
                 ELSE [addon EXCEPT ![k] = IF call.inserted THEN NoRow ELSE [@ EXCEPT !.state = "discovered"]]

\* AbsorbDiscoveredAddons deletes the sightings of single clusters.
AbsorbDiscoveredAddons(rows) ==
    [k \in AddonKey |-> IF k # "*" /\ rows[k].state = "discovered" THEN NoRow ELSE rows[k]]

-----------------------------------------------------------------------------
(* Service *)

\* resolveFleetTargets refuses an empty fleet; a single cluster is its own target.
resolveFleetTargets == upClusters
targetsForRow(k) == IF Mode(k) = "applicationset" THEN resolveFleetTargets ELSE {k}

Call(c, new) == addonCall' = [addonCall EXCEPT ![c] = new]

\* Adopt, up to the claim; every check before it leaves nothing behind.
Adopt(c, k, v) ==
    /\ addonCall[c].pc = "idle" /\ targetsForRow(k) # {}
    /\ ClaimClusterAddonForAdoption(k)
    /\ Call(c, [IdleAddonCall EXCEPT !.pc = "write", !.op = "adopt", !.key = k,
                   !.row = [NoRow EXCEPT !.state = "managed", !.id = addon'[k].id, !.app = addon'[k].id, !.version = v],
                   !.inserted = (addon[k].state = "absent")])
    /\ UNCHANGED <<manifest, gitFile, registered, upClusters, fleetEvents, addonFaults>>

\* Update and EnablePrune read the row and re-render from what they read.
rerender(c, op, k, r) ==
    /\ addonCall[c].pc = "idle" /\ targetsForRow(k) # {}
    /\ Call(c, [IdleAddonCall EXCEPT !.pc = "write", !.op = op, !.key = k,
                                     !.row = [r EXCEPT !.state = "managed", !.pr = FALSE]])
    /\ UNCHANGED <<addon, manifest, gitFile, registered, upClusters, fleetEvents, addonFaults>>
Update(c, k, v) ==
    /\ addon[k].state \in {"managed", "update_failed"}
    /\ rerender(c, "update", k, [addon[k] EXCEPT !.version = v])
EnablePrune(c, k) ==
    /\ addon[k].state = "managed" /\ ~addon[k].prune
    /\ rerender(c, "prune", k, [addon[k] EXCEPT !.prune = TRUE])

Rendered(call, pr) ==
    [path |-> pathOf(call.key), app |-> call.row.id, version |-> call.row.version, prune |-> call.row.prune,
     merged |-> ~pr, targets |-> targetsForRow(call.key)]
\* A commit to the base branch, or a pull request.
CommitOrPR(call, pr) ==
    /\ manifest' = [manifest EXCEPT ![call.row.id] = Rendered(call, pr)]
    /\ gitFile' = IF pr THEN gitFile ELSE [gitFile EXCEPT ![pathOf(call.key)] = Rendered(call, pr)]
\* Mutant: nothing is registered, and no merge waited for.
commitPerPolicySkips(c) ==
    /\ addonCall[c].pc = "write"
    /\ Call(c, [addonCall[c] EXCEPT !.pc = "record", !.row.pr = FALSE])
    /\ \E pr \in PRPolicy : CommitOrPR(addonCall[c], pr)
    /\ UNCHANGED <<addon, registered, upClusters, fleetEvents, addonAsked, addonFaults>>
\* commitPerPolicy: a pull request is registered once it is merged.
commitPerPolicy(c) ==
    /\ addonCall[c].pc = "write"
    /\ \E pr \in PRPolicy :
          /\ CommitOrPR(addonCall[c], pr)
          /\ Call(c, IF pr THEN [addonCall[c] EXCEPT !.pc = "record", !.row.pr = TRUE]
                     ELSE [addonCall[c] EXCEPT !.pc = "register"])
    /\ UNCHANGED <<addon, registered, upClusters, fleetEvents, addonAsked, addonFaults>>
\* enqueue under an id made of the application's name: ON CONFLICT DO NOTHING.
enqueue(i, k, a, v) ==
    registered' = [registered EXCEPT ![i] = IF @ = NoRegistration THEN [key |-> k, app |-> a, version |-> v] ELSE @]
enqueueRegistration(c) ==
    /\ addonCall[c].pc = "register"
    /\ enqueue(addonCall[c].row.id, addonCall[c].key, addonCall[c].row.id, addonCall[c].row.version)
    /\ Call(c, [addonCall[c] EXCEPT !.pc = "record"])
    /\ UNCHANGED <<addon, manifest, gitFile, upClusters, fleetEvents, addonAsked, addonFaults>>
RecordAddon(c) ==
    LET call == addonCall[c]
    IN  /\ call.pc = "record" /\ call.op \in {"adopt", "update", "prune"}
        /\ \/ /\ call.op = "adopt" /\ call.key = "*"
              /\ addon' = AbsorbDiscoveredAddons([addon EXCEPT !["*"] =
                    IF addon["*"].state = "absent" THEN call.row
                    ELSE [call.row EXCEPT !.id = addon["*"].id, !.prune = @ \/ addon["*"].prune,
                                          !.pr = @ \/ addon["*"].pr]])
           \/ ~(call.op = "adopt" /\ call.key = "*") /\ UpsertClusterAddon(call.key, call.row)
        /\ Call(c, IdleAddonCall)
        /\ UNCHANGED <<manifest, gitFile, registered, upClusters, fleetEvents, addonAsked, addonFaults>>
\* An error ends the call: an adoption releases its claim, an update marks its row.
markUpdateFailed(call) ==
    addon' = IF addon[call.key].id = call.row.id /\ addon[call.key].state # "absent"
             THEN [addon EXCEPT ![call.key].state = "update_failed"] ELSE addon
AddonCallFails(c) ==
    /\ addonCall[c].pc \in {"write", "register", "record"} /\ addonFaults < MaxAddonFaults
    /\ addonFaults' = addonFaults + 1 /\ Call(c, IdleAddonCall)
    /\ \/ addonCall[c].op = "adopt" /\ ReleaseClusterAddonClaim(addonCall[c])
       \/ addonCall[c].op = "update" /\ markUpdateFailed(addonCall[c])
       \/ addonCall[c].op \notin {"adopt", "update"} /\ UNCHANGED addon
    /\ UNCHANGED <<manifest, gitFile, registered, upClusters, fleetEvents, addonAsked>>
\* A replica stops in the middle of a call.
AddonCrash(c) ==
    /\ addonCall[c].pc # "idle" /\ addonFaults < MaxAddonFaults
    /\ addonFaults' = addonFaults + 1 /\ Call(c, IdleAddonCall)
    /\ UNCHANGED <<addon, manifest, gitFile, registered, upClusters, fleetEvents, addonAsked>>

\* Delete looks at no state and touches neither git nor the cluster.
DeleteAddon(k) ==
    /\ addon[k].state # "absent" /\ addon' = [addon EXCEPT ![k] = NoRow]
    /\ UNCHANGED <<manifest, gitFile, registered, addonCall, upClusters, fleetEvents, addonFaults>>

-----------------------------------------------------------------------------
(* Events *)

\* IngestDiscovery: the fleet row is read, and the sighting stored after.
IngestDiscovery(c, k) ==
    /\ addonCall[c].pc = "idle" /\ k # "*" /\ addon["*"].state \in {"absent", "discovered"}
    /\ addon[k].state = "absent" /\ AddonId \ UsedIds # {}
    /\ Call(c, [IdleAddonCall EXCEPT !.pc = "ingest", !.op = "ingest", !.key = k])
    /\ UNCHANGED <<addon, manifest, gitFile, registered, upClusters, fleetEvents, addonAsked, addonFaults>>
\* UpsertDiscoveredAddon touches a row only while it is discovered.
UpsertDiscoveredAddon(c) ==
    /\ addonCall[c].pc = "ingest" /\ AddonId \ UsedIds # {} /\ Call(c, IdleAddonCall)
    /\ addon' = IF addon[addonCall[c].key].state # "absent" THEN addon
                ELSE [addon EXCEPT ![addonCall[c].key] = [NoRow EXCEPT !.state = "discovered", !.id = FreshId]]
    /\ UNCHANGED <<manifest, gitFile, registered, upClusters, fleetEvents, addonAsked, addonFaults>>

\* A pull request is merged (external): as it was written or, once the base branch has
\* the file of another row, with that.
MergeAddonPR(i) ==
    /\ manifest[i] # NoManifest /\ ~manifest[i].merged
    /\ \E f \in {manifest[i], gitFile[manifest[i].path]} :
          /\ f # NoManifest
          /\ manifest' = [manifest EXCEPT ![i] = [f EXCEPT !.merged = TRUE]]
          /\ gitFile' = [gitFile EXCEPT ![manifest[i].path] = [f EXCEPT !.merged = TRUE]]
    /\ UNCHANGED <<addon, registered, addonCall, upClusters, fleetEvents, addonAsked, addonFaults>>
\* FinalizeAddonMerge: what the file has at the merge is queued before the merge is recorded, so a
\* redelivered webhook repeats what was not done.  An empty fleet has no cluster
\* to queue it for.
FinalizeAddonMerge(c, k) ==
    /\ addonCall[c].pc = "idle" /\ addon[k].pr /\ manifest[addon[k].id].merged
    /\ IF targetsForRow(k) = {} THEN UNCHANGED registered
       ELSE enqueue(addon[k].id, k, manifest[addon[k].id].app, manifest[addon[k].id].version)
    /\ Call(c, [IdleAddonCall EXCEPT !.pc = "merge", !.op = "merge", !.key = k, !.row = addon[k]])
    /\ UNCHANGED <<addon, manifest, gitFile, upClusters, fleetEvents, addonAsked, addonFaults>>
\* MarkAddonPRMerged: the pr_url is cleared, whichever it is.
markPRMerged(c) ==
    /\ addonCall[c].pc = "merge" /\ Call(c, IdleAddonCall)
    /\ addon' = [k \in AddonKey |-> IF addon[k].state # "absent" /\ addon[k].id = addonCall[c].row.id
                                    THEN [addon[k] EXCEPT !.pr = FALSE] ELSE addon[k]]
    /\ UNCHANGED <<manifest, gitFile, registered, upClusters, fleetEvents, addonAsked, addonFaults>>

\* Clusters join and leave the fleet; an event follows (external).
AddonClusterChanges(k) ==
    /\ addonAsked < MaxAddonRequests /\ addonAsked' = addonAsked + 1
    /\ upClusters' = IF k \in upClusters THEN upClusters \ {k} ELSE upClusters \cup {k}
    /\ fleetEvents' = TRUE
    /\ UNCHANGED <<addon, manifest, gitFile, registered, addonCall, addonFaults>>
\* FleetReconciler.Handle: RerenderFleetAddons lists the managed fleet rows, and
\* rerenderFleetAddon commits what changed.  Its errors are logged, not retried.
RerenderFleetAddons(c) ==
    /\ fleetEvents /\ fleetEvents' = FALSE /\ addonCall[c].pc = "idle"
    /\ Call(c, IF addon["*"].state # "managed" \/ upClusters = {} THEN IdleAddonCall
               ELSE [IdleAddonCall EXCEPT !.pc = "fleet", !.op = "fleet", !.row = addon["*"]])
    /\ UNCHANGED <<addon, manifest, gitFile, registered, upClusters, addonAsked, addonFaults>>
rerenderFleetAddon(c) ==
    /\ addonCall[c].pc = "fleet" /\ Call(c, IdleAddonCall)
    /\ IF gitFile[pathOf("*")] = Rendered(addonCall[c], FALSE) THEN UNCHANGED <<manifest, gitFile>>
       ELSE \E pr \in PRPolicy : CommitOrPR(addonCall[c], pr)
    /\ UNCHANGED <<addon, registered, upClusters, fleetEvents, addonAsked, addonFaults>>

-----------------------------------------------------------------------------
(* Handlers *)

authorizeAddon(u) ==
    /\ Authorized(u, "deployments_create")
    /\ addonAsked < MaxAddonRequests /\ addonAsked' = addonAsked + 1
httpAdopt(u, c, k) == authorizeAddon(u) /\ \E v \in AddonVersion : Adopt(c, k, v)
httpUpdateAddon(u, c, k) == authorizeAddon(u) /\ \E v \in AddonVersion : Update(c, k, v)
httpEnablePrune(u, c, k) == authorizeAddon(u) /\ EnablePrune(c, k)
httpDeleteAddon(u, k) == authorizeAddon(u) /\ DeleteAddon(k)
AddonRoutes ==
    \E u \in User, c \in AddonCall, k \in AddonKey :
        httpAdopt(u, c, k) \/ httpUpdateAddon(u, c, k) \/ httpEnablePrune(u, c, k) \/ httpDeleteAddon(u, k)

AddonStep(c) ==
    \/ commitPerPolicy(c) \/ enqueueRegistration(c) \/ RecordAddon(c) \/ UpsertDiscoveredAddon(c)
    \/ markPRMerged(c) \/ rerenderFleetAddon(c)
AddonNext ==
    \/ AddonRoutes
    \/ \E c \in AddonCall : AddonStep(c) \/ AddonCallFails(c) \/ AddonCrash(c) \/ RerenderFleetAddons(c)
    \/ \E c \in AddonCall, k \in AddonKey : IngestDiscovery(c, k) \/ FinalizeAddonMerge(c, k)
    \/ \E i \in AddonId : MergeAddonPR(i)
    \/ \E k \in AddonCluster : AddonClusterChanges(k)

-----------------------------------------------------------------------------
(* Properties *)

\* EnablePrune answers that pruning is on once the row says so: the flag stays in the row as
\* long as the row exists, though adoptions, updates and merges write the whole row back from
\* what they read before.  It says nothing of git, where the last writer wins (GitShowsRow).
PruneKept == \A k \in AddonKey : addon[k].prune /\ addon'[k].id = addon[k].id => addon'[k].prune

\* A row that is managed and waits for no pull request has a registration queued for its
\* cluster, whatever failed, crashed or was redelivered: under its own application, unless a
\* call that read an earlier row, deleted since, wrote over it.  What the manifest of that
\* registration declares is another matter (RegistersItsOwn).
LiveIsRegistered ==
    \A k \in AddonCluster :
        addon[k].state = "managed" /\ ~addon[k].pr =>
            \E i \in AddonId : registered[i].key = k /\ (addon[k].id = addon[k].app => i = addon[k].app)

\* With nothing in progress, the cluster was given the version the row shows.
UpdateReachesCluster ==
    (\A c \in AddonCall : addonCall[c].pc = "idle") =>
        \A k \in AddonKey : addon[k].state = "managed" /\ ~addon[k].pr =>
            registered[addon[k].app].version = addon[k].version

-----------------------------------------------------------------------------
(* Statements the code does not keep: TLC finds a counterexample of each  *)
(* (README, "What the code does not keep").                               *)

\* commitPerPolicy: a managed fleet addon that waits for no pull request is registered.
FleetIsRegistered ==
    addon["*"].state = "managed" /\ ~addon["*"].pr => registered[addon["*"].app] # NoRegistration

\* rerender, UpsertClusterAddon: with nothing in progress, git has for a row the version and the
\* prune flag that the row shows.  A call that read the row before another one was recorded
\* commits its own version, and prune: false over prune: true.
GitShowsRow ==
    (\A c \in AddonCall : addonCall[c].pc = "idle") =>
        \A k \in AddonKey : addon[k].state = "managed" /\ ~addon[k].pr =>
            /\ manifest[addon[k].id].version = addon[k].version
            /\ manifest[addon[k].id].prune = addon[k].prune

\* repoPath: with nothing in progress, the file that a row is rendered into declares its
\* application; two clusters of one repository write the same file.
FileIsOwn ==
    (\A c \in AddonCall : addonCall[c].pc = "idle") =>
        \A k \in AddonKey : addon[k].state = "managed" /\ ~addon[k].pr =>
            gitFile[pathOf(k)].app = addon[k].id

\* FinalizePRMerge: what is registered for a row declares its application.
RegistersItsOwn == \A i \in AddonId : registered[i] # NoRegistration => registered[i].app = i

\* The row that is managed names the application that was registered. It takes five requests to refute.
RowNamesRegistered ==
    \A k \in AddonCluster : addon[k].state = "managed" /\ ~addon[k].pr =>
        \E i \in {addon[k].id, addon[k].app} : registered[i] # NoRegistration
=============================================================================
