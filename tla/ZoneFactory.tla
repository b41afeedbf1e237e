---------------------------- MODULE ZoneFactory ----------------------------
(***************************************************************************)
(* internal/tenantzonefactory: one tenant zone, vended and decommissioned  *)
(* by chains of steps with effects in AWS, Crossplane and the other        *)
(* services, each behind an approval.                                      *)
(*                                                                         *)
(* A call is one entry into the service: an HTTP request, the delivery of  *)
(* a decided approval, or a tick of the reconcile loop.  It reads the zone *)
(* row first and waits for the mutex of the zone in its process after, so  *)
(* it works on the row it read, and every write is of the whole row.       *)
(***************************************************************************)
EXTENDS Caller, Naturals, Sequences

CONSTANTS ZoneCall,          \* calls that may be in progress at once
          ProcessOf,         \* the replica each call is in
          ZoneRequestId,     \* approval requests: "vend" or "decommission" ones
          NoZoneRequest,
          ApprovalRequired,  \* Config.ApprovalRequired
          MaxZoneAttempts,   \* Config.MaxAttempts
          MaxZoneRequests, MaxZoneFaults, MaxRedeliveries  \* bounds

ASSUME ZoneAssumption ==
    /\ DOMAIN ProcessOf = ZoneCall /\ NoZoneRequest \notin ZoneRequestId
    /\ ApprovalRequired \in BOOLEAN
    /\ {MaxZoneAttempts, MaxZoneRequests, MaxZoneFaults, MaxRedeliveries} \subseteq Nat

VARIABLES zone,         \* tenant_zones row
          zoneStep,     \* tenant_zone_steps rows
          zoneRequest,  \* approval requests of the zone
          cloud,        \* what the steps left outside
          call,         \* calls in progress
          zoneAsked, zoneFaults, redelivered  \* bounds

zoneVars == <<zone, zoneStep, zoneRequest, cloud, call, zoneAsked, zoneFaults, redelivered>>

ProvisionOrder == <<"preflight", "account_vend", "trust_bootstrap", "eks_provision", "inari_wiring">>
DecommissionOrder == <<"cordon", "drain", "platform_manifests_delete", "eks_delete",
                       "account_close", "identity_revoke", "audit_archive">>
StepsOf(order) == IF order = "provision" THEN ProvisionOrder ELSE DecommissionOrder
ZoneStepName == {ProvisionOrder[i] : i \in DOMAIN ProvisionOrder}
                \cup {DecommissionOrder[i] : i \in DOMAIN DecommissionOrder}

ZoneState == {"absent", "requested", "pending_approval", "provisioning", "wiring", "active",
              "decommission_pending_approval", "cordoning", "draining", "failed",
              "manual_intervention", "closed"}
\* account: aws_account_id is set; wired: the ids that WireZone returned are.
TenantZone == [state : ZoneState, account : BOOLEAN, wired : BOOLEAN]
MaxRef == 2
TenantZoneStep == [status : {"pending", "waiting", "failed", "succeeded"},
                   ref : 0 .. MaxRef, attempts : 0 .. MaxZoneAttempts + 1]
ZoneApproval == [action : {"none", "vend", "decommission"}, prior : {"active", "failed"},
                 state : {"pending", "approved", "rejected"}]
Cloud == [account : {"none", "creating", "failed", "open", "closed"},
          cluster : [1 .. MaxRef -> {"none", "creating", "ready", "deleting", "gone"}],
          role : BOOLEAN, org : BOOLEAN, cordoned : BOOLEAN]
InProgress == [pc : {"idle", "get", "infer", "gate", "park", "ungated", "set", "deny", "lock", "run", "persist",
                     "settle", "asked", "start"},
               zone : TenantZone, steps : [ZoneStepName -> TenantZoneStep], order : {"provision", "decommission"},
               at : ZoneStepName, request : ZoneRequestId \cup {NoZoneRequest}]
IdleCall == [pc |-> "idle", zone |-> [state |-> "absent", account |-> FALSE, wired |-> FALSE],
             steps |-> [n \in ZoneStepName |-> [status |-> "pending", ref |-> 0, attempts |-> 0]],
             order |-> "provision", at |-> "preflight", request |-> NoZoneRequest]

\* Rows, requests, the cloud and the calls are well formed.
ZoneTypeOK ==
    /\ zone \in TenantZone /\ zoneStep \in [ZoneStepName -> TenantZoneStep]
    /\ zoneRequest \in [ZoneRequestId -> ZoneApproval] /\ cloud \in Cloud
    /\ call \in [ZoneCall -> InProgress]
    /\ zoneAsked \in 0 .. MaxZoneRequests /\ zoneFaults \in 0 .. MaxZoneFaults
    /\ redelivered \in 0 .. MaxRedeliveries

ZoneInit ==
    /\ zone = IdleCall.zone /\ zoneStep = IdleCall.steps
    /\ zoneRequest = [r \in ZoneRequestId |-> [action |-> "none", prior |-> "active", state |-> "pending"]]
    /\ cloud = [account |-> "none", cluster |-> [i \in 1 .. MaxRef |-> "none"], role |-> FALSE,
                org |-> FALSE, cordoned |-> FALSE]
    /\ call = [c \in ZoneCall |-> IdleCall]
    /\ zoneAsked = 0 /\ zoneFaults = 0 /\ redelivered = 0

\* Store.UpdateZone writes the whole row that the call holds.
UpdateZone(z) == zone' = z

-----------------------------------------------------------------------------
(* Step functions: what a step leaves in the cloud, in its row and in the   *)
(* zone of the call (rc), and whether it is done.                           *)

Outcome(cl, z, s, done) == [cloud |-> cl, zone |-> z, step |-> s, done |-> done]
Done(rc) == Outcome(cloud, rc.zone, rc.steps[rc.at], TRUE)
Wait(rc) == Outcome(cloud, rc.zone, rc.steps[rc.at], FALSE)

stepPreflight(rc) == Done(rc)
\* CreateAccount under the zone's token joins a vend that has not failed; the
\* answer is polled, and a failed vend clears the reference.
CreateAccount == [cloud EXCEPT !.account = IF @ \in {"none", "failed"} THEN "creating" ELSE @]
stepAccountVend(rc) ==
    LET st == rc.steps[rc.at]
    IN CASE st.ref = 0 -> Outcome(CreateAccount, rc.zone, [st EXCEPT !.ref = 1], FALSE)
         [] st.ref # 0 /\ cloud.account \in {"open", "closed"} ->
               Outcome(cloud, [rc.zone EXCEPT !.account = TRUE], st, TRUE)
         [] OTHER -> Wait(rc)
stepTrustBootstrap(rc) == Outcome([cloud EXCEPT !.role = TRUE], rc.zone, rc.steps[rc.at], TRUE)
\* ApplyEKSMR names a new managed resource each time.
NewCluster == CHOOSE i \in 1 .. MaxRef : cloud.cluster[i] = "none" \/ i = MaxRef
stepEKSProvision(rc) ==
    LET st == rc.steps[rc.at]
    IN CASE st.ref = 0 -> Outcome([cloud EXCEPT !.cluster[NewCluster] = "creating"], rc.zone,
                                  [st EXCEPT !.ref = NewCluster], FALSE)
         [] st.ref # 0 /\ cloud.cluster[st.ref] = "ready" -> Done(rc)
         [] OTHER -> Wait(rc)
\* WireZone creates or adopts the organization, the cloud account, the cluster,
\* its token and the repository; the ids reach the row when all succeeded.
WireZone == [cloud EXCEPT !.org = TRUE]
stepInariWiring(rc) == Outcome(WireZone, [rc.zone EXCEPT !.wired = TRUE], rc.steps[rc.at], TRUE)

stepCordon(rc) ==
    IF ~rc.zone.wired THEN Done(rc)
    ELSE Outcome([cloud EXCEPT !.cordoned = TRUE], rc.zone, rc.steps[rc.at], TRUE)
stepDrain(rc) == Done(rc)
DeleteTenantManifests == cloud
stepPlatformManifestsDelete(rc) == Outcome(DeleteTenantManifests, rc.zone, rc.steps[rc.at], TRUE)
stepEKSDelete(rc) ==
    LET prov == rc.steps["eks_provision"]
        st == rc.steps[rc.at]
    IN CASE prov.ref = 0 -> Done(rc)
         [] prov.ref # 0 /\ st.ref = 0 ->
               Outcome([cloud EXCEPT !.cluster[prov.ref] = "deleting"], rc.zone,
                       [st EXCEPT !.ref = prov.ref], FALSE)
         [] prov.ref # 0 /\ st.ref # 0 /\ cloud.cluster[st.ref] = "gone" -> Done(rc)
         [] OTHER -> Wait(rc)
stepAccountClose(rc) ==
    LET st == rc.steps[rc.at]
    IN IF ~rc.zone.account \/ st.ref # 0 THEN Done(rc)
       ELSE Outcome([cloud EXCEPT !.account = "closed"], rc.zone, [st EXCEPT !.ref = 1], TRUE)
UnwireZone(z) == [cloud EXCEPT !.org = IF z.wired THEN FALSE ELSE @]
stepIdentityRevoke(rc) == Outcome(UnwireZone(rc.zone), rc.zone, rc.steps[rc.at], TRUE)
stepAuditArchive(rc) == Done(rc)

provisionSteps(rc) ==
    CASE rc.at = "preflight" -> stepPreflight(rc)
      [] rc.at = "account_vend" -> stepAccountVend(rc)
      [] rc.at = "trust_bootstrap" -> stepTrustBootstrap(rc)
      [] rc.at = "eks_provision" -> stepEKSProvision(rc)
      [] rc.at = "inari_wiring" -> stepInariWiring(rc)
decommissionSteps(rc) ==
    CASE rc.at = "cordon" -> stepCordon(rc)
      [] rc.at = "drain" -> stepDrain(rc)
      [] rc.at = "platform_manifests_delete" -> stepPlatformManifestsDelete(rc)
      [] rc.at = "eks_delete" -> stepEKSDelete(rc)
      [] rc.at = "account_close" -> stepAccountClose(rc)
      [] rc.at = "identity_revoke" -> stepIdentityRevoke(rc)
      [] rc.at = "audit_archive" -> stepAuditArchive(rc)

\* Accounts and managed resources take their time, and a vend may fail (external).
CloudProgress ==
    /\ \/ /\ cloud.account = "creating" /\ UNCHANGED zoneFaults
          /\ cloud' = [cloud EXCEPT !.account = "open"]
       \/ /\ cloud.account = "creating" /\ zoneFaults < MaxZoneFaults /\ zoneFaults' = zoneFaults + 1
          /\ cloud' = [cloud EXCEPT !.account = "failed"]
       \/ \E i \in 1 .. MaxRef :
             /\ UNCHANGED zoneFaults
             /\ \/ cloud.cluster[i] = "creating" /\ cloud' = [cloud EXCEPT !.cluster[i] = "ready"]
                \/ cloud.cluster[i] = "deleting" /\ cloud' = [cloud EXCEPT !.cluster[i] = "gone"]
    /\ UNCHANGED <<zone, zoneStep, zoneRequest, call, zoneAsked, redelivered>>

-----------------------------------------------------------------------------
(* Service.run *)

\* zoneLock: a mutex of one process; the steps are read under it.
HoldsZoneLock(c) == call[c].pc \in {"run", "persist", "settle"}
zoneLock(c) ==
    /\ call[c].pc = "lock"
    /\ \A d \in ZoneCall : ProcessOf[d] = ProcessOf[c] => ~HoldsZoneLock(d)
    /\ call' = [call EXCEPT ![c].pc = "run", ![c].steps = zoneStep]
    /\ UNCHANGED <<zone, zoneStep, zoneRequest, cloud, zoneAsked, zoneFaults, redelivered>>

\* The steps of the chain that have not succeeded yet, by their place.
ToRun(c) ==
    {i \in DOMAIN StepsOf(call[c].order) : call[c].steps[StepsOf(call[c].order)[i]].status # "succeeded"}
NextToRun(c) == StepsOf(call[c].order)[CHOOSE i \in ToRun(c) : \A j \in ToRun(c) : i <= j]
\* A step that sets "skipped" and returns done is stored as succeeded.
Settled(status, st) == [st EXCEPT !.status = status]
Rc(c) == [call[c] EXCEPT !.at = NextToRun(c)]
\* A vend that failed, and a role without an account, are errors of the step.
StepRefuses(rc) ==
    \/ rc.at = "account_vend" /\ rc.steps[rc.at].ref # 0 /\ cloud.account = "failed"
    \/ rc.at = "trust_bootstrap" /\ ~rc.zone.account
\* RunSteps: one step.  Any call to the outside may fail as well.
RunStepOutcome(c) ==
    LET rc == Rc(c)
        o == IF rc.order = "provision" THEN provisionSteps(rc) ELSE decommissionSteps(rc)
    IN  /\ ~StepRefuses(rc) /\ cloud' = o.cloud
        /\ call' = [call EXCEPT ![c] = [rc EXCEPT !.pc = "persist", !.zone = o.zone,
              !.steps[rc.at] = Settled(IF o.done THEN "succeeded" ELSE "waiting", o.step)]]
        /\ UNCHANGED zoneFaults
\* A failed step counts the attempt (here up to the budget); a failed vend clears its reference.
FailedStep(rc) ==
    LET st == rc.steps[rc.at]
    IN [status |-> "failed", attempts |-> IF st.attempts > MaxZoneAttempts THEN st.attempts ELSE st.attempts + 1,
        ref |-> IF rc.at = "account_vend" /\ cloud.account = "failed" THEN 0 ELSE st.ref]
Failure(rc) == [rc EXCEPT !.pc = "persist", !.steps[rc.at] = FailedStep(rc)]
RunStepFails(c) ==
    /\ \/ StepRefuses(Rc(c)) /\ UNCHANGED zoneFaults
       \/ ~StepRefuses(Rc(c)) /\ zoneFaults < MaxZoneFaults /\ zoneFaults' = zoneFaults + 1
    /\ call' = [call EXCEPT ![c] = Failure(Rc(c))]
    /\ cloud' = cloud \/ (Rc(c).at = "inari_wiring" /\ cloud' = WireZone)  \* or half-way
RunSteps(c) ==
    /\ call[c].pc = "run" /\ ToRun(c) # {}
    /\ RunStepOutcome(c) \/ RunStepFails(c)
    /\ UNCHANGED <<zone, zoneStep, zoneRequest, zoneAsked, redelivered>>

stepState(n, state) ==
    CASE n = "inari_wiring" -> "wiring" [] n = "cordon" -> "cordoning" [] n = "drain" -> "draining"
      [] OTHER -> state
\* onUpdate changes the zone of the call, then writes the step's row and the whole zone row in
\* one transaction.
Updated(c) ==
    LET st == call[c].steps[call[c].at]
    IN [call[c].zone EXCEPT !.state =
           CASE st.status = "failed" /\ st.attempts > MaxZoneAttempts -> "manual_intervention"
             [] st.status = "failed" /\ st.attempts <= MaxZoneAttempts -> @
             [] OTHER -> stepState(call[c].at, @)]
zoneOnUpdate(c) ==
    LET st == call[c].steps[call[c].at]
    IN  /\ call[c].pc = "persist"
        /\ zoneStep' = [zoneStep EXCEPT ![call[c].at] = st] /\ UpdateZone(Updated(c))
        /\ call' = [call EXCEPT ![c] =
              CASE st.status = "waiting" -> IdleCall
                [] st.status = "succeeded" -> [call[c] EXCEPT !.pc = "run", !.zone = Updated(c)]
                [] st.status = "failed" -> [call[c] EXCEPT !.pc = "settle", !.zone = Updated(c)]]
        /\ UNCHANGED <<zoneRequest, cloud, zoneAsked, zoneFaults, redelivered>>
\* When that transaction fails, whatever the step did, the zone is settled as failed.
zoneOnUpdateFails(c) ==
    /\ call[c].pc = "persist" /\ zoneFaults < MaxZoneFaults /\ zoneFaults' = zoneFaults + 1
    /\ call' = [call EXCEPT ![c].pc = "settle", ![c].zone = Updated(c)]
    /\ UNCHANGED <<zone, zoneStep, zoneRequest, cloud, zoneAsked, redelivered>>

\* settle
SettleState(c) ==
    CASE call[c].pc = "ungated" -> "failed"
      [] call[c].pc = "settle" /\ call[c].zone.state = "manual_intervention" -> "manual_intervention"
      [] call[c].pc = "settle" /\ call[c].zone.state # "manual_intervention" -> "failed"
      [] call[c].order = "provision" /\ call[c].pc = "run" -> "active"
      [] OTHER -> "closed"
settle(c) ==
    /\ call[c].pc \in {"settle", "ungated"} \/ (call[c].pc = "run" /\ ToRun(c) = {})
    /\ UpdateZone([call[c].zone EXCEPT !.state = SettleState(c)])
    /\ call' = [call EXCEPT ![c] = IdleCall]
    /\ UNCHANGED <<zoneStep, zoneRequest, cloud, zoneAsked, zoneFaults, redelivered>>

-----------------------------------------------------------------------------
(* Entries *)

Enter(c, pc, order, request) ==
    /\ call[c].pc = "idle"
    /\ call' = [call EXCEPT ![c] = [IdleCall EXCEPT !.pc = pc, !.zone = zone, !.order = order,
                                                    !.request = request]]

\* RequestZone: the row, then the approval request, then the state; each in a
\* transaction of its own.
CreateZone(c) ==
    /\ zone.state = "absent" /\ call[c].pc = "idle"
    /\ UpdateZone([zone EXCEPT !.state = "requested"])
    /\ call' = [call EXCEPT ![c] = [IdleCall EXCEPT !.zone = zone',
                                    !.pc = IF ApprovalRequired THEN "gate" ELSE "start"]]
RequestZone(c) ==
    CreateZone(c) /\ UNCHANGED <<zoneStep, zoneRequest, cloud, zoneFaults, redelivered>>
FreshRequest == {r \in ZoneRequestId : zoneRequest[r].action = "none"}
\* RequestLifecycleApproval for the vend or the decommission of the zone.
RequestLifecycleApproval(c, action, prior) ==
    \E r \in FreshRequest :
        zoneRequest' = [zoneRequest EXCEPT ![r] = [action |-> action, prior |-> prior, state |-> "pending"]]
GateZone(c) ==
    /\ \/ /\ call[c].pc = "gate" /\ RequestLifecycleApproval(c, "vend", "active")
          /\ call' = [call EXCEPT ![c].pc = "park", ![c].zone.state = "pending_approval"]
       \/ /\ call[c].pc = "asked"
          /\ RequestLifecycleApproval(c, "decommission", call[c].zone.state)
          /\ call' = [call EXCEPT ![c].pc = "park", ![c].zone.state = "decommission_pending_approval"]
    /\ UNCHANGED <<zone, zoneStep, cloud, zoneAsked, zoneFaults, redelivered>>
\* RequestZone: when the gate or the write of the state fails, the zone is settled as failed.
GateFails(c) ==
    /\ call[c].pc = "gate" \/ (call[c].pc = "park" /\ call[c].order = "provision")
    /\ zoneFaults < MaxZoneFaults /\ zoneFaults' = zoneFaults + 1
    /\ call' = [call EXCEPT ![c].pc = "ungated"]
    /\ UNCHANGED <<zone, zoneStep, zoneRequest, cloud, zoneAsked, redelivered>>
\* setState, after which the call ends or goes on to run.
setState(c) ==
    /\ call[c].pc \in {"park", "set", "deny"} /\ UpdateZone(call[c].zone)
    /\ call' = [call EXCEPT ![c] = IF call[c].pc = "set" THEN [call[c] EXCEPT !.pc = "lock"] ELSE IdleCall]
    /\ UNCHANGED <<zoneStep, zoneRequest, cloud, zoneAsked, zoneFaults, redelivered>>

\* StartProvisioning and StartDecommission (which looks at no state).
CanProvision == zone.state \in {"requested", "pending_approval", "provisioning", "manual_intervention"}
StartProvisioning(c) ==
    /\ call[c].pc = "start" /\ call[c].order = "provision"
    /\ call' = [call EXCEPT ![c] = IF CanProvision
           THEN [call[c] EXCEPT !.pc = "set", !.zone = [zone EXCEPT !.state = "provisioning"]]
           ELSE IdleCall]
    /\ UNCHANGED <<zone, zoneStep, zoneRequest, cloud, zoneAsked, zoneFaults, redelivered>>
StartDecommission(c) ==
    /\ call[c].pc = "start" /\ call[c].order = "decommission"
    /\ call' = [call EXCEPT ![c].pc = "set", ![c].zone = [zone EXCEPT !.state = "cordoning"]]
    /\ UNCHANGED <<zone, zoneStep, zoneRequest, cloud, zoneAsked, zoneFaults, redelivered>>

\* Mutant: the rows of provisioning steps count too.
hasDecommissionStepsAny == \E n \in ZoneStepName : zoneStep[n].status # "pending"
\* Some decommission step is on file.
hasDecommissionSteps ==
    \E i \in DOMAIN DecommissionOrder : zoneStep[DecommissionOrder[i]].status # "pending"
\* The direction of a zone, by the row that was read and the rows of its steps.
ResumeOrder(z) ==
    CASE z.state \in {"provisioning", "wiring"} -> "provision"
      [] z.state \in {"cordoning", "draining"} -> "decommission"
      [] OTHER -> IF hasDecommissionSteps THEN "decommission" ELSE "provision"
ResumeZone(c) ==
    Enter(c, "get", "provision", NoZoneRequest) /\ UNCHANGED <<zone, zoneStep, zoneRequest, cloud, zoneFaults, redelivered>>
\* It reads the row, then the steps.
ResumeReadsZone(c) ==
    /\ call[c].pc = "get" /\ call' = [call EXCEPT ![c].pc = "infer", ![c].zone = zone]
    /\ UNCHANGED <<zone, zoneStep, zoneRequest, cloud, zoneAsked, zoneFaults, redelivered>>
Resumable == {"provisioning", "wiring", "cordoning", "draining", "manual_intervention", "failed"}
ResumeReadsSteps(c) ==
    /\ call[c].pc = "infer"
    /\ call' = [call EXCEPT ![c] = IF call[c].zone.state \in Resumable
           THEN [call[c] EXCEPT !.pc = "lock", !.order = ResumeOrder(call[c].zone)] ELSE IdleCall]
    /\ UNCHANGED <<zone, zoneStep, zoneRequest, cloud, zoneAsked, zoneFaults, redelivered>>
\* ListResumable, and the reconcile loop of the replica that holds the lease.
ListResumable == zone.state \in {"provisioning", "wiring", "cordoning", "draining"}
reconcileOnce(c) == ListResumable /\ ResumeZone(c) /\ UNCHANGED zoneAsked

RequestDecommission(c) ==
    /\ zone.state \in {"active", "failed"}
    /\ Enter(c, IF ApprovalRequired THEN "asked" ELSE "start", "decommission", NoZoneRequest)
    /\ UNCHANGED <<zone, zoneStep, zoneRequest, cloud, zoneFaults, redelivered>>

\* Approvers decide (external).
DecideZone ==
    /\ \E r \in ZoneRequestId, verdict \in {"approved", "rejected"} :
          /\ zoneRequest[r].action # "none" /\ zoneRequest[r].state = "pending"
          /\ zoneRequest' = [zoneRequest EXCEPT ![r].state = verdict]
    /\ UNCHANGED <<zone, zoneStep, cloud, call, zoneAsked, zoneFaults, redelivered>>
\* ResumeHandler.Handle: approval.decided, delivered at least once.  A rejection
\* reads the row and writes it back later with the state it decides on.
HandleZoneDecided(c, r) ==
    LET req == zoneRequest[r]
    IN  /\ req.action # "none" /\ req.state # "pending" /\ redelivered < MaxRedeliveries
        /\ redelivered' = redelivered + 1
        /\ \/ /\ req.state = "approved"
              /\ Enter(c, "start", IF req.action = "vend" THEN "provision" ELSE "decommission", r)
           \/ /\ req.state = "rejected" /\ call[c].pc = "idle"
              /\ call' = [call EXCEPT ![c] = [IdleCall EXCEPT !.pc = "deny", !.request = r,
                    !.zone = [zone EXCEPT !.state = IF req.action = "vend" THEN "failed" ELSE req.prior]]]
        /\ UNCHANGED <<zone, zoneStep, zoneRequest, cloud, zoneAsked, zoneFaults>>

\* A replica stops: the call it was in is lost.
ZoneCrash(c) ==
    /\ call[c].pc # "idle" /\ zoneFaults < MaxZoneFaults /\ zoneFaults' = zoneFaults + 1
    /\ call' = [d \in ZoneCall |-> IF ProcessOf[d] = ProcessOf[c] THEN IdleCall ELSE call[d]]
    /\ UNCHANGED <<zone, zoneStep, zoneRequest, cloud, zoneAsked, redelivered>>

authorizeZone(u) ==
    /\ Authorized(u, "zones_manage")
    /\ zoneAsked < MaxZoneRequests /\ zoneAsked' = zoneAsked + 1
requireOwnerOrg == zone.state # "absent"
httpRequestZone(u, c) == authorizeZone(u) /\ RequestZone(c)
httpResumeZone(u, c) == authorizeZone(u) /\ requireOwnerOrg /\ ResumeZone(c)
httpDecommissionZone(u, c) == authorizeZone(u) /\ requireOwnerOrg /\ RequestDecommission(c)
ZoneRoutes ==
    \E u \in User, c \in ZoneCall :
        httpRequestZone(u, c) \/ httpResumeZone(u, c) \/ httpDecommissionZone(u, c)

CallStep(c) ==
    \/ ResumeReadsZone(c) \/ ResumeReadsSteps(c) \/ GateZone(c) \/ setState(c) \/ StartProvisioning(c) \/ StartDecommission(c)
    \/ zoneLock(c) \/ RunSteps(c) \/ zoneOnUpdate(c) \/ settle(c)
ZoneNext ==
    \/ ZoneRoutes \/ CloudProgress \/ DecideZone
    \/ \E c \in ZoneCall : reconcileOnce(c) \/ CallStep(c) \/ GateFails(c) \/ zoneOnUpdateFails(c) \/ ZoneCrash(c)
    \/ \E c \in ZoneCall, r \in ZoneRequestId : HandleZoneDecided(c, r)

-----------------------------------------------------------------------------
(* Properties *)

WasApproved(action) ==
    \E r \in ZoneRequestId : zoneRequest[r].action = action /\ zoneRequest[r].state = "approved"
TornDown == \/ cloud.account = "closed" \/ cloud.cordoned
            \/ \E i \in 1 .. MaxRef : cloud.cluster[i] \in {"deleting", "gone"}
\* Nothing of a zone is taken down (no cordon, no cluster deleted, no account
\* closed) before the approvers agreed to its decommission: no resume, retry,
\* redelivery or crash turns a zone around by itself.
ZoneTeardownApproved == ApprovalRequired /\ TornDown => WasApproved("decommission")

\* A zone on its way reaches a state in which people have a say: whatever crashes
\* or is slow, the reconcile loop carries it there.
ZoneMoving == zone.state \in {"provisioning", "wiring", "cordoning", "draining"}
ZoneSettles == []<>~ZoneMoving

-----------------------------------------------------------------------------
(* Statements the code does not keep: TLC finds a counterexample of each  *)
(* (README, "What the code does not keep").                               *)

\* An account is vended only after the approvers agreed.
VendApproved == ApprovalRequired /\ cloud.account # "none" => WasApproved("vend")

\* The account id of a vended zone stays on its row: without it the trust
\* bootstrap cannot go on, and a decommission leaves the account open.
AccountRecorded ==
    zoneStep["account_vend"].status = "succeeded" => zone.account

\* A zone that is shown as active has an open account, a cluster and its wiring.
ActiveIsUp ==
    zone.state = "active" =>
        /\ cloud.account = "open" /\ cloud.org
        /\ \E i \in 1 .. MaxRef : cloud.cluster[i] = "ready"

\* A zone that is shown as closed has left nothing that is paid for.
ClosedIsGone ==
    zone.state = "closed" =>
        /\ cloud.account \in {"none", "failed", "closed"}
        /\ \A i \in 1 .. MaxRef : cloud.cluster[i] \in {"none", "gone"}
=============================================================================
