-------------------------- MODULE WorkflowsProofs --------------------------
(***************************************************************************)
(* Proofs about the long-running workflows (MCWorkflows): for each of      *)
(* ZoneFactory, Policies, Drift, Scaffold, TenantSetup and Notifications an *)
(* inductive invariant of its own next-state relation, and at the end the  *)
(* theorems about WorkflowsSpec, whose steps are those of one of them.     *)
(***************************************************************************)
EXTENDS MCWorkflows, TLAPS


-----------------------------------------------------------------------------
(* ZoneFactory *)

ProvisionName == {"preflight", "account_vend", "trust_bootstrap", "eks_provision", "inari_wiring"}
DecommissionName == {"cordon", "drain", "platform_manifests_delete", "eks_delete", "account_close",
                     "identity_revoke", "audit_archive"}
NamesOf(order) == IF order = "provision" THEN ProvisionName ELSE DecommissionName

\* The chains by the names of their steps.
LEMMA ZoneOrders ==
  /\ DOMAIN ProvisionOrder = 1 .. 5 /\ \A i \in 1 .. 5 : ProvisionOrder[i] \in ProvisionName
  /\ DOMAIN DecommissionOrder = 1 .. 7 /\ \A i \in 1 .. 7 : DecommissionOrder[i] \in DecommissionName
  /\ \A n \in DecommissionName : \E i \in 1 .. 7 : n = DecommissionOrder[i]
  /\ \A n \in ProvisionName : \E i \in 1 .. 5 : n = ProvisionOrder[i]
  /\ ZoneStepName = ProvisionName \cup DecommissionName
<1>1. /\ DOMAIN ProvisionOrder = 1 .. 5 /\ \A i \in 1 .. 5 : ProvisionOrder[i] \in ProvisionName
      /\ \A n \in ProvisionName : \E i \in 1 .. 5 : n = ProvisionOrder[i]
  <2>1. /\ ProvisionOrder[1] = "preflight" /\ ProvisionOrder[2] = "account_vend" /\ ProvisionOrder[3] = "trust_bootstrap"
        /\ ProvisionOrder[4] = "eks_provision" /\ ProvisionOrder[5] = "inari_wiring" /\ DOMAIN ProvisionOrder = 1 .. 5
    BY DEF ProvisionOrder
  <2>2. \A i \in 1 .. 5 : i = 1 \/ i = 2 \/ i = 3 \/ i = 4 \/ i = 5
    OBVIOUS
  <2>3. 1 \in 1 .. 5 /\ 2 \in 1 .. 5 /\ 3 \in 1 .. 5 /\ 4 \in 1 .. 5 /\ 5 \in 1 .. 5
    OBVIOUS
  <2>4. QED
    BY <2>1, <2>2, <2>3, Zenon DEF ProvisionName
<1>2. /\ DOMAIN DecommissionOrder = 1 .. 7 /\ \A i \in 1 .. 7 : DecommissionOrder[i] \in DecommissionName
      /\ \A n \in DecommissionName : \E i \in 1 .. 7 : n = DecommissionOrder[i]
  <2>1. /\ DecommissionOrder[1] = "cordon" /\ DecommissionOrder[2] = "drain" /\ DecommissionOrder[3] = "platform_manifests_delete"
        /\ DecommissionOrder[4] = "eks_delete" /\ DecommissionOrder[5] = "account_close" /\ DecommissionOrder[6] = "identity_revoke"
        /\ DecommissionOrder[7] = "audit_archive" /\ DOMAIN DecommissionOrder = 1 .. 7
    BY DEF DecommissionOrder
  <2>2. \A i \in 1 .. 7 : i = 1 \/ i = 2 \/ i = 3 \/ i = 4 \/ i = 5 \/ i = 6 \/ i = 7
    OBVIOUS
  <2>3. 1 \in 1 .. 7 /\ 2 \in 1 .. 7 /\ 3 \in 1 .. 7 /\ 4 \in 1 .. 7 /\ 5 \in 1 .. 7 /\ 6 \in 1 .. 7 /\ 7 \in 1 .. 7
    OBVIOUS
  <2>4. QED
    BY <2>1, <2>2, <2>3, Zenon DEF DecommissionName
<1>3. QED
  BY <1>1, <1>2 DEF ZoneStepName

\* A chain that is not finished has a first step to run, and it is one of the chain.
LEMMA ZoneNextStep ==
  ASSUME NEW c \in ZoneCall, call[c].order \in {"provision", "decommission"}, ToRun(c) # {}
  PROVE  NextToRun(c) \in NamesOf(call[c].order)
<1> DEFINE T == ToRun(c)
<1>1. T \subseteq DOMAIN StepsOf(call[c].order) /\ T # {}
  BY DEF ToRun
<1>2. DOMAIN StepsOf(call[c].order) \subseteq 1 .. 7
  BY ZoneOrders DEF StepsOf
<1>3. \E i \in T : \A j \in T : i <= j
  <2> HIDE DEF T
  <2>1. \A i \in T : i \in 1 .. 7
    BY <1>1, <1>2
  <2>2. CASE 1 \in T
    BY <2>1, <2>2
  <2>3. CASE 1 \notin T /\ 2 \in T
    BY <2>1, <2>3
  <2>4. CASE 1 \notin T /\ 2 \notin T /\ 3 \in T
    BY <2>1, <2>4
  <2>5. CASE 1 \notin T /\ 2 \notin T /\ 3 \notin T /\ 4 \in T
    BY <2>1, <2>5
  <2>6. CASE 1 \notin T /\ 2 \notin T /\ 3 \notin T /\ 4 \notin T /\ 5 \in T
    BY <2>1, <2>6
  <2>7. CASE 1 \notin T /\ 2 \notin T /\ 3 \notin T /\ 4 \notin T /\ 5 \notin T /\ 6 \in T
    BY <2>1, <2>7
  <2>8. CASE 1 \notin T /\ 2 \notin T /\ 3 \notin T /\ 4 \notin T /\ 5 \notin T /\ 6 \notin T
    BY <1>1, <2>1, <2>8
  <2>9. QED
    BY <2>2, <2>3, <2>4, <2>5, <2>6, <2>7, <2>8
<1>4. (CHOOSE i \in T : \A j \in T : i <= j) \in DOMAIN StepsOf(call[c].order)
  BY <1>1, <1>3, Zenon
<1>5. QED
  BY <1>4, ZoneOrders DEF NextToRun, StepsOf, NamesOf

-----------------------------------------------------------------------------
(* ZoneFactory: the inductive invariant *)

Decommissioning == {"cordoning", "draining"}
Working(c) == call[c].pc \in {"start", "set", "lock", "run", "persist", "settle"}

\* Without an approved decommission nothing has turned towards the decommission: not the
\* cloud, not the rows, and no call in progress or its copy of the row.
NothingTurned ==
    /\ ~TornDown /\ zone.state \notin Decommissioning
    /\ \A n \in DecommissionName : zoneStep[n].status = "pending"
    /\ \A c \in ZoneCall : call[c].zone.state \notin Decommissioning /\ (Working(c) => call[c].order = "provision")
TurnedApproved == ApprovalRequired /\ ~WasApproved("decommission") => NothingTurned
\* The step whose outcome is to be written is one of the chain that the call runs.
StepOfChain ==
    \A c \in ZoneCall : call[c].pc = "persist" =>
       call[c].at \in NamesOf(call[c].order) /\ call[c].steps[call[c].at].status # "pending"
\* A decommission is asked for where the zone was active or failed.
AskedWhere == \A c \in ZoneCall : call[c].pc = "asked" => call[c].zone.state \in {"active", "failed"}
ZoneInv == ZoneTypeOK /\ TurnedApproved /\ StepOfChain /\ AskedWhere

LEMMA ZoneIdleTyped == IdleCall \in InProgress
<1>1. IdleCall.zone \in TenantZone
  BY DEF IdleCall, TenantZone, ZoneState
<1>2. \A n \in ZoneStepName : [status |-> "pending", ref |-> 0, attempts |-> 0] \in TenantZoneStep
  BY ZoneAssumption DEF TenantZoneStep, MaxRef
<1>3. QED
  BY <1>1, <1>2, ZoneOrders DEF IdleCall, InProgress, ProvisionName

LEMMA ZoneInvInit == ASSUME ZoneInit PROVE ZoneInv
<1>1. ZoneTypeOK
  BY ZoneIdleTyped, ZoneAssumption DEF ZoneInit, ZoneTypeOK, IdleCall, InProgress, TenantZone, ZoneState, ZoneApproval, Cloud, MaxRef
<1>2. TurnedApproved
  BY ZoneOrders DEF ZoneInit, TurnedApproved, NothingTurned, TornDown, IdleCall, Decommissioning, Working, MaxRef
<1>3. StepOfChain /\ AskedWhere
  BY DEF ZoneInit, StepOfChain, AskedWhere, IdleCall
<1>4. QED
  BY <1>1, <1>2, <1>3 DEF ZoneInv

\* A decision on file stays on file.
ApprovedStays == WasApproved("decommission") => WasApproved("decommission")'
LEMMA ZoneRequestsSame == ASSUME UNCHANGED zoneRequest PROVE WasApproved("decommission")' = WasApproved("decommission")
BY DEF WasApproved

ZoneRest == <<zoneStep, zoneRequest, cloud>>
\* A step that changes one call, the row of the zone, rows of steps and the cloud.
LEMMA ZoneStepInv ==
  ASSUME ZoneInv, NEW c \in ZoneCall, NEW k \in InProgress, call' = [call EXCEPT ![c] = k], UNCHANGED zoneRequest,
         zone' \in TenantZone, zoneStep' \in [ZoneStepName -> TenantZoneStep], cloud' \in Cloud,
         zoneAsked' \in 0 .. MaxZoneRequests, zoneFaults' \in 0 .. MaxZoneFaults, redelivered' \in 0 .. MaxRedeliveries,
         ApprovalRequired /\ ~WasApproved("decommission") /\ NothingTurned =>
            /\ zone'.state \notin Decommissioning /\ k.zone.state \notin Decommissioning
            /\ k.pc \in {"start", "set", "lock", "run", "persist", "settle"} => k.order = "provision"
            /\ ~TornDown' /\ \A n \in DecommissionName : zoneStep'[n].status = "pending",
         k.pc = "persist" => k.at \in NamesOf(k.order) /\ k.steps[k.at].status # "pending",
         k.pc = "asked" => k.zone.state \in {"active", "failed"}
  PROVE  ZoneInv'
<1>0. DOMAIN call = ZoneCall /\ \A d \in ZoneCall : call'[d] = IF d = c THEN k ELSE call[d]
  BY DEF ZoneInv, ZoneTypeOK
<1>1. ZoneTypeOK'
  BY DEF ZoneInv, ZoneTypeOK
<1>2. TurnedApproved'
  <2> SUFFICES ASSUME ApprovalRequired, ~WasApproved("decommission")' PROVE NothingTurned'
    BY DEF TurnedApproved
  <2>1. ~WasApproved("decommission")
    BY ZoneRequestsSame
  <2>2. NothingTurned
    BY <2>1 DEF ZoneInv, TurnedApproved
  <2>3. QED
    BY <1>0, <2>1, <2>2 DEF NothingTurned, Working
<1>3. StepOfChain' /\ AskedWhere'
  BY <1>0 DEF ZoneInv, StepOfChain, AskedWhere
<1>4. QED
  BY <1>1, <1>2, <1>3 DEF ZoneInv

\* A step that changes one call and the row of the zone at most.
LEMMA ZoneCallStep ==
  ASSUME ZoneInv, NEW c \in ZoneCall, NEW k \in InProgress, call' = [call EXCEPT ![c] = k], UNCHANGED ZoneRest,
         zone' \in TenantZone, zoneAsked' \in 0 .. MaxZoneRequests, zoneFaults' \in 0 .. MaxZoneFaults,
         redelivered' \in 0 .. MaxRedeliveries,
         ApprovalRequired /\ ~WasApproved("decommission") /\ NothingTurned =>
            zone'.state \notin Decommissioning /\ k.zone.state \notin Decommissioning
            /\ (k.pc \in {"start", "set", "lock", "run", "persist", "settle"} => k.order = "provision"),
         k.pc # "persist",
         k.pc = "asked" => k.zone.state \in {"active", "failed"}
  PROVE  ZoneInv'
<1>1. UNCHANGED zoneRequest /\ zoneStep' \in [ZoneStepName -> TenantZoneStep] /\ cloud' \in Cloud
  BY DEF ZoneInv, ZoneTypeOK, ZoneRest
<1>2. NothingTurned => ~TornDown' /\ \A n \in DecommissionName : zoneStep'[n].status = "pending"
  BY DEF NothingTurned, TornDown, ZoneRest
<1>3. QED
  BY <1>1, <1>2, ZoneStepInv

\* What a call holds is well formed, and the idle call is.
LEMMA ZoneCallTyped ==
  ASSUME ZoneInv, NEW c \in ZoneCall
  PROVE  call[c] \in InProgress /\ zone \in TenantZone /\ zoneStep \in [ZoneStepName -> TenantZoneStep]
BY DEF ZoneInv, ZoneTypeOK

LEMMA ZoneEnter ==
  ASSUME ZoneInv, NEW c \in ZoneCall, NEW pc \in {"get", "asked", "start"}, NEW order \in {"provision", "decommission"},
         NEW r \in ZoneRequestId \cup {NoZoneRequest}, Enter(c, pc, order, r), UNCHANGED <<ZoneRest, zone>>,
         zoneAsked' \in 0 .. MaxZoneRequests, zoneFaults' \in 0 .. MaxZoneFaults, redelivered' \in 0 .. MaxRedeliveries,
         ApprovalRequired /\ ~WasApproved("decommission") /\ NothingTurned /\ pc # "asked" => order = "provision",
         pc = "asked" => zone.state \in {"active", "failed"}
  PROVE  ZoneInv'
<1> DEFINE k == [IdleCall EXCEPT !.pc = pc, !.zone = zone, !.order = order, !.request = r]
<1>1. k \in InProgress /\ k.pc = pc /\ k.zone = zone /\ k.order = order
  BY ZoneIdleTyped, ZoneCallTyped DEF InProgress, IdleCall
<1>2. call' = [call EXCEPT ![c] = k] /\ UNCHANGED ZoneRest /\ zone' \in TenantZone
  BY ZoneCallTyped DEF Enter
<1>3. NothingTurned => zone'.state \notin Decommissioning
  BY DEF NothingTurned
<1> HIDE DEF k
<1>4. QED
  BY <1>1, <1>2, <1>3, ZoneCallStep DEF NothingTurned

LEMMA ZoneBounds ==
  ASSUME ZoneInv
  PROVE  /\ zoneAsked \in 0 .. MaxZoneRequests /\ zoneFaults \in 0 .. MaxZoneFaults /\ redelivered \in 0 .. MaxRedeliveries
         /\ {MaxZoneAttempts, MaxZoneRequests, MaxZoneFaults, MaxRedeliveries} \subseteq Nat
BY ZoneAssumption DEF ZoneInv, ZoneTypeOK

LEMMA ZoneRoutesStep == ASSUME ZoneInv, ZoneRoutes PROVE ZoneInv'
<1> PICK u \in User, c \in ZoneCall : httpRequestZone(u, c) \/ httpResumeZone(u, c) \/ httpDecommissionZone(u, c)
  BY DEF ZoneRoutes
<1>1. zoneAsked' \in 0 .. MaxZoneRequests
  BY ZoneBounds DEF httpRequestZone, httpResumeZone, httpDecommissionZone, authorizeZone
<1>2. CASE httpRequestZone(u, c)
  <2> DEFINE z == [zone EXCEPT !.state = "requested"]
             k == [IdleCall EXCEPT !.zone = z, !.pc = IF ApprovalRequired THEN "gate" ELSE "start"]
  <2>1. z \in TenantZone /\ zone' = z /\ z.state = "requested"
    BY <1>2, ZoneCallTyped DEF httpRequestZone, RequestZone, CreateZone, UpdateZone, TenantZone, ZoneState
  <2>2. k \in InProgress /\ k.zone = z /\ k.pc \in {"gate", "start"} /\ k.order = "provision"
    BY <2>1, ZoneIdleTyped DEF InProgress, IdleCall
  <2>3. call' = [call EXCEPT ![c] = k] /\ UNCHANGED <<ZoneRest, zoneFaults, redelivered>>
    BY <1>2, <2>1 DEF httpRequestZone, RequestZone, CreateZone, ZoneRest
  <2> HIDE DEF z, k
  <2>4. QED
    BY <1>1, <2>1, <2>2, <2>3, ZoneCallStep, ZoneBounds DEF Decommissioning
<1>3. CASE httpResumeZone(u, c)
  <2>1. Enter(c, "get", "provision", NoZoneRequest) /\ UNCHANGED <<ZoneRest, zone, zoneFaults, redelivered>>
    BY <1>3 DEF httpResumeZone, ResumeZone, ZoneRest
  <2>2. QED
    BY <1>1, <2>1, ZoneEnter, ZoneBounds
<1>4. CASE httpDecommissionZone(u, c)
  <2>1. /\ zone.state \in {"active", "failed"} /\ UNCHANGED <<ZoneRest, zone, zoneFaults, redelivered>>
        /\ Enter(c, IF ApprovalRequired THEN "asked" ELSE "start", "decommission", NoZoneRequest)
    BY <1>4 DEF httpDecommissionZone, RequestDecommission, ZoneRest
  <2>2. QED
    BY <1>1, <2>1, ZoneEnter, ZoneBounds
<1>5. QED
  BY <1>2, <1>3, <1>4

LEMMA ZoneReconcile == ASSUME ZoneInv, NEW c \in ZoneCall, reconcileOnce(c) PROVE ZoneInv'
<1>1. Enter(c, "get", "provision", NoZoneRequest) /\ UNCHANGED <<ZoneRest, zone, zoneAsked, zoneFaults, redelivered>>
  BY DEF reconcileOnce, ResumeZone, ZoneRest
<1>2. QED
  BY <1>1, ZoneEnter, ZoneBounds

\* A resume reads the row, and the direction from the rows of the steps.
LEMMA ZoneResumes == ASSUME ZoneInv, NEW c \in ZoneCall, ResumeReadsZone(c) \/ ResumeReadsSteps(c) PROVE ZoneInv'
<1>1. call[c] \in InProgress /\ zone \in TenantZone /\ UNCHANGED <<ZoneRest, zone, zoneAsked, zoneFaults, redelivered>>
  BY ZoneCallTyped DEF ResumeReadsZone, ResumeReadsSteps, ZoneRest
<1>2. CASE ResumeReadsZone(c)
  <2> DEFINE k == [call[c] EXCEPT !.pc = "infer", !.zone = zone]
  <2>1. call' = [call EXCEPT ![c] = k]
    BY <1>2, <1>1 DEF ResumeReadsZone, ZoneInv, ZoneTypeOK, InProgress
  <2>2. k \in InProgress /\ k.pc = "infer" /\ k.zone = zone
    BY <1>1 DEF InProgress
  <2> HIDE DEF k
  <2>3. QED
    BY <1>1, <2>1, <2>2, ZoneCallStep, ZoneBounds DEF NothingTurned
<1>3. CASE ResumeReadsSteps(c)
  <2> DEFINE order == ResumeOrder(call[c].zone)
             k == IF call[c].zone.state \in Resumable THEN [call[c] EXCEPT !.pc = "lock", !.order = order] ELSE IdleCall
  <2>1. call' = [call EXCEPT ![c] = k]
    BY <1>3 DEF ResumeReadsSteps
  <2>2. order \in {"provision", "decommission"} /\ (NothingTurned => order = "provision")
    BY ZoneOrders DEF ResumeOrder, NothingTurned, Decommissioning, hasDecommissionSteps
  <2> HIDE DEF order
  <2>3. k \in InProgress /\ k.pc \in {"lock", "idle"} /\ (k.pc = "lock" => k.order = order /\ k.zone = call[c].zone)
        /\ (k.pc = "idle" => k.zone.state = "absent")
    BY <1>1, <2>2, ZoneIdleTyped DEF InProgress, IdleCall
  <2> HIDE DEF k
  <2>4. NothingTurned => k.zone.state \notin Decommissioning /\ (k.pc = "lock" => k.order = "provision")
    BY <2>2, <2>3 DEF NothingTurned, Decommissioning
  <2>5. QED
    BY <1>1, <2>1, <2>3, <2>4, ZoneCallStep, ZoneBounds DEF NothingTurned
<1>4. QED
  BY <1>2, <1>3

\* A gate that fails leaves the zone to be settled as failed.
LEMMA ZoneGateFails == ASSUME ZoneInv, NEW c \in ZoneCall, GateFails(c) PROVE ZoneInv'
<1> DEFINE k == [call[c] EXCEPT !.pc = "ungated"]
<1>1. call[c] \in InProgress /\ UNCHANGED <<ZoneRest, zone, zoneAsked, redelivered>> /\ zone \in TenantZone
      /\ zoneFaults' \in 0 .. MaxZoneFaults /\ call' = [call EXCEPT ![c] = k]
  BY ZoneCallTyped, ZoneBounds DEF GateFails, ZoneRest, ZoneInv, ZoneTypeOK, InProgress
<1>2. k \in InProgress /\ k.pc = "ungated" /\ k.zone = call[c].zone
  BY <1>1 DEF InProgress
<1> HIDE DEF k
<1>3. QED
  BY <1>1, <1>2, ZoneCallStep, ZoneBounds DEF NothingTurned

LEMMA ZoneCloudProgress == ASSUME ZoneInv, CloudProgress PROVE ZoneInv'
<1>1. /\ UNCHANGED <<zone, zoneStep, zoneRequest, call, zoneAsked, redelivered>>
      /\ zoneFaults' \in 0 .. MaxZoneFaults
  BY ZoneBounds DEF CloudProgress
<1>2. cloud \in Cloud /\ cloud' \in Cloud /\ (cloud'.account = "closed" => cloud.account = "closed")
      /\ cloud'.cordoned = cloud.cordoned
      /\ \A i \in 1 .. MaxRef : cloud'.cluster[i] \in {"deleting", "gone"} => cloud.cluster[i] \in {"deleting", "gone"}
  <2>1. cloud \in Cloud /\ cloud.cluster \in [1 .. MaxRef -> {"none", "creating", "ready", "deleting", "gone"}]
    BY DEF ZoneInv, ZoneTypeOK, Cloud
  <2>2. CASE cloud.account = "creating" /\ \E x \in {"open", "failed"} : cloud' = [cloud EXCEPT !.account = x]
    BY <2>1, <2>2 DEF Cloud
  <2>3. ASSUME NEW i \in 1 .. MaxRef, NEW x \in {"ready", "gone"}, x = "gone" => cloud.cluster[i] = "deleting",
               cloud' = [cloud EXCEPT !.cluster[i] = x]
        PROVE  <1>2!:
    <3>1. cloud' = [cloud EXCEPT !.cluster = [cloud.cluster EXCEPT ![i] = x]]
      BY <2>3
    <3>2. [cloud.cluster EXCEPT ![i] = x] \in [1 .. MaxRef -> {"none", "creating", "ready", "deleting", "gone"}]
      BY <2>1
    <3>3. cloud' \in Cloud /\ cloud'.account = cloud.account /\ cloud'.cordoned = cloud.cordoned
          /\ cloud'.cluster = [cloud.cluster EXCEPT ![i] = x]
      BY <2>1, <3>1, <3>2 DEF Cloud
    <3>4. QED
      BY <2>1, <2>3, <3>3
  <2>4. QED
    BY <2>2, <2>3 DEF CloudProgress
<1>3. ZoneTypeOK'
  BY <1>1, <1>2 DEF ZoneInv, ZoneTypeOK
<1>4. TurnedApproved'
  BY <1>1, <1>2 DEF ZoneInv, TurnedApproved, NothingTurned, TornDown, WasApproved, Working
<1>5. QED
  BY <1>1, <1>3, <1>4 DEF ZoneInv, StepOfChain, AskedWhere

LEMMA ZoneDecide == ASSUME ZoneInv, DecideZone PROVE ZoneInv'
<1>1. UNCHANGED <<zone, zoneStep, cloud, call, zoneAsked, zoneFaults, redelivered>>
  BY DEF DecideZone
<1>2. PICK r \in ZoneRequestId, verdict \in {"approved", "rejected"} :
          /\ zoneRequest[r].action # "none" /\ zoneRequest[r].state = "pending"
          /\ zoneRequest' = [zoneRequest EXCEPT ![r].state = verdict]
  BY DEF DecideZone
<1>3. ZoneTypeOK'
  BY <1>1, <1>2 DEF ZoneInv, ZoneTypeOK, ZoneApproval
<1>4. WasApproved("decommission") => WasApproved("decommission")'
  BY <1>2 DEF WasApproved, ZoneInv, ZoneTypeOK, ZoneApproval
<1>5. TurnedApproved'
  BY <1>1, <1>4 DEF ZoneInv, TurnedApproved, NothingTurned, TornDown, Working
<1>6. QED
  BY <1>1, <1>3, <1>5 DEF ZoneInv, StepOfChain, AskedWhere

LEMMA ZoneCrashes == ASSUME ZoneInv, NEW c \in ZoneCall, ZoneCrash(c) PROVE ZoneInv'
<1>1. /\ UNCHANGED <<zone, zoneStep, zoneRequest, cloud, zoneAsked, redelivered>>
      /\ zoneFaults' \in 0 .. MaxZoneFaults
      /\ call' = [d \in ZoneCall |-> IF ProcessOf[d] = ProcessOf[c] THEN IdleCall ELSE call[d]]
  BY ZoneBounds DEF ZoneCrash
<1>2. ZoneTypeOK'
  BY <1>1, ZoneIdleTyped DEF ZoneInv, ZoneTypeOK
<1>3. \A d \in ZoneCall : call'[d] = IdleCall \/ call'[d] = call[d]
  BY <1>1
<1>4. IdleCall.pc = "idle" /\ IdleCall.zone.state = "absent"
  BY DEF IdleCall
<1>5. TurnedApproved'
  BY <1>1, <1>3, <1>4 DEF ZoneInv, TurnedApproved, NothingTurned, TornDown, WasApproved, Working, Decommissioning
<1>6. QED
  BY <1>1, <1>2, <1>3, <1>4, <1>5 DEF ZoneInv, StepOfChain, AskedWhere

LEMMA ZoneDecided == ASSUME ZoneInv, NEW c \in ZoneCall, NEW r \in ZoneRequestId, HandleZoneDecided(c, r) PROVE ZoneInv'
<1> DEFINE req == zoneRequest[r]
<1>1. /\ req.action # "none" /\ UNCHANGED <<zone, ZoneRest, zoneAsked, zoneFaults>> /\ redelivered' \in 0 .. MaxRedeliveries
      /\ req \in ZoneApproval
  BY ZoneBounds DEF HandleZoneDecided, ZoneRest, ZoneInv, ZoneTypeOK
<1>2. CASE req.state = "approved" /\ Enter(c, "start", IF req.action = "vend" THEN "provision" ELSE "decommission", r)
  <2>1. req.action = "decommission" => WasApproved("decommission")
    BY <1>2 DEF WasApproved
  <2>2. req.action # "vend" => req.action = "decommission"
    BY <1>1 DEF ZoneApproval
  <2>3. QED
    BY <1>1, <1>2, <2>1, <2>2, ZoneEnter, ZoneBounds
<1>3. CASE req.state = "rejected" /\ call[c].pc = "idle"
           /\ call' = [call EXCEPT ![c] = [IdleCall EXCEPT !.pc = "deny", !.request = r,
                    !.zone = [zone EXCEPT !.state = IF req.action = "vend" THEN "failed" ELSE req.prior]]]
  <2> DEFINE z == [zone EXCEPT !.state = IF req.action = "vend" THEN "failed" ELSE req.prior]
             k == [IdleCall EXCEPT !.pc = "deny", !.request = r, !.zone = z]
  <2>1. z \in TenantZone /\ z.state \in {"failed", "active"}
    BY <1>1, ZoneCallTyped DEF TenantZone, ZoneState, ZoneApproval
  <2>2. k \in InProgress /\ k.pc = "deny" /\ k.zone = z
    BY <2>1, ZoneIdleTyped DEF InProgress, IdleCall
  <2>3. call' = [call EXCEPT ![c] = k]
    BY <1>3
  <2> HIDE DEF z, k
  <2>4. QED
    BY <1>1, <2>1, <2>2, <2>3, ZoneCallStep, ZoneCallTyped, ZoneBounds DEF Decommissioning, NothingTurned
<1>4. QED
  BY <1>2, <1>3 DEF HandleZoneDecided

\* What a call writes is what it holds.
LEMMA ZoneSetState == ASSUME ZoneInv, NEW c \in ZoneCall, setState(c) PROVE ZoneInv'
<1>1. call[c] \in InProgress /\ call[c].pc \in {"park", "set", "deny"} /\ zone' = call[c].zone
      /\ UNCHANGED <<ZoneRest, zoneAsked, zoneFaults, redelivered>>
  BY ZoneCallTyped DEF setState, UpdateZone, ZoneRest
<1> DEFINE k == IF call[c].pc = "set" THEN [call[c] EXCEPT !.pc = "lock"] ELSE IdleCall
<1>2. call' = [call EXCEPT ![c] = k]
  BY DEF setState
<1>3. k \in InProgress /\ ((k.pc = "idle" /\ k.zone.state = "absent")
                           \/ (k.pc = "lock" /\ k.zone = call[c].zone /\ k.order = call[c].order /\ Working(c)))
  <2>1. CASE call[c].pc = "set"
    BY <1>1, <2>1 DEF InProgress, Working
  <2>2. CASE call[c].pc # "set"
    <3>1. k = IdleCall /\ IdleCall.pc = "idle" /\ IdleCall.zone.state = "absent"
      BY <2>2 DEF IdleCall
    <3> HIDE DEF k
    <3>2. QED
      BY <3>1, ZoneIdleTyped
  <2>3. QED
    BY <2>1, <2>2
<1>4. zone' \in TenantZone
  BY <1>1 DEF InProgress
<1> HIDE DEF k
<1>5. QED
  BY <1>1, <1>2, <1>3, <1>4, ZoneCallStep, ZoneBounds DEF NothingTurned, Decommissioning

LEMMA ZoneStarts == ASSUME ZoneInv, NEW c \in ZoneCall, StartProvisioning(c) \/ StartDecommission(c) PROVE ZoneInv'
<1>1. call[c] \in InProgress /\ zone \in TenantZone /\ UNCHANGED <<ZoneRest, zone, zoneAsked, zoneFaults, redelivered>> /\ Working(c)
  BY ZoneCallTyped DEF StartProvisioning, StartDecommission, ZoneRest, Working
<1>2. CASE StartProvisioning(c)
  <2> DEFINE k == IF CanProvision THEN [call[c] EXCEPT !.pc = "set", !.zone = [zone EXCEPT !.state = "provisioning"]] ELSE IdleCall
  <2>1. call' = [call EXCEPT ![c] = k] /\ call[c].order = "provision"
    BY <1>2 DEF StartProvisioning
  <2>2. k \in InProgress /\ k.zone.state \in {"provisioning", "absent"} /\ k.pc \in {"set", "idle"} /\ k.order = "provision"
    BY <1>1, <2>1, ZoneIdleTyped DEF InProgress, TenantZone, ZoneState, IdleCall
  <2> HIDE DEF k
  <2>3. QED
    BY <1>1, <2>1, <2>2, ZoneCallStep, ZoneBounds DEF Decommissioning, NothingTurned
<1>3. CASE StartDecommission(c)
  <2> DEFINE k == [call[c] EXCEPT !.pc = "set", !.zone = [zone EXCEPT !.state = "cordoning"]]
  <2>1. call' = [call EXCEPT ![c] = k] /\ call[c].order = "decommission"
    BY <1>1, <1>3 DEF StartDecommission, ZoneInv, ZoneTypeOK
  <2>2. k \in InProgress /\ k.pc = "set"
    BY <1>1 DEF InProgress, TenantZone, ZoneState
  <2>3. ~NothingTurned
    BY <1>1, <2>1 DEF NothingTurned
  <2> HIDE DEF k
  <2>4. QED
    BY <1>1, <2>1, <2>2, <2>3, ZoneCallStep, ZoneBounds
<1>4. QED
  BY <1>2, <1>3

LEMMA ZoneLocks == ASSUME ZoneInv, NEW c \in ZoneCall, zoneLock(c) PROVE ZoneInv'
<1> DEFINE k == [call[c] EXCEPT !.pc = "run", !.steps = zoneStep]
<1>1. call[c] \in InProgress /\ UNCHANGED <<ZoneRest, zone, zoneAsked, zoneFaults, redelivered>> /\ Working(c)
      /\ call' = [call EXCEPT ![c] = k]
  BY ZoneCallTyped DEF zoneLock, ZoneRest, Working, ZoneInv, ZoneTypeOK
<1>2. k \in InProgress /\ k.pc = "run" /\ k.order = call[c].order /\ k.zone = call[c].zone
  BY <1>1, ZoneCallTyped DEF InProgress
<1> HIDE DEF k
<1>3. QED
  BY <1>1, <1>2, ZoneCallStep, ZoneCallTyped, ZoneBounds DEF NothingTurned

LEMMA ZoneSettles_ == ASSUME ZoneInv, NEW c \in ZoneCall, settle(c) PROVE ZoneInv'
<1> DEFINE z == [call[c].zone EXCEPT !.state = SettleState(c)]
<1>1. call[c] \in InProgress /\ UNCHANGED <<ZoneRest, zoneAsked, zoneFaults, redelivered>>
      /\ call' = [call EXCEPT ![c] = IdleCall] /\ zone' = z
  BY ZoneCallTyped DEF settle, ZoneRest, UpdateZone
<1>2. SettleState(c) \in {"manual_intervention", "failed", "active", "closed"}
  BY DEF SettleState
<1>3. z \in TenantZone /\ z.state \notin Decommissioning
  BY <1>1, <1>2 DEF InProgress, TenantZone, ZoneState, Decommissioning
<1>4. IdleCall.pc = "idle" /\ IdleCall.zone.state = "absent"
  BY DEF IdleCall
<1> HIDE DEF z
<1>5. QED
  BY <1>1, <1>3, <1>4, ZoneIdleTyped, ZoneCallStep, ZoneBounds DEF Decommissioning

\* The zone of a call after onUpdate.
LEMMA ZoneUpdated ==
  ASSUME ZoneInv, NEW c \in ZoneCall, call[c].pc = "persist"
  PROVE  /\ Updated(c) \in TenantZone
         /\ call[c].order = "provision" /\ call[c].zone.state \notin Decommissioning => Updated(c).state \notin Decommissioning
<1> DEFINE st == call[c].steps[call[c].at]
<1>1. call[c] \in InProgress /\ call[c].at \in NamesOf(call[c].order)
  BY ZoneCallTyped DEF ZoneInv, StepOfChain
<1>2. call[c].zone \in TenantZone
  BY <1>1 DEF InProgress
<1>3. QED
  BY <1>1, <1>2 DEF Updated, TenantZone, ZoneState, stepState, Decommissioning, NamesOf, ProvisionName

\* The transaction of onUpdate fails: the call holds the zone as it was to be written.
LEMMA ZoneUpdateFails == ASSUME ZoneInv, NEW c \in ZoneCall, zoneOnUpdateFails(c) PROVE ZoneInv'
<1> DEFINE z == Updated(c)
           k == [call[c] EXCEPT !.pc = "settle", !.zone = z]
<1>1. call[c] \in InProgress /\ call[c].pc = "persist" /\ Working(c) /\ UNCHANGED <<ZoneRest, zone, zoneAsked, redelivered>>
      /\ zone \in TenantZone /\ zoneFaults' \in 0 .. MaxZoneFaults
  BY ZoneCallTyped, ZoneBounds DEF zoneOnUpdateFails, ZoneRest, Working
<1>2. z \in TenantZone /\ (call[c].order = "provision" /\ call[c].zone.state \notin Decommissioning => z.state \notin Decommissioning)
  BY <1>1, ZoneUpdated
<1>3. call' = [call EXCEPT ![c].pc = "settle", ![c].zone = z]
  BY DEF zoneOnUpdateFails
<1> HIDE DEF z
<1>4. call' = [call EXCEPT ![c] = k]
  BY <1>1, <1>3 DEF ZoneInv, ZoneTypeOK, InProgress
<1>5. k \in InProgress /\ k.pc = "settle" /\ k.zone = z /\ k.order = call[c].order
  BY <1>1, <1>2 DEF InProgress
<1> HIDE DEF k
<1>6. QED
  BY <1>1, <1>2, <1>4, <1>5, ZoneCallStep, ZoneBounds DEF NothingTurned

LEMMA ZoneUpdates == ASSUME ZoneInv, NEW c \in ZoneCall, zoneOnUpdate(c) PROVE ZoneInv'
<1> DEFINE st == call[c].steps[call[c].at]
           z == Updated(c)
           k == CASE st.status = "waiting" -> IdleCall
                [] st.status = "succeeded" -> [call[c] EXCEPT !.pc = "run", !.zone = z]
                [] st.status = "failed" -> [call[c] EXCEPT !.pc = "settle", !.zone = z]
<1>1. /\ call[c] \in InProgress /\ call[c].pc = "persist" /\ Working(c) /\ zone' = z
      /\ zoneStep' = [zoneStep EXCEPT ![call[c].at] = st] /\ call' = [call EXCEPT ![c] = k]
      /\ UNCHANGED <<zoneRequest, cloud, zoneAsked, zoneFaults, redelivered>>
      /\ call[c].at \in NamesOf(call[c].order)
  BY ZoneCallTyped DEF zoneOnUpdate, Working, UpdateZone, ZoneInv, StepOfChain
<1>2. st \in TenantZoneStep /\ call[c].at \in ZoneStepName /\ call[c].zone \in TenantZone
  BY <1>1 DEF InProgress
<1>3. z \in TenantZone
  BY <1>1, ZoneUpdated
<1>4. call[c].order = "provision" /\ call[c].zone.state \notin Decommissioning => z.state \notin Decommissioning
  BY <1>1, ZoneUpdated
<1>5. zoneStep' \in [ZoneStepName -> TenantZoneStep]
  BY <1>1, <1>2, ZoneCallTyped
<1>6. st.status # "pending" /\ st.status \in {"pending", "waiting", "failed", "succeeded"}
  BY <1>1, <1>2 DEF ZoneInv, StepOfChain, TenantZoneStep
<1>7. k \in InProgress /\ k.pc \in {"idle", "run", "settle"}
      /\ (k.pc # "idle" => k.order = call[c].order /\ k.zone = z) /\ (k.pc = "idle" => k.zone.state = "absent")
  <2>1. CASE st.status = "waiting"
    BY <2>1, ZoneIdleTyped DEF IdleCall
  <2>2. CASE st.status = "succeeded"
    <3>1. k = [call[c] EXCEPT !.pc = "run", !.zone = z]
      BY <2>2
    <3> HIDE DEF k, z
    <3>2. QED
      BY <1>1, <1>3, <3>1 DEF InProgress
  <2>3. CASE st.status = "failed"
    <3>1. k = [call[c] EXCEPT !.pc = "settle", !.zone = z]
      BY <2>3
    <3> HIDE DEF k, z
    <3>2. QED
      BY <1>1, <1>3, <3>1 DEF InProgress
  <2>4. QED
    BY <1>6, <2>1, <2>2, <2>3
<1>8. call[c].order = "provision" => \A n \in DecommissionName : zoneStep'[n] = zoneStep[n]
  BY <1>1, ZoneOrders, ZoneCallTyped DEF NamesOf, ProvisionName, DecommissionName
<1>9. NothingTurned => call[c].order = "provision" /\ call[c].zone.state \notin Decommissioning /\ ~TornDown'
  BY <1>1 DEF NothingTurned, TornDown
<1>10. NothingTurned => \A n \in DecommissionName : zoneStep'[n].status = "pending"
  BY <1>8, <1>9 DEF NothingTurned
<1>11. cloud' \in Cloud
  BY <1>1 DEF ZoneInv, ZoneTypeOK
<1> HIDE DEF st, z, k
<1>12. NothingTurned => zone'.state \notin Decommissioning /\ k.zone.state \notin Decommissioning /\ (k.pc # "idle" => k.order = "provision")
  BY <1>1, <1>4, <1>7, <1>9 DEF Decommissioning
<1>13. QED
  BY <1>1, <1>3, <1>5, <1>7, <1>9, <1>10, <1>11, <1>12, ZoneStepInv, ZoneBounds

\* Gating: the request is new, the state the call is to write follows.
LEMMA ZoneGates == ASSUME ZoneInv, NEW c \in ZoneCall, GateZone(c) PROVE ZoneInv'
<1>1. PICK state \in {"pending_approval", "decommission_pending_approval"}, action \in {"vend", "decommission"}, prior \in {"active", "failed"} :
         RequestLifecycleApproval(c, action, prior) /\ call' = [call EXCEPT ![c].pc = "park", ![c].zone.state = state]
  BY DEF GateZone, ZoneInv, AskedWhere
<1>2. PICK r \in FreshRequest :
         zoneRequest' = [zoneRequest EXCEPT ![r] = [action |-> action, prior |-> prior, state |-> "pending"]]
  BY <1>1 DEF RequestLifecycleApproval
<1>3. zoneRequest' \in [ZoneRequestId -> ZoneApproval] /\ r \in ZoneRequestId
  BY <1>2 DEF ZoneInv, ZoneTypeOK, ZoneApproval, FreshRequest
<1>4. WasApproved("decommission") => WasApproved("decommission")'
  BY <1>2, <1>3 DEF WasApproved, FreshRequest, ZoneInv, ZoneTypeOK
<1> DEFINE z == [call[c].zone EXCEPT !.state = state]
           k == [call[c] EXCEPT !.pc = "park", !.zone = z]
<1>5. call[c] \in InProgress /\ UNCHANGED <<zone, zoneStep, cloud, zoneAsked, zoneFaults, redelivered>>
  BY ZoneCallTyped DEF GateZone
<1>6. call' = [call EXCEPT ![c] = k]
  BY <1>1, <1>5 DEF InProgress, TenantZone, ZoneInv, ZoneTypeOK
<1>7. k \in InProgress /\ k.pc = "park" /\ k.zone.state = state
  BY <1>5 DEF InProgress, TenantZone, ZoneState
<1> HIDE DEF k, z
<1>8. DOMAIN call = ZoneCall /\ \A d \in ZoneCall : call'[d] = IF d = c THEN k ELSE call[d]
  BY <1>6 DEF ZoneInv, ZoneTypeOK
<1>9. ZoneTypeOK'
  BY <1>3, <1>5, <1>6, <1>7 DEF ZoneInv, ZoneTypeOK
<1>10. TurnedApproved'
  <2> SUFFICES ASSUME ApprovalRequired, ~WasApproved("decommission")' PROVE NothingTurned'
    BY DEF TurnedApproved
  <2>1. NothingTurned
    BY <1>4 DEF ZoneInv, TurnedApproved
  <2>2. QED
    BY <1>5, <1>7, <1>8, <2>1 DEF NothingTurned, TornDown, Working, Decommissioning
<1>11. QED
  BY <1>7, <1>8, <1>9, <1>10 DEF ZoneInv, StepOfChain, AskedWhere

\* What a step function answers is well formed, and a step of the provisioning chain takes nothing down.
OutcomeTyped(o) == o.cloud \in Cloud /\ o.zone \in TenantZone /\ o.step \in TenantZoneStep
TakesNothingDown(cl) ==
    /\ cl.account = "closed" => cloud.account = "closed"
    /\ cl.cordoned => cloud.cordoned
    /\ \A i \in 1 .. MaxRef : cl.cluster[i] \in {"deleting", "gone"} => cloud.cluster[i] \in {"deleting", "gone"}

\* A change of one field of the cloud.
LEMMA ZoneCloudFields ==
  ASSUME cloud \in Cloud
  PROVE  /\ \A x \in {"none", "creating", "failed", "open", "closed"} :
               LET cl == [cloud EXCEPT !.account = x]
               IN cl \in Cloud /\ cl.account = x /\ cl.cluster = cloud.cluster /\ cl.cordoned = cloud.cordoned
         /\ \A b \in BOOLEAN : \A cl \in {[cloud EXCEPT !.role = b], [cloud EXCEPT !.org = b]} :
               cl \in Cloud /\ cl.account = cloud.account /\ cl.cluster = cloud.cluster /\ cl.cordoned = cloud.cordoned
         /\ \A b \in BOOLEAN : [cloud EXCEPT !.cordoned = b] \in Cloud
         /\ \A i \in 1 .. MaxRef, x \in {"none", "creating", "ready", "deleting", "gone"} :
               /\ [cloud EXCEPT !.cluster[i] = x] \in Cloud
               /\ [cloud EXCEPT !.cluster[i] = x].cluster = [cloud.cluster EXCEPT ![i] = x]
               /\ [cloud EXCEPT !.cluster[i] = x].account = cloud.account
               /\ [cloud EXCEPT !.cluster[i] = x].cordoned = cloud.cordoned
<1>1. cloud.cluster \in [1 .. MaxRef -> {"none", "creating", "ready", "deleting", "gone"}]
  BY DEF Cloud
<1>2. ASSUME NEW i \in 1 .. MaxRef, NEW x \in {"none", "creating", "ready", "deleting", "gone"}
      PROVE  [cloud.cluster EXCEPT ![i] = x] \in [1 .. MaxRef -> {"none", "creating", "ready", "deleting", "gone"}]
  BY <1>1
<1>3. \A i \in 1 .. MaxRef, x \in {"none", "creating", "ready", "deleting", "gone"} :
               /\ [cloud EXCEPT !.cluster[i] = x] \in Cloud
               /\ [cloud EXCEPT !.cluster[i] = x].cluster = [cloud.cluster EXCEPT ![i] = x]
               /\ [cloud EXCEPT !.cluster[i] = x].account = cloud.account
               /\ [cloud EXCEPT !.cluster[i] = x].cordoned = cloud.cordoned
  BY <1>2 DEF Cloud
<1>4. \A x \in {"none", "creating", "failed", "open", "closed"} :
               LET cl == [cloud EXCEPT !.account = x]
               IN cl \in Cloud /\ cl.account = x /\ cl.cluster = cloud.cluster /\ cl.cordoned = cloud.cordoned
  BY DEF Cloud
<1>5. \A b \in BOOLEAN : \A cl \in {[cloud EXCEPT !.role = b], [cloud EXCEPT !.org = b]} :
               cl \in Cloud /\ cl.account = cloud.account /\ cl.cluster = cloud.cluster /\ cl.cordoned = cloud.cordoned
  BY DEF Cloud
<1>6. \A b \in BOOLEAN : [cloud EXCEPT !.cordoned = b] \in Cloud
  BY DEF Cloud
<1>7. QED
  BY <1>3, <1>4, <1>5, <1>6

LEMMA ZoneNewCluster == NewCluster \in 1 .. MaxRef
BY DEF NewCluster, MaxRef

LEMMA ZoneProvisionSteps ==
  ASSUME cloud \in Cloud, NEW rc \in InProgress, rc.at \in ProvisionName
  PROVE  OutcomeTyped(provisionSteps(rc)) /\ TakesNothingDown(provisionSteps(rc).cloud)
<1>1. rc.zone \in TenantZone /\ rc.steps[rc.at] \in TenantZoneStep
  BY DEF InProgress
<1>2. CASE rc.at = "preflight"
  BY <1>1, <1>2 DEF provisionSteps, stepPreflight, Done, Outcome, OutcomeTyped, TakesNothingDown
<1>3. CASE rc.at = "account_vend"
  <2> DEFINE st == rc.steps[rc.at]
  <2>1. provisionSteps(rc) = stepAccountVend(rc)
    BY <1>3 DEF provisionSteps
  <2>2. CASE st.ref = 0
    <3>1. stepAccountVend(rc) = Outcome(CreateAccount, rc.zone, [st EXCEPT !.ref = 1], FALSE)
      BY <2>2 DEF stepAccountVend
    <3>2. CreateAccount \in Cloud /\ TakesNothingDown(CreateAccount)
      <4> DEFINE x == IF cloud.account \in {"none", "failed"} THEN "creating" ELSE cloud.account
      <4>1. x \in {"none", "creating", "failed", "open", "closed"} /\ (x = "closed" => cloud.account = "closed")
        BY DEF Cloud
      <4>2. CreateAccount = [cloud EXCEPT !.account = x]
        BY DEF CreateAccount
      <4> HIDE DEF x
      <4>3. QED
        BY <4>1, <4>2, ZoneCloudFields DEF TakesNothingDown
    <3>3. [st EXCEPT !.ref = 1] \in TenantZoneStep
      BY <1>1 DEF TenantZoneStep, MaxRef
    <3>4. QED
      BY <1>1, <2>1, <3>1, <3>2, <3>3 DEF Outcome, OutcomeTyped
  <2>3. CASE st.ref # 0 /\ cloud.account \in {"open", "closed"}
    <3>1. stepAccountVend(rc) = Outcome(cloud, [rc.zone EXCEPT !.account = TRUE], st, TRUE)
      BY <2>3 DEF stepAccountVend
    <3>2. [rc.zone EXCEPT !.account = TRUE] \in TenantZone
      BY <1>1 DEF TenantZone
    <3>3. QED
      BY <1>1, <2>1, <3>1, <3>2 DEF Outcome, OutcomeTyped, TakesNothingDown
  <2>4. CASE st.ref # 0 /\ ~(cloud.account \in {"open", "closed"})
    <3>1. stepAccountVend(rc) = Wait(rc)
      BY <2>4 DEF stepAccountVend
    <3>2. QED
      BY <1>1, <2>1, <3>1 DEF Outcome, Wait, OutcomeTyped, TakesNothingDown
  <2>5. QED
    BY <2>2, <2>3, <2>4
<1>4. CASE rc.at = "trust_bootstrap"
  <2>1. [cloud EXCEPT !.role = TRUE] \in Cloud /\ TakesNothingDown([cloud EXCEPT !.role = TRUE])
    BY ZoneCloudFields DEF TakesNothingDown
  <2>2. QED
    BY <1>1, <1>4, <2>1 DEF provisionSteps, stepTrustBootstrap, Outcome, OutcomeTyped
<1>5. CASE rc.at = "eks_provision"
  <2> DEFINE st == rc.steps[rc.at]
             i == NewCluster
  <2>1. provisionSteps(rc) = stepEKSProvision(rc)
    BY <1>5 DEF provisionSteps
  <2>2. CASE st.ref = 0
    <3>1. stepEKSProvision(rc) = Outcome([cloud EXCEPT !.cluster[i] = "creating"], rc.zone, [st EXCEPT !.ref = i], FALSE)
      BY <2>2 DEF stepEKSProvision
    <3>2. i \in 1 .. MaxRef /\ cloud.cluster \in [1 .. MaxRef -> {"none", "creating", "ready", "deleting", "gone"}]
      BY ZoneNewCluster DEF Cloud
    <3> HIDE DEF i
    <3>3. [cloud EXCEPT !.cluster[i] = "creating"] \in Cloud /\ TakesNothingDown([cloud EXCEPT !.cluster[i] = "creating"])
      <4> DEFINE cl == [cloud EXCEPT !.cluster[i] = "creating"]
      <4>1. cl \in Cloud /\ cl.cluster = [cloud.cluster EXCEPT ![i] = "creating"] /\ cl.account = cloud.account
            /\ cl.cordoned = cloud.cordoned
        BY <3>2, ZoneCloudFields
      <4> HIDE DEF cl
      <4>2. \A j \in 1 .. MaxRef : cl.cluster[j] \in {"creating", cloud.cluster[j]}
        BY <3>2, <4>1
      <4>3. cl \in Cloud /\ TakesNothingDown(cl)
        BY <4>1, <4>2 DEF TakesNothingDown
      <4>4. QED
        BY <4>3 DEF cl
    <3>4. [st EXCEPT !.ref = i] \in TenantZoneStep
      BY <1>1, <3>2 DEF TenantZoneStep, MaxRef
    <3>5. QED
      BY <1>1, <2>1, <3>1, <3>3, <3>4 DEF Outcome, OutcomeTyped
  <2>3. CASE st.ref # 0
    <3>1. stepEKSProvision(rc) = Done(rc) \/ stepEKSProvision(rc) = Wait(rc)
      BY <2>3 DEF stepEKSProvision
    <3>2. QED
      BY <1>1, <2>1, <3>1 DEF Outcome, Wait, Done, OutcomeTyped, TakesNothingDown
  <2>4. QED
    BY <2>2, <2>3
<1>6. CASE rc.at = "inari_wiring"
  <2>1. WireZone \in Cloud /\ TakesNothingDown(WireZone)
    BY ZoneCloudFields DEF TakesNothingDown, WireZone
  <2>2. [rc.zone EXCEPT !.wired = TRUE] \in TenantZone
    BY <1>1 DEF TenantZone
  <2>3. QED
    BY <1>1, <1>6, <2>1, <2>2 DEF provisionSteps, stepInariWiring, Outcome, OutcomeTyped
<1>7. QED
  BY <1>2, <1>3, <1>4, <1>5, <1>6 DEF ProvisionName

LEMMA ZoneDecommissionSteps ==
  ASSUME cloud \in Cloud, NEW rc \in InProgress, rc.at \in DecommissionName
  PROVE  OutcomeTyped(decommissionSteps(rc))
<1>1. rc.zone \in TenantZone /\ rc.steps[rc.at] \in TenantZoneStep
  BY DEF InProgress
<1>2. OutcomeTyped(Done(rc)) /\ OutcomeTyped(Wait(rc))
  BY <1>1 DEF Outcome, Done, Wait, OutcomeTyped
<1>3. CASE rc.at = "cordon"
  <2>1. decommissionSteps(rc) = stepCordon(rc)
    BY <1>3 DEF decommissionSteps
  <2>2. [cloud EXCEPT !.cordoned = TRUE] \in Cloud
    BY ZoneCloudFields
  <2>3. QED
    BY <1>1, <1>2, <2>1, <2>2 DEF stepCordon, Outcome, OutcomeTyped
<1>4. CASE rc.at \in {"drain", "audit_archive"}
  BY <1>2, <1>4 DEF decommissionSteps, stepDrain, stepAuditArchive
<1>5. CASE rc.at = "platform_manifests_delete"
  BY <1>1, <1>5 DEF decommissionSteps, stepPlatformManifestsDelete, DeleteTenantManifests, Outcome, OutcomeTyped
<1>6. CASE rc.at = "eks_delete"
  <2> DEFINE prov == rc.steps["eks_provision"]
             st == rc.steps[rc.at]
  <2>1. decommissionSteps(rc) = stepEKSDelete(rc)
    BY <1>6 DEF decommissionSteps
  <2>2. CASE prov.ref # 0 /\ st.ref = 0
    <3>1. stepEKSDelete(rc) = Outcome([cloud EXCEPT !.cluster[prov.ref] = "deleting"], rc.zone, [st EXCEPT !.ref = prov.ref], FALSE)
      BY <2>2 DEF stepEKSDelete
    <3>2. prov \in TenantZoneStep
      BY ZoneOrders DEF InProgress, ProvisionName
    <3>3. prov.ref \in 1 .. MaxRef /\ [st EXCEPT !.ref = prov.ref] \in TenantZoneStep
      BY <1>1, <2>2, <3>2 DEF TenantZoneStep, MaxRef
    <3>4. [cloud EXCEPT !.cluster[prov.ref] = "deleting"] \in Cloud
      BY <3>3, ZoneCloudFields
    <3>5. QED
      BY <1>1, <2>1, <3>1, <3>3, <3>4 DEF Outcome, OutcomeTyped
  <2>3. CASE ~(prov.ref # 0 /\ st.ref = 0)
    <3>1. stepEKSDelete(rc) = Done(rc) \/ stepEKSDelete(rc) = Wait(rc)
      BY <2>3 DEF stepEKSDelete
    <3>2. QED
      BY <1>2, <2>1, <3>1
  <2>4. QED
    BY <2>2, <2>3
<1>7. CASE rc.at = "account_close"
  <2>1. decommissionSteps(rc) = stepAccountClose(rc)
    BY <1>7 DEF decommissionSteps
  <2>2. [cloud EXCEPT !.account = "closed"] \in Cloud
    BY ZoneCloudFields
  <2>3. [rc.steps[rc.at] EXCEPT !.ref = 1] \in TenantZoneStep
    BY <1>1 DEF TenantZoneStep, MaxRef
  <2>4. QED
    BY <1>1, <1>2, <2>1, <2>2, <2>3 DEF stepAccountClose, Outcome, OutcomeTyped
<1>8. CASE rc.at = "identity_revoke"
  <2>1. UnwireZone(rc.zone) \in Cloud
    BY ZoneCloudFields DEF UnwireZone, Cloud
  <2>2. QED
    BY <1>1, <1>8, <2>1 DEF decommissionSteps, stepIdentityRevoke, Outcome, OutcomeTyped
<1>9. QED
  BY <1>3, <1>4, <1>5, <1>6, <1>7, <1>8 DEF DecommissionName

\* The record of the call when a step starts: the first step of its chain that has not succeeded.
LEMMA ZoneRc ==
  ASSUME ZoneInv, NEW c \in ZoneCall, call[c].pc = "run", ToRun(c) # {}
  PROVE  /\ Rc(c) \in InProgress /\ Rc(c).at \in NamesOf(call[c].order) /\ Rc(c).order = call[c].order
         /\ Rc(c).zone = call[c].zone /\ Rc(c).pc = "run" /\ call[c].order \in {"provision", "decommission"}
<1>1. call[c] \in InProgress /\ call[c].order \in {"provision", "decommission"}
  BY ZoneCallTyped DEF InProgress
<1>2. NextToRun(c) \in NamesOf(call[c].order)
  BY <1>1, ZoneNextStep
<1>3. NextToRun(c) \in ZoneStepName
  BY <1>2, ZoneOrders DEF NamesOf
<1>4. QED
  BY <1>1, <1>2, <1>3 DEF Rc, InProgress

LEMMA ZoneRunsOutcome ==
  ASSUME ZoneInv, NEW c \in ZoneCall, call[c].pc = "run", ToRun(c) # {}, RunStepOutcome(c),
         UNCHANGED <<zone, zoneStep, zoneRequest, zoneAsked, redelivered>>
  PROVE  ZoneInv'
<1> DEFINE rc == Rc(c)
           o == IF rc.order = "provision" THEN provisionSteps(rc) ELSE decommissionSteps(rc)
           s == Settled(IF o.done THEN "succeeded" ELSE "waiting", o.step)
           k == [rc EXCEPT !.pc = "persist", !.zone = o.zone, !.steps[rc.at] = s]
<1>1. /\ rc \in InProgress /\ rc.at \in NamesOf(call[c].order) /\ rc.order = call[c].order
      /\ call[c].order \in {"provision", "decommission"} /\ cloud \in Cloud
  BY ZoneRc DEF ZoneInv, ZoneTypeOK
<1>2. cloud' = o.cloud /\ call' = [call EXCEPT ![c] = k] /\ UNCHANGED zoneFaults
  BY DEF RunStepOutcome
<1>3. OutcomeTyped(o) /\ (call[c].order = "provision" => TakesNothingDown(o.cloud))
  BY <1>1, ZoneProvisionSteps, ZoneDecommissionSteps DEF NamesOf
<1>4. s \in TenantZoneStep /\ s.status \in {"succeeded", "waiting"}
  BY <1>3 DEF Settled, OutcomeTyped, TenantZoneStep
<1> HIDE DEF s, o
<1>5. k \in InProgress /\ k.pc = "persist" /\ k.zone = o.zone /\ k.order = call[c].order /\ k.at = rc.at
      /\ k.steps[k.at] = s
  BY <1>1, <1>3, <1>4 DEF InProgress, OutcomeTyped
<1>6. cloud' \in Cloud
  BY <1>2, <1>3 DEF OutcomeTyped
<1>7. o.zone.state = call[c].zone.state
  <2>1. (rc.at \in ProvisionName /\ rc.order = "provision") \/ (rc.at \in DecommissionName /\ rc.order = "decommission")
    <3> HIDE DEF rc
    <3>1. QED
      BY <1>1 DEF NamesOf
  <2>2. rc.zone = call[c].zone /\ rc.zone \in TenantZone
    BY <1>1, ZoneRc DEF InProgress
  <2>3. CASE rc.at \in ProvisionName /\ rc.order = "provision"
    <3>1. o = provisionSteps(rc)
      BY <2>3 DEF o
    <3>2. provisionSteps(rc).zone \in {rc.zone, [rc.zone EXCEPT !.account = TRUE], [rc.zone EXCEPT !.wired = TRUE]}
      <4> HIDE DEF rc
      <4>1. QED
        BY <2>3 DEF provisionSteps, stepPreflight, stepAccountVend, stepTrustBootstrap, stepEKSProvision, stepInariWiring, Done, Wait, Outcome, ProvisionName
    <3>3. QED
      BY <2>2, <3>1, <3>2 DEF TenantZone
  <2>4. CASE rc.at \in DecommissionName /\ rc.order = "decommission"
    <3>1. o = decommissionSteps(rc)
      BY <2>4 DEF o
    <3>2. decommissionSteps(rc).zone = rc.zone
      <4> HIDE DEF rc
      <4>1. QED
        BY <2>4 DEF decommissionSteps, stepCordon, stepDrain, stepPlatformManifestsDelete, stepEKSDelete, stepAccountClose, stepIdentityRevoke, stepAuditArchive, Done, Wait, Outcome, DecommissionName
    <3>3. QED
      BY <2>2, <3>1, <3>2
  <2>5. QED
    BY <2>1, <2>3, <2>4
<1>8. NothingTurned => call[c].order = "provision" /\ call[c].zone.state \notin Decommissioning
  BY DEF NothingTurned, Working
<1>9. NothingTurned => ~TornDown' /\ zone'.state \notin Decommissioning /\ \A n \in DecommissionName : zoneStep'[n].status = "pending"
  BY <1>2, <1>3, <1>8 DEF NothingTurned, TornDown, TakesNothingDown
<1>10. zone' \in TenantZone /\ zoneStep' \in [ZoneStepName -> TenantZoneStep]
  BY ZoneCallTyped
<1> HIDE DEF k
<1>11. QED
  BY <1>1, <1>2, <1>4, <1>5, <1>6, <1>7, <1>8, <1>9, <1>10, ZoneStepInv, ZoneBounds

LEMMA ZoneRunsFailure ==
  ASSUME ZoneInv, NEW c \in ZoneCall, call[c].pc = "run", ToRun(c) # {}, RunStepFails(c),
         UNCHANGED <<zone, zoneStep, zoneRequest, zoneAsked, redelivered>>
  PROVE  ZoneInv'
<1> DEFINE rc == Rc(c)
           k == Failure(rc)
           t == rc.steps[rc.at]
           s == FailedStep(rc)
<1>1. /\ rc \in InProgress /\ rc.at \in NamesOf(call[c].order) /\ rc.order = call[c].order /\ rc.zone = call[c].zone
      /\ call[c].order \in {"provision", "decommission"} /\ cloud \in Cloud
  BY ZoneRc DEF ZoneInv, ZoneTypeOK
<1>2. call' = [call EXCEPT ![c] = k] /\ zoneFaults' \in 0 .. MaxZoneFaults /\ cloud' \in {cloud, WireZone}
  BY ZoneBounds DEF RunStepFails
<1>3. t \in TenantZoneStep /\ s \in TenantZoneStep
  <2>1. t \in TenantZoneStep
    BY <1>1 DEF InProgress
  <2>2. MaxZoneAttempts \in Nat
    BY ZoneAssumption
  <2>3. QED
    BY <2>1, <2>2 DEF TenantZoneStep, MaxRef, FailedStep
<1>4. k = [rc EXCEPT !.pc = "persist", !.steps = [rc.steps EXCEPT ![rc.at] = s]]
  <2> HIDE DEF rc
  <2>1. rc.steps \in [ZoneStepName -> TenantZoneStep] /\ rc.at \in ZoneStepName
    BY <1>1 DEF InProgress
  <2>2. QED
    BY <2>1 DEF Failure
<1> HIDE DEF k, s, t
<1>5. k \in InProgress /\ k.pc = "persist" /\ k.zone = call[c].zone /\ k.order = call[c].order /\ k.at = rc.at
      /\ k.steps[k.at] = s
  BY <1>1, <1>3, <1>4 DEF InProgress
<1>6. s.status = "failed"
  BY DEF s, FailedStep
<1>7. cloud' \in Cloud /\ TakesNothingDown(cloud')
  BY <1>1, <1>2, ZoneCloudFields DEF WireZone, TakesNothingDown
<1>8. NothingTurned => call[c].order = "provision" /\ call[c].zone.state \notin Decommissioning
  BY DEF NothingTurned, Working
<1>9. NothingTurned => ~TornDown' /\ zone'.state \notin Decommissioning /\ \A n \in DecommissionName : zoneStep'[n].status = "pending"
  BY <1>7 DEF NothingTurned, TornDown, TakesNothingDown
<1>10. zone' \in TenantZone /\ zoneStep' \in [ZoneStepName -> TenantZoneStep]
  BY ZoneCallTyped
<1> HIDE DEF rc
<1>11. QED
  BY <1>1, <1>2, <1>5, <1>6, <1>7, <1>8, <1>9, <1>10, ZoneStepInv, ZoneBounds

LEMMA ZoneInvStep == ASSUME ZoneInv, [ZoneNext]_zoneVars PROVE ZoneInv'
<1>1. CASE UNCHANGED zoneVars
  BY <1>1 DEF zoneVars, ZoneInv, ZoneTypeOK, TurnedApproved, NothingTurned, TornDown, WasApproved, Working, StepOfChain, AskedWhere
<1>2. ASSUME NEW c \in ZoneCall, CallStep(c) PROVE ZoneInv'
  <2>1. CASE RunSteps(c)
    BY <2>1, ZoneRunsOutcome, ZoneRunsFailure DEF RunSteps
  <2>2. QED
    BY <1>2, <2>1, ZoneGates, ZoneResumes, ZoneSetState, ZoneStarts, ZoneLocks, ZoneUpdates, ZoneSettles_ DEF CallStep
<1>3. QED
  BY <1>1, <1>2, ZoneRoutesStep, ZoneCloudProgress, ZoneDecide, ZoneReconcile, ZoneGateFails, ZoneUpdateFails, ZoneCrashes, ZoneDecided DEF ZoneNext

LEMMA ZoneInvGate == ASSUME ZoneInv PROVE ZoneTypeOK /\ ZoneTeardownApproved
BY DEF ZoneInv, TurnedApproved, NothingTurned, ZoneTeardownApproved

-----------------------------------------------------------------------------
(* Policies: the inductive invariant *)

\* An approved exemption of policy p that was valid at time now.
Exempts(e, p, now) == exemption[e].policy = p /\ exemption[e].state = "approved" /\ exemption[e].expires > now
\* Whatever the evaluation has let pass so far still has its exemption, or lost its policy.
ExemptedOK ==
    \A p \in evaluation.exempted :
        policy[p].used /\ (policy[p].exists => \E e \in ExemptionId : Exempts(e, p, evaluation.now))
\* Only ids that were given out are asked about, and exist.
TodoUsed == (\A p \in evaluation.todo : policy[p].used) /\ \A p \in PolicyId : policy[p].exists => policy[p].used
PolicyInv == PolicyTypeOK /\ ExemptedOK /\ TodoUsed

LEMMA PolicyIdleTyped == IdlePolicyCall \in PolicyCallRow
BY PolicyAssumption DEF IdlePolicyCall, PolicyCallRow

LEMMA PolicyInvInit == ASSUME PolicyInit PROVE PolicyInv
<1>1. PolicyTypeOK
  <2>1. MaxExemption \in Nat /\ MaxPolicyTime \in Nat /\ MaxPolicyRequests \in Nat /\ MaxPolicyFaults \in Nat
        /\ (CHOOSE n \in PolicyName : TRUE) \in PolicyName
    BY PolicyAssumption
  <2>2. policy \in [PolicyId -> PolicyRow] /\ policyCall \in [PolicyCall -> PolicyCallRow]
    BY <2>1, PolicyIdleTyped DEF PolicyInit, PolicyRow
  <2>3. exemption \in [ExemptionId -> Exemption]
    BY <2>1 DEF PolicyInit, Exemption
  <2>4. evaluation \in [pc : {"idle", "next", "done"}, now : 0 .. MaxPolicyTime, todo : SUBSET PolicyId,
                       denied : SUBSET PolicyId, exempted : SUBSET PolicyId]
    BY <2>1 DEF PolicyInit, NoEvaluation
  <2>5. pack \in BOOLEAN /\ assignment \subseteq PackTarget /\ assigned \subseteq PackTarget /\ bundle \subseteq PackCluster
    BY DEF PolicyInit
  <2>6. policyNow \in 0 .. MaxPolicyTime /\ policyAsked \in 0 .. MaxPolicyRequests /\ policyFaults \in 0 .. MaxPolicyFaults
    BY <2>1 DEF PolicyInit
  <2>7. QED
    BY <2>2, <2>3, <2>4, <2>5, <2>6 DEF PolicyTypeOK
<1>2. ExemptedOK /\ TodoUsed
  BY DEF PolicyInit, ExemptedOK, TodoUsed, NoEvaluation
<1>3. QED
  BY <1>1, <1>2 DEF PolicyInv

LEMMA PolicyBounds ==
  ASSUME PolicyInv
  PROVE  policyNow \in Nat /\ policyAsked \in Nat /\ policyFaults \in Nat /\ MaxPolicyTime \in Nat
         /\ MaxPolicyRequests \in Nat /\ MaxPolicyFaults \in Nat /\ MaxExemption \in Nat
BY PolicyAssumption DEF PolicyInv, PolicyTypeOK

\* Policies, exemptions and the evaluation are what the invariant is about.
LEMMA PolicyPackStep ==
  ASSUME PolicyInv, packSame, pack' \in BOOLEAN, assignment' \subseteq PackTarget, assigned' \subseteq PackTarget,
         bundle' \subseteq PackCluster, policyCall' \in [PolicyCall -> PolicyCallRow],
         policyAsked' \in 0 .. MaxPolicyRequests, policyFaults' \in 0 .. MaxPolicyFaults
  PROVE  PolicyInv'
BY DEF PolicyInv, PolicyTypeOK, ExemptedOK, TodoUsed, Exempts, packSame

PolicyOthers == <<pack, assignment, assigned, bundle>>
\* A policy is written: its id is not one that is asked about, or it exists as before.
LEMMA PolicyRowsStep ==
  ASSUME PolicyInv, policyRowsSame, policyAsked' \in 0 .. MaxPolicyRequests,
         NEW p \in PolicyId, NEW row \in PolicyRow, policy' = [policy EXCEPT ![p] = row], row.used, row.exists,
         ~policy[p].used \/ policy[p].exists
  PROVE  PolicyInv'
<1>1. PolicyTypeOK'
  BY DEF PolicyInv, PolicyTypeOK, policyRowsSame
<1>2. policy \in [PolicyId -> PolicyRow] /\ evaluation.exempted \subseteq PolicyId /\ evaluation.todo \subseteq PolicyId
  BY DEF PolicyInv, PolicyTypeOK
<1>3. ExemptedOK'
  BY <1>2 DEF PolicyInv, ExemptedOK, Exempts, policyRowsSame
<1>4. TodoUsed'
  BY <1>2 DEF PolicyInv, TodoUsed, policyRowsSame
<1>5. QED
  BY <1>1, <1>3, <1>4 DEF PolicyInv

LEMMA PolicyRowsWritten ==
  ASSUME PolicyInv, policyAsked' \in 0 .. MaxPolicyRequests, CreatePolicy \/ UpdatePolicy
  PROVE  PolicyInv'
<1>0. policy \in [PolicyId -> PolicyRow] /\ policyRowsSame
  BY DEF PolicyInv, PolicyTypeOK, CreatePolicy, UpdatePolicy
<1>1. CASE CreatePolicy
  <2>1. PICK p \in PolicyId, n \in PolicyName : insertPolicy(p, n)
    BY <1>1 DEF CreatePolicy
  <2> DEFINE row == [used |-> TRUE, exists |-> TRUE, name |-> n, enabled |-> TRUE]
  <2>2. row \in PolicyRow /\ row.used /\ row.exists /\ policy' = [policy EXCEPT ![p] = row] /\ ~policy[p].used
    BY <2>1 DEF PolicyRow, insertPolicy
  <2> HIDE DEF row
  <2>3. QED
    BY <1>0, <2>2, PolicyRowsStep
<1>2. CASE UpdatePolicy
  <2>1. PICK p \in PolicyId, n \in PolicyName, on \in BOOLEAN : updatePolicyRow(p, n, on)
    BY <1>2 DEF UpdatePolicy
  <2> DEFINE row == [policy[p] EXCEPT !.name = n, !.enabled = on]
  <2>2. policy[p] \in PolicyRow /\ policy[p].exists /\ policy[p].used
    BY <1>0, <2>1 DEF updatePolicyRow, PolicyInv, TodoUsed
  <2>3. row \in PolicyRow /\ row.used /\ row.exists
    BY <2>2 DEF PolicyRow
  <2>4. policy' = [policy EXCEPT ![p] = row]
    BY <1>0, <2>1 DEF updatePolicyRow
  <2> HIDE DEF row
  <2>5. QED
    BY <1>0, <2>2, <2>3, <2>4, PolicyRowsStep
<1>3. QED
  BY <1>1, <1>2

LEMMA PolicyDeleted == ASSUME PolicyInv, policyAsked' \in 0 .. MaxPolicyRequests, DeletePolicy PROVE PolicyInv'
<1>1. PICK p \in PolicyId : deletePolicyRow(p)
  BY DEF DeletePolicy
<1>2. /\ policy' = [policy EXCEPT ![p].exists = FALSE, ![p].enabled = FALSE]
      /\ exemption' = [e \in ExemptionId |-> IF exemption[e].policy = p THEN [exemption[e] EXCEPT !.policy = NoPolicy] ELSE exemption[e]]
      /\ UNCHANGED <<evaluation, PolicyOthers, policyCall, policyNow, policyFaults>>
      /\ policy \in [PolicyId -> PolicyRow] /\ exemption \in [ExemptionId -> Exemption]
      /\ evaluation.exempted \subseteq PolicyId /\ evaluation.todo \subseteq PolicyId
  BY <1>1 DEF deletePolicyRow, DeletePolicy, PolicyInv, PolicyTypeOK, PolicyOthers
<1>3. policy' \in [PolicyId -> PolicyRow] /\ ~policy'[p].exists
      /\ \A q \in PolicyId : policy'[q].used = policy[q].used /\ (policy'[q].exists => policy[q].exists)
  BY <1>2 DEF PolicyRow
<1>4. exemption' \in [ExemptionId -> Exemption]
  BY <1>2 DEF Exemption
<1>5. PolicyTypeOK'
  BY <1>2, <1>3, <1>4 DEF PolicyInv, PolicyTypeOK, PolicyOthers
<1>6. ExemptedOK'
  <2> SUFFICES ASSUME NEW q \in evaluation.exempted
               PROVE  policy'[q].used /\ (policy'[q].exists => \E e \in ExemptionId : Exempts(e, q, evaluation.now)')
    BY <1>2 DEF ExemptedOK, Exempts
  <2>1. q \in PolicyId /\ policy[q].used /\ (policy[q].exists => \E e \in ExemptionId : Exempts(e, q, evaluation.now))
    BY <1>2 DEF PolicyInv, ExemptedOK
  <2>2. QED
    BY <1>2, <1>3, <2>1 DEF Exempts
<1>7. TodoUsed'
  BY <1>2, <1>3 DEF PolicyInv, TodoUsed
<1>8. QED
  BY <1>5, <1>6, <1>7 DEF PolicyInv

\* An exemption is requested or decided: approved ones stay as they are.
LEMMA PolicyExemptionStep ==
  ASSUME PolicyInv, UNCHANGED <<policy, evaluation, PolicyOthers, policyNow>>,
         policyCall' \in [PolicyCall -> PolicyCallRow],
         policyAsked' \in 0 .. MaxPolicyRequests, policyFaults' \in 0 .. MaxPolicyFaults,
         exemption' \in [ExemptionId -> Exemption],
         \A e \in ExemptionId : exemption[e].state = "approved" => exemption'[e] = exemption[e]
  PROVE  PolicyInv'
<1>1. PolicyTypeOK'
  BY DEF PolicyInv, PolicyTypeOK, PolicyOthers
<1>2. ExemptedOK' /\ TodoUsed'
  BY DEF PolicyInv, ExemptedOK, TodoUsed, Exempts
<1>3. QED
  BY <1>1, <1>2 DEF PolicyInv

LEMMA PolicyExemptionRequested == ASSUME PolicyInv, policyAsked' \in 0 .. MaxPolicyRequests, RequestExemption PROVE PolicyInv'
<1>1. PICK e \in ExemptionId, p \in PolicyId, x \in 1 .. MaxPolicyTime + MaxExemption : CreateExemption(e, p, x)
  BY DEF RequestExemption
<1>2. exemption \in [ExemptionId -> Exemption] /\ UNCHANGED <<policy, evaluation, PolicyOthers, policyCall, policyNow, policyFaults>>
      /\ policyCall \in [PolicyCall -> PolicyCallRow] /\ policyFaults \in 0 .. MaxPolicyFaults
  BY DEF PolicyInv, PolicyTypeOK, RequestExemption, PolicyOthers
<1>3. exemption' \in [ExemptionId -> Exemption]
  BY <1>1, <1>2, PolicyBounds DEF CreateExemption, Exemption
<1>4. \A d \in ExemptionId : exemption[d].state = "approved" => exemption'[d] = exemption[d]
  BY <1>1, <1>2 DEF CreateExemption
<1>5. QED
  BY <1>2, <1>3, <1>4, PolicyExemptionStep

LEMMA PolicyExemptionDecided ==
  ASSUME PolicyInv, NEW c \in PolicyCall, DecideExemptionWrites(c)
  PROVE  PolicyInv'
<1>1. PICK state \in {"approved", "rejected"} : SetExemptionState(policyCall[c].exemption, state)
  BY DEF DecideExemptionWrites
<1>2. exemption \in [ExemptionId -> Exemption] /\ UNCHANGED <<policy, evaluation, PolicyOthers, policyNow, policyAsked, policyFaults>>
      /\ policyCall' \in [PolicyCall -> PolicyCallRow] /\ policyFaults \in 0 .. MaxPolicyFaults /\ policyAsked \in 0 .. MaxPolicyRequests
      /\ policyCall[c].exemption \in ExemptionId
  BY PolicyIdleTyped DEF PolicyInv, PolicyTypeOK, DecideExemptionWrites, PolicyOthers, PolicyCallRow
<1>3. exemption' \in [ExemptionId -> Exemption]
  BY <1>1, <1>2 DEF SetExemptionState, Exemption
<1>4. \A d \in ExemptionId : exemption[d].state = "approved" => exemption'[d] = exemption[d]
  BY <1>1, <1>2 DEF SetExemptionState
<1>5. QED
  BY <1>2, <1>3, <1>4, PolicyExemptionStep

LEMMA PolicyExemptionRead ==
  ASSUME PolicyInv, NEW c \in PolicyCall, NEW e \in ExemptionId, DecideExemption(c, e), policyAsked' \in 0 .. MaxPolicyRequests
  PROVE  PolicyInv'
<1>1. [IdlePolicyCall EXCEPT !.pc = "decide", !.exemption = e] \in PolicyCallRow
  BY PolicyIdleTyped DEF PolicyCallRow
<1>2. policyCall' \in [PolicyCall -> PolicyCallRow]
  BY <1>1 DEF DecideExemption, PolicyInv, PolicyTypeOK
<1>3. QED
  BY <1>2, PolicyExemptionStep DEF DecideExemption, PolicyInv, PolicyTypeOK, PolicyOthers

LEMMA PolicyEvaluates == ASSUME PolicyInv, policyAsked' \in 0 .. MaxPolicyRequests, evaluate PROVE PolicyInv'
<1>1. /\ evaluation' = [NoEvaluation EXCEPT !.pc = "next", !.now = policyNow, !.todo = {p \in ListPolicies : Eval(p)}]
      /\ UNCHANGED <<policy, exemption, PolicyOthers, policyCall, policyNow, policyFaults>>
  BY DEF evaluate, PolicyOthers
<1>2. /\ evaluation'.exempted = {} /\ evaluation'.todo = {p \in ListPolicies : Eval(p)} /\ evaluation'.denied = {}
      /\ evaluation'.now = policyNow /\ evaluation'.pc = "next"
      /\ evaluation' \in [pc : {"next"}, now : {policyNow}, todo : {{p \in ListPolicies : Eval(p)}}, denied : {{}}, exempted : {{}}]
  BY <1>1 DEF NoEvaluation
<1>3. PolicyTypeOK'
  BY <1>1, <1>2 DEF PolicyInv, PolicyTypeOK, PolicyOthers, ListPolicies
<1>4. QED
  BY <1>1, <1>2, <1>3 DEF PolicyInv, ExemptedOK, TodoUsed, ListPolicies

LEMMA PolicyEvals == ASSUME PolicyInv, EvalPolicy PROVE PolicyInv'
<1>1. UNCHANGED <<policy, exemption, PolicyOthers, policyCall, policyNow, policyAsked, policyFaults>>
      /\ evaluation \in [pc : {"idle", "next", "done"}, now : 0 .. MaxPolicyTime, todo : SUBSET PolicyId, denied : SUBSET PolicyId, exempted : SUBSET PolicyId]
  BY DEF EvalPolicy, PolicyOthers, PolicyInv, PolicyTypeOK
<1>2. CASE evaluation.todo = {} /\ evaluation' = [evaluation EXCEPT !.pc = "done"]
  <2>1. PolicyTypeOK'
    BY <1>1, <1>2 DEF PolicyInv, PolicyTypeOK, PolicyOthers
  <2>2. QED
    BY <1>1, <1>2, <2>1 DEF PolicyInv, ExemptedOK, TodoUsed, Exempts
<1>3. ASSUME NEW p \in evaluation.todo,
             evaluation' = [evaluation EXCEPT !.todo = @ \ {p},
                 !.denied = IF ListValidExemptions(p, evaluation.now) = {} THEN @ \cup {p} ELSE @,
                 !.exempted = IF ListValidExemptions(p, evaluation.now) = {} THEN @ ELSE @ \cup {p}]
      PROVE  PolicyInv'
  <2>1. PolicyTypeOK'
    BY <1>1, <1>3 DEF PolicyInv, PolicyTypeOK, PolicyOthers
  <2>2. evaluation'.todo = evaluation.todo \ {p} /\ evaluation'.now = evaluation.now
        /\ evaluation'.exempted = IF ListValidExemptions(p, evaluation.now) = {} THEN evaluation.exempted ELSE evaluation.exempted \cup {p}
    BY <1>1, <1>3
  <2>3. TodoUsed'
    BY <1>1, <2>2 DEF PolicyInv, TodoUsed
  <2>4. ExemptedOK'
    BY <1>1, <2>2 DEF PolicyInv, ExemptedOK, TodoUsed, Exempts, ListValidExemptions
  <2>5. QED
    BY <2>1, <2>3, <2>4 DEF PolicyInv
<1>4. QED
  BY <1>2, <1>3 DEF EvalPolicy

LEMMA PolicyReturns == ASSUME PolicyInv, EvaluationReturns \/ PolicyTick PROVE PolicyInv'
<1>1. CASE EvaluationReturns
  BY <1>1, PolicyAssumption DEF EvaluationReturns, NoEvaluation, PolicyInv, PolicyTypeOK, ExemptedOK, TodoUsed
<1>2. CASE PolicyTick
  BY <1>2, PolicyBounds DEF PolicyTick, PolicyInv, PolicyTypeOK, ExemptedOK, TodoUsed, Exempts
<1>3. QED
  BY <1>1, <1>2

LEMMA PolicyCalls ==
  ASSUME PolicyInv, NEW c \in PolicyCall,
         DeletePolicyPackWrites(c) \/ PolicyHandle(c) \/ PolicyCallFails(c)
  PROVE  PolicyInv'
<1>1. /\ policyCall \in [PolicyCall -> PolicyCallRow] /\ policyCall[c] \in PolicyCallRow /\ pack \in BOOLEAN
      /\ assignment \subseteq PackTarget /\ assigned \subseteq PackTarget /\ bundle \subseteq PackCluster
      /\ policyAsked \in 0 .. MaxPolicyRequests /\ policyFaults \in 0 .. MaxPolicyFaults
      /\ [policyCall EXCEPT ![c] = IdlePolicyCall] \in [PolicyCall -> PolicyCallRow]
  BY PolicyIdleTyped DEF PolicyInv, PolicyTypeOK
<1>2. CASE DeletePolicyPackWrites(c)
  BY <1>1, <1>2, PolicyPackStep DEF DeletePolicyPackWrites, deletePackRow
<1>3. CASE distribute(c)
  <2>1. \A x \in policyCall[c].todo : x \in PackCluster /\ [policyCall[c] EXCEPT !.todo = @ \ {x}] \in PolicyCallRow
    BY <1>1 DEF PolicyCallRow
  <2>2. \A x \in policyCall[c].todo : [policyCall EXCEPT ![c].todo = @ \ {x}] \in [PolicyCall -> PolicyCallRow]
    BY <1>1, <2>1
  <2>3. CASE policyCall[c].todo = {} /\ assigned' = assigned \ {policyCall[c].target} /\ UNCHANGED bundle
           /\ policyCall' = [policyCall EXCEPT ![c] = IdlePolicyCall]
    BY <1>1, <1>3, <2>3, PolicyPackStep DEF distribute
  <2>4. CASE \E x \in policyCall[c].todo :
             /\ bundle' = bundle \cup {x} /\ UNCHANGED assigned
             /\ policyCall' = [policyCall EXCEPT ![c].todo = @ \ {x}]
    BY <1>1, <1>3, <2>1, <2>2, <2>4, PolicyPackStep DEF distribute
  <2>5. QED
    BY <1>3, <2>3, <2>4 DEF distribute
<1>4. ASSUME NEW t \in PackTarget, HandleAssigned(c, t) PROVE PolicyInv'
  <2>1. [IdlePolicyCall EXCEPT !.pc = "distribute", !.target = t, !.todo = targetClusters(t)] \in PolicyCallRow
    BY PolicyIdleTyped DEF PolicyCallRow, targetClusters, PackCluster
  <2>2. policyCall' \in [PolicyCall -> PolicyCallRow] /\ assigned' \subseteq PackTarget
    BY <1>1, <1>4, <2>1 DEF HandleAssigned
  <2>3. QED
    BY <1>1, <1>4, <2>2, PolicyPackStep DEF HandleAssigned
<1>5. CASE PolicyCallFails(c)
  BY <1>1, <1>5, PolicyPackStep, PolicyBounds DEF PolicyCallFails
<1>6. QED
  BY <1>2, <1>3, <1>4, <1>5 DEF PolicyHandle

LEMMA PolicyPacks ==
  ASSUME PolicyInv, policyAsked' \in 0 .. MaxPolicyRequests,
         CreatePolicyPack \/ (\E t \in PackTarget : Assign(t) \/ Unassign(t))
         \/ (\E c \in PolicyCall, f \in BOOLEAN : DeletePolicyPack(c, f))
  PROVE  PolicyInv'
<1>1. /\ policyCall \in [PolicyCall -> PolicyCallRow] /\ pack \in BOOLEAN
      /\ assignment \subseteq PackTarget /\ assigned \subseteq PackTarget /\ bundle \subseteq PackCluster
      /\ policyFaults \in 0 .. MaxPolicyFaults
  BY DEF PolicyInv, PolicyTypeOK
<1>2. CASE CreatePolicyPack
  BY <1>1, <1>2, PolicyPackStep DEF CreatePolicyPack
<1>3. CASE \E t \in PackTarget : Assign(t) \/ Unassign(t)
  BY <1>1, <1>3, PolicyPackStep DEF Assign, Unassign, CreateAssignment, DeleteAssignment
<1>4. ASSUME NEW c \in PolicyCall, NEW f \in BOOLEAN, DeletePolicyPack(c, f) PROVE PolicyInv'
  <2>1. [IdlePolicyCall EXCEPT !.pc = "delete", !.seen = ListAssignments] \in PolicyCallRow
    BY <1>1, PolicyIdleTyped DEF PolicyCallRow, ListAssignments
  <2>2. policyCall' \in [PolicyCall -> PolicyCallRow]
    BY <1>1, <1>4, <2>1 DEF DeletePolicyPack
  <2>3. QED
    BY <1>1, <1>4, <2>2, PolicyPackStep DEF DeletePolicyPack
<1>5. QED
  BY <1>2, <1>3, <1>4

LEMMA PolicyInvStep == ASSUME PolicyInv, [PolicyNext]_policyVars PROVE PolicyInv'
<1>1. CASE UNCHANGED policyVars
  BY <1>1 DEF policyVars, PolicyInv, PolicyTypeOK, ExemptedOK, TodoUsed, Exempts
<1>2. CASE PolicyRoutes
  <2> PICK u \in User :
        \/ httpCreatePolicy(u) \/ httpUpdatePolicy(u) \/ httpDeletePolicy(u) \/ httpEvaluate(u)
        \/ httpRequestExemption(u) \/ httpDecideExemption(u) \/ httpCreatePack(u) \/ httpAssignPack(u)
        \/ httpUnassignPack(u) \/ httpDeletePack(u)
    BY <1>2 DEF PolicyRoutes
  <2>1. \A relation : authorizePolicy(u, relation) => policyAsked' \in 0 .. MaxPolicyRequests
    BY PolicyBounds DEF authorizePolicy
  <2>2. CASE httpCreatePolicy(u) \/ httpUpdatePolicy(u)
    BY <2>1, <2>2, PolicyRowsWritten DEF httpCreatePolicy, httpUpdatePolicy
  <2>3. CASE httpDeletePolicy(u)
    BY <2>1, <2>3, PolicyDeleted DEF httpDeletePolicy
  <2>4. CASE httpEvaluate(u)
    BY <2>1, <2>4, PolicyEvaluates DEF httpEvaluate, PreFlight, RenderCheck
  <2>5. CASE httpRequestExemption(u)
    BY <2>1, <2>5, PolicyExemptionRequested DEF httpRequestExemption
  <2>6. CASE httpDecideExemption(u)
    BY <2>1, <2>6, PolicyExemptionRead DEF httpDecideExemption
  <2>7. CASE httpCreatePack(u) \/ httpAssignPack(u) \/ httpUnassignPack(u) \/ httpDeletePack(u)
    BY <2>1, <2>7, PolicyPacks DEF httpCreatePack, httpAssignPack, httpUnassignPack, httpDeletePack
  <2>8. QED
    BY <2>2, <2>3, <2>4, <2>5, <2>6, <2>7
<1>3. ASSUME NEW c \in PolicyCall, PolicyCallReturns(c) \/ PolicyHandle(c) \/ PolicyCallFails(c) PROVE PolicyInv'
  BY <1>3, PolicyExemptionDecided, PolicyCalls DEF PolicyCallReturns
<1>4. QED
  BY <1>1, <1>2, <1>3, PolicyEvals, PolicyReturns DEF PolicyNext

LEMMA PolicyInvGate == ASSUME PolicyInv PROVE PolicyTypeOK /\ PassedIsExempt
BY DEF PolicyInv, ExemptedOK, Exempts, PassedIsExempt

\* A write of an exemption row takes its policy away, fills a row that is still pending,
\* or decides one.
DecidedStays ==
    \A e \in ExemptionId :
        exemption[e].state # "pending" /\ exemption'[e].policy # NoPolicy
            => exemption'[e].state = exemption[e].state
LEMMA PolicyStepDecides == ASSUME PolicyInv, [PolicyNext]_policyVars PROVE DecidedStays
<1>0. exemption \in [ExemptionId -> Exemption]
  BY DEF PolicyInv, PolicyTypeOK
<1>1. CASE UNCHANGED exemption
  BY <1>1 DEF DecidedStays
<1>2. CASE DeletePolicy
  <2>1. PICK p \in PolicyId : deletePolicyRow(p)
    BY <1>2 DEF DeletePolicy
  <2>2. \A e \in ExemptionId : exemption'[e].state = exemption[e].state
    BY <1>0, <2>1 DEF deletePolicyRow, Exemption
  <2>3. QED
    BY <2>2 DEF DecidedStays
<1>3. CASE RequestExemption
  <2>1. PICK d \in ExemptionId, p \in PolicyId, x \in 1 .. MaxPolicyTime + MaxExemption : CreateExemption(d, p, x)
    BY <1>3 DEF RequestExemption
  <2>2. exemption[d].state = "pending" /\ \A e \in ExemptionId \ {d} : exemption'[e] = exemption[e]
    BY <1>0, <2>1 DEF CreateExemption
  <2>3. QED
    BY <2>2 DEF DecidedStays
<1>4. ASSUME NEW c \in PolicyCall, DecideExemptionWrites(c) PROVE DecidedStays
  <2>1. PICK state \in {"approved", "rejected"} : SetExemptionState(policyCall[c].exemption, state)
    BY <1>4 DEF DecideExemptionWrites
  <2>2. \A e \in ExemptionId : exemption[e].state # "pending" => exemption'[e] = exemption[e]
    BY <1>0, <2>1 DEF SetExemptionState
  <2>3. QED
    BY <2>2 DEF DecidedStays
<1>5. CASE PolicyRoutes
  <2> PICK u \in User :
        \/ httpCreatePolicy(u) \/ httpUpdatePolicy(u) \/ httpDeletePolicy(u) \/ httpEvaluate(u)
        \/ httpRequestExemption(u) \/ httpDecideExemption(u) \/ httpCreatePack(u) \/ httpAssignPack(u)
        \/ httpUnassignPack(u) \/ httpDeletePack(u)
    BY <1>5 DEF PolicyRoutes
  <2>1. CASE httpCreatePolicy(u) \/ httpUpdatePolicy(u)
    BY <1>1, <2>1 DEF httpCreatePolicy, httpUpdatePolicy, CreatePolicy, UpdatePolicy, policyRowsSame
  <2>2. CASE httpDeletePolicy(u)
    BY <1>2, <2>2 DEF httpDeletePolicy
  <2>3. CASE httpEvaluate(u)
    BY <1>1, <2>3 DEF httpEvaluate, PreFlight, RenderCheck, evaluate
  <2>4. CASE httpRequestExemption(u)
    BY <1>3, <2>4 DEF httpRequestExemption
  <2>5. CASE httpDecideExemption(u)
    BY <1>1, <2>5 DEF httpDecideExemption, DecideExemption
  <2>6. CASE httpCreatePack(u) \/ httpAssignPack(u) \/ httpUnassignPack(u) \/ httpDeletePack(u)
    BY <1>1, <2>6 DEF httpCreatePack, httpAssignPack, httpUnassignPack, httpDeletePack, CreatePolicyPack,
       Assign, Unassign, DeletePolicyPack, packSame
  <2>7. QED
    BY <2>1, <2>2, <2>3, <2>4, <2>5, <2>6
<1>6. ASSUME NEW c \in PolicyCall, DeletePolicyPackWrites(c) \/ PolicyHandle(c) \/ PolicyCallFails(c) PROVE DecidedStays
  BY <1>1, <1>6 DEF DeletePolicyPackWrites, PolicyHandle, distribute, HandleAssigned, PolicyCallFails, packSame
<1>7. CASE EvalPolicy \/ EvaluationReturns \/ PolicyTick \/ UNCHANGED policyVars
  BY <1>1, <1>7 DEF EvalPolicy, EvaluationReturns, PolicyTick, policyVars
<1>8. QED
  BY <1>4, <1>5, <1>6, <1>7 DEF PolicyNext, PolicyCallReturns

-----------------------------------------------------------------------------
(* Drift: the inductive invariant *)

\* A sweep that looks at an instance has one to look at, one that resolves an event has one to resolve.
SweepsOK == \A w \in DriftSweeper :
    /\ sweep[w].pc \in {"check", "insert"} => sweep[w].todo # {}
    /\ sweep[w].pc = "resolve" => sweep[w].open # {}
DriftInv == DriftTypeOK /\ SweepsOK

SweepRow == [pc : {"idle", "check", "insert", "open", "resolve"},
             current : SUBSET DriftKey, todo : SUBSET DriftKey, open : SUBSET DriftEventId]
LEMMA DriftBounds ==
  MaxReports \in Nat /\ MaxSweepFaults \in Nat /\ IdleSweep \in SweepRow /\ IdleSweep.pc = "idle"
BY DriftAssumption DEF IdleSweep, SweepRow

LEMMA DriftInvInit == ASSUME DriftInit PROVE DriftInv
<1>1. sweep \in [DriftSweeper -> SweepRow] /\ \A w \in DriftSweeper : sweep[w].pc = "idle"
  BY DriftBounds DEF DriftInit
<1>2. DriftTypeOK
  BY <1>1, DriftBounds DEF DriftInit, DriftTypeOK, SweepRow, SyncState
<1>3. QED
  BY <1>1, <1>2 DEF DriftInv, SweepsOK

\* One sweep goes on as row.
LEMMA SweepMoves ==
  ASSUME DriftInv, NEW w \in DriftSweeper, NEW row \in SweepRow, sweep' = [sweep EXCEPT ![w] = row],
         row.pc \in {"check", "insert"} => row.todo # {}, row.pc = "resolve" => row.open # {},
         UNCHANGED <<syncState, reports>>, sweepFaults' \in 0 .. MaxSweepFaults,
         openDrift' \in [DriftEventId -> DriftKey \cup {NoDrift}]
  PROVE  DriftInv'
<1>1. DriftTypeOK'
  BY DEF DriftInv, DriftTypeOK, SweepRow
<1>2. SweepsOK'
  BY DEF DriftInv, DriftTypeOK, SweepsOK
<1>3. QED
  BY <1>1, <1>2 DEF DriftInv

\* What is left to look at.
LEMMA ReportedFacts ==
  ASSUME DriftInv, NEW w \in DriftSweeper, NEW k \in sweep[w].todo, Reported(w, k, "check")
  PROVE  \E row \in SweepRow : /\ sweep' = [sweep EXCEPT ![w] = row]
                               /\ row.pc \in {"check", "insert"} => row.todo # {}
                               /\ row.pc = "resolve" => row.open # {}
<1>1. sweep[w] \in SweepRow /\ sweep \in [DriftSweeper -> SweepRow]
  BY DEF DriftInv, DriftTypeOK, SweepRow
<1>2. PICK pc : pc = IF sweep[w].todo = {k} THEN "open" ELSE "check"
  OBVIOUS
<1>3. PICK row : row = [sweep[w] EXCEPT !.todo = @ \ {k}, !.pc = pc]
  OBVIOUS
<1>4. row \in SweepRow /\ row.todo = sweep[w].todo \ {k} /\ row.pc = pc
  BY <1>1, <1>2, <1>3 DEF SweepRow
<1>5. sweep' = [sweep EXCEPT ![w] = row]
  BY <1>1, <1>2, <1>3 DEF Reported
<1>6. QED
  BY <1>2, <1>4, <1>5

LEMMA SweepStepKeepsInv ==
  ASSUME DriftInv, NEW w \in DriftSweeper, SweepStep(w) PROVE DriftInv'
<1>1. /\ sweep[w] \in SweepRow /\ sweep \in [DriftSweeper -> SweepRow] /\ sweepFaults \in 0 .. MaxSweepFaults
      /\ openDrift \in [DriftEventId -> DriftKey \cup {NoDrift}]
      /\ sweep[w].pc \in {"check", "insert"} => sweep[w].todo # {}
      /\ sweep[w].pc = "resolve" => sweep[w].open # {}
      /\ sweep[w].todo \subseteq DriftKey /\ sweep[w].open \subseteq DriftEventId
  BY DEF DriftInv, DriftTypeOK, SweepsOK, SweepRow
<1>2. CASE DriftSweep(w)
  <2>1. PICK pc, diverged : /\ diverged = listOutOfSyncInstances
                            /\ pc = IF diverged = {} THEN "open" ELSE "check"
    OBVIOUS
  <2>2. PICK row : row = [pc |-> pc, current |-> diverged, todo |-> diverged, open |-> {}]
    OBVIOUS
  <2>3. diverged \subseteq DriftKey
    BY <2>1 DEF listOutOfSyncInstances
  <2>4. row \in SweepRow /\ row.pc = pc /\ row.todo = diverged
    BY <2>1, <2>2, <2>3 DEF SweepRow
  <2>5. sweep' = [sweep EXCEPT ![w] = row] /\ UNCHANGED <<syncState, openDrift, reports, sweepFaults>>
    BY <1>2, <2>1, <2>2 DEF DriftSweep
  <2>6. QED
    BY <1>1, <2>1, <2>4, <2>5, SweepMoves
<1>3. CASE ReportDrift(w)
  <2>1. PICK k : k = CHOOSE x \in sweep[w].todo : TRUE
    OBVIOUS
  <2>2. k \in sweep[w].todo /\ sweep[w].pc = "check" /\ UNCHANGED <<syncState, openDrift, reports, sweepFaults>>
    BY <1>1, <1>3, <2>1 DEF ReportDrift
  <2>3. CASE Reported(w, k, "check")
    BY <1>1, <2>2, <2>3, ReportedFacts, SweepMoves
  <2>4. CASE sweep' = [sweep EXCEPT ![w].pc = "insert"]
    <3>1. PICK row : row = [sweep[w] EXCEPT !.pc = "insert"]
      OBVIOUS
    <3>2. row \in SweepRow /\ row.pc = "insert" /\ row.todo = sweep[w].todo /\ sweep' = [sweep EXCEPT ![w] = row]
      BY <1>1, <2>4, <3>1 DEF SweepRow
    <3>3. QED
      BY <1>1, <2>2, <3>2, SweepMoves
  <2>5. QED
    BY <1>3, <2>1, <2>3, <2>4 DEF ReportDrift
<1>4. CASE insertDrift(w)
  <2>1. PICK k : k = CHOOSE x \in sweep[w].todo : TRUE
    OBVIOUS
  <2>2. k \in sweep[w].todo /\ k \in DriftKey /\ UNCHANGED <<syncState, reports, sweepFaults>>
        /\ Reported(w, k, "check") /\ openDrift' = [openDrift EXCEPT ![CHOOSE e \in FreshDrift : TRUE] = k]
    BY <1>1, <1>4, <2>1 DEF insertDrift
  <2>3. openDrift' \in [DriftEventId -> DriftKey \cup {NoDrift}]
    BY <1>1, <2>2
  <2>4. QED
    BY <1>1, <2>2, <2>3, ReportedFacts, SweepMoves
<1>5. CASE ResolutionPass(w)
  <2>1. PICK stale : stale = {e \in listOpenDrift : openDrift[e] \notin sweep[w].current}
    OBVIOUS
  <2>2. stale \subseteq DriftEventId
    BY <2>1 DEF listOpenDrift
  <2>3. PICK row : row = IF stale = {} THEN IdleSweep ELSE [sweep[w] EXCEPT !.pc = "resolve", !.open = stale]
    OBVIOUS
  <2>4. row \in SweepRow /\ (row.pc = "resolve" => row.open # {}) /\ row.pc \notin {"check", "insert"}
    BY <1>1, <2>2, <2>3, DriftBounds DEF SweepRow
  <2>5. sweep' = [sweep EXCEPT ![w] = row] /\ UNCHANGED <<syncState, openDrift, reports, sweepFaults>>
    BY <1>5, <2>1, <2>3 DEF ResolutionPass
  <2>6. QED
    BY <1>1, <2>4, <2>5, SweepMoves
<1>6. CASE ResolveDrift(w)
  <2>1. PICK e, rest : e = (CHOOSE x \in sweep[w].open : TRUE) /\ rest = sweep[w].open \ {e}
    OBVIOUS
  <2>2. e \in sweep[w].open /\ openDrift' = [openDrift EXCEPT ![e] = NoDrift] /\ UNCHANGED <<syncState, reports, sweepFaults>>
        /\ sweep' = [sweep EXCEPT ![w] = IF rest = {} THEN IdleSweep ELSE [@ EXCEPT !.open = rest]]
    BY <1>1, <1>6, <2>1 DEF ResolveDrift
  <2>3. PICK row : row = IF rest = {} THEN IdleSweep ELSE [sweep[w] EXCEPT !.open = rest]
    OBVIOUS
  <2>4. row \in SweepRow /\ (row.pc = "resolve" => row.open # {}) /\ row.pc \notin {"check", "insert"}
    <3>1. sweep[w].pc = "resolve" /\ rest \subseteq DriftEventId
      BY <1>1, <1>6, <2>1 DEF ResolveDrift
    <3>2. QED
      BY <1>1, <2>3, <3>1, DriftBounds DEF SweepRow
  <2>5. sweep' = [sweep EXCEPT ![w] = row]
    BY <1>1, <2>2, <2>3
  <2>6. openDrift' \in [DriftEventId -> DriftKey \cup {NoDrift}]
    BY <1>1, <2>2
  <2>7. QED
    BY <1>1, <2>2, <2>4, <2>5, <2>6, SweepMoves
<1>7. QED
  BY <1>2, <1>3, <1>4, <1>5, <1>6 DEF SweepStep

LEMMA DriftInvStep == ASSUME DriftInv, [DriftNext]_driftVars PROVE DriftInv'
<1>1. CASE AgentReports
  BY <1>1, DriftBounds DEF AgentReports, DriftInv, DriftTypeOK, SweepsOK, SyncState
<1>2. ASSUME NEW w \in DriftSweeper, SweepFails(w) PROVE DriftInv'
  <2>1. sweepFaults' \in 0 .. MaxSweepFaults
    BY <1>2, DriftBounds DEF SweepFails, DriftInv, DriftTypeOK
  <2>2. QED
    BY <1>2, <2>1, DriftBounds, SweepMoves DEF SweepFails, DriftInv, DriftTypeOK
<1>3. CASE UNCHANGED driftVars
  BY <1>3 DEF driftVars, DriftInv, DriftTypeOK, SweepsOK
<1>4. QED
  BY <1>1, <1>2, <1>3, SweepStepKeepsInv DEF DriftNext

-----------------------------------------------------------------------------
(* Scaffold: the inductive invariant *)

\* A step that anyone has as completed has left its effects.
LeftBy(eff, kind, steps) == \A n \in allStepNames : steps[n].state = "completed" => StepEffects(kind, n) \subseteq eff
\* Attempts are counted failures.
AttemptsOf(failures, steps) == \A n \in allStepNames : steps[n].attempts <= failures
RowsDone ==
    /\ LeftBy(effect, run.kind, runStep)
    /\ run.phase = "absent" => \A n \in allStepNames : runStep[n].state # "completed"
\* A driver at work has a run of the kind that is there.
DriversDone ==
    \A d \in Driver : driver[d].pc # "idle" =>
       /\ run.phase # "absent" /\ driver[d].run.kind = run.kind
       /\ LeftBy(effect, run.kind, driver[d].steps)
AttemptsCounted == AttemptsOf(stepFailures, runStep) /\ \A d \in Driver : AttemptsOf(stepFailures, driver[d].steps)
ScaffoldInv == ScaffoldTypeOK /\ RowsDone /\ DriversDone /\ AttemptsCounted /\ CompletedRunIsDone

LEMMA ScaffoldBounds ==
  /\ MaxAttempts \in Nat /\ MaxScaffoldRequests \in Nat /\ MaxDriverCrashes \in Nat /\ MaxStepFailures \in Nat
  /\ ScaffoldKind \subseteq {"component", "gitops-repo"}
BY ScaffoldAssumption

LEMMA ScaffoldIdleTyped ==
  NoRun \in ScaffoldRunRow /\ FreshSteps \in [allStepNames -> ScaffoldStepRow] /\ IdleDriver \in DriverRow
  /\ FreshSteps \in [allStepNames -> DriverStepRow] /\ IdleDriver.pc = "idle"
  /\ \A n \in allStepNames : FreshSteps[n].state = "pending" /\ FreshSteps[n].attempts = 0
<1>1. NoRun \in ScaffoldRunRow
  BY DEF NoRun, ScaffoldRunRow, ScaffoldPhase
<1>2. [state |-> "pending", attempts |-> 0] \in ScaffoldStepRow /\ [state |-> "pending", attempts |-> 0] \in DriverStepRow
  BY ScaffoldBounds DEF ScaffoldStepRow, DriverStepRow
<1>3. FreshSteps \in [allStepNames -> ScaffoldStepRow] /\ FreshSteps \in [allStepNames -> DriverStepRow]
      /\ \A n \in allStepNames : FreshSteps[n].state = "pending" /\ FreshSteps[n].attempts = 0
  BY <1>2 DEF FreshSteps
<1>4. "rendering" \in allStepNames
  BY DEF allStepNames
<1>5. IdleDriver \in DriverRow /\ IdleDriver.pc = "idle"
  BY <1>1, <1>3, <1>4 DEF IdleDriver, DriverRow
<1>6. QED
  BY <1>1, <1>3, <1>5

LEMMA ResumeIdleTyped == ASSUME NEW done \in SUBSET (RunApproval \cup {NoHold}) PROVE HandlerIdle(done) \in ResumeRow
BY DEF HandlerIdle, ResumeRow

LEMMA ScaffoldInvInit == ASSUME ScaffoldInit PROVE ScaffoldInv
<1>1. ScaffoldTypeOK
  BY ScaffoldIdleTyped, ScaffoldBounds, ResumeIdleTyped DEF ScaffoldInit, ScaffoldTypeOK
<1>2. RowsDone
  BY ScaffoldIdleTyped DEF ScaffoldInit, RowsDone, LeftBy
<1>3. DriversDone
  BY ScaffoldIdleTyped DEF ScaffoldInit, DriversDone
<1>4. AttemptsCounted
  BY ScaffoldIdleTyped DEF ScaffoldInit, AttemptsCounted, AttemptsOf, IdleDriver
<1>5. CompletedRunIsDone
  BY DEF ScaffoldInit, CompletedRunIsDone, NoRun
<1>6. QED
  BY <1>1, <1>2, <1>3, <1>4, <1>5 DEF ScaffoldInv

-----------------------------------------------------------------------------
(* Scaffold: steps and their effects *)

LEMMA OrderOfSteps ==
  ASSUME NEW kind
  PROVE  /\ DOMAIN stepOrderForKind(kind) = 1 .. 5
         /\ \A i \in 1 .. 5 : stepOrderForKind(kind)[i] \in allStepNames
BY DEF stepOrderForKind, allStepNames

\* nextPhaseForRun and the runner go on with a step of the run's kind that is not completed.
LEMMA NextStepOfRun ==
  ASSUME NEW r, NEW steps, Remaining(r, steps) # {}
  PROVE  FirstRemaining(r, steps) \in allStepNames
<1> DEFINE R == Remaining(r, steps)
<1>1. R \subseteq 1 .. 5
  BY OrderOfSteps DEF Remaining
<1> HIDE DEF R
<1>2. \E i \in R : \A j \in R : i <= j
  <2>1. CASE 1 \in R
    BY <1>1, <2>1
  <2>2. CASE 1 \notin R /\ 2 \in R
    BY <1>1, <2>2
  <2>3. CASE 1 \notin R /\ 2 \notin R /\ 3 \in R
    BY <1>1, <2>3
  <2>4. CASE 1 \notin R /\ 2 \notin R /\ 3 \notin R /\ 4 \in R
    BY <1>1, <2>4
  <2>6. PICK i \in R : TRUE
    BY DEF R
  <2>7. i = 1 \/ i = 2 \/ i = 3 \/ i = 4 \/ i = 5
    BY <1>1, <2>6
  <2>8. 1 \in R \/ 2 \in R \/ 3 \in R \/ 4 \in R \/ 5 \in R
    BY <2>6, <2>7
  <2>9. CASE 1 \notin R /\ 2 \notin R /\ 3 \notin R /\ 4 \notin R /\ 5 \in R
    <3>1. \A j \in R : j = 5
      BY <1>1, <2>9
    <3>2. QED
      BY <2>9, <3>1
  <2>10. QED
    BY <2>1, <2>2, <2>3, <2>4, <2>8, <2>9
<1>3. (CHOOSE i \in R : \A j \in R : i <= j) \in R
  BY <1>2
<1>4. FirstRemaining(r, steps) = stepOrderForKind(r.kind)[CHOOSE i \in R : \A j \in R : i <= j]
  BY DEF FirstRemaining, R
<1>5. QED
  BY <1>1, <1>3, <1>4, OrderOfSteps

\* nextPhaseForRun names a step, or what the caller falls back on.
LEMMA NextPhase ==
  ASSUME NEW r, NEW steps, NEW last
  PROVE  nextPhaseForRun(r, steps, last) \in allStepNames \cup {last}
BY NextStepOfRun DEF nextPhaseForRun

\* When none remains, each step of the run's kind is completed.
LEMMA NoneRemains ==
  ASSUME NEW r, NEW steps, Remaining(r, steps) = {}
  PROVE  \A i \in DOMAIN stepOrderForKind(r.kind) : steps[stepOrderForKind(r.kind)[i]].state = "completed"
BY DEF Remaining

\* What a step leaves behind is among the effects; a step cut short leaves a part of it.
LEMMA PartOfEffects ==
  ASSUME NEW kind \in {"component", "gitops-repo"}, NEW n \in allStepNames,
         NEW k \in 0 .. Len(stepFuncs(kind, n))
  PROVE  Effects(stepFuncs(kind, n), k) \subseteq ScaffoldEffect
<1>1. Len(stepFuncs(kind, n)) \in Nat
  BY DEF stepFuncs, allStepNames, stepRendering, stepCreatingRepo, stepCreatingPipeline,
         stepRegisteringCatalog, stepRegisteringRepo, stepAttachingRootApp, stepBindingRBAC
<1>2. Effects(stepFuncs(kind, n), k) \subseteq StepEffects(kind, n)
  <2> DEFINE l == Len(stepFuncs(kind, n))
  <2>1. 1 .. k \subseteq 1 .. l
    BY <1>1
  <2> HIDE DEF l
  <2>2. StepEffects(kind, n) = Effects(stepFuncs(kind, n), l)
    BY DEF StepEffects, l
  <2>3. QED
    BY <2>1, <2>2 DEF Effects
<1>3. StepEffects(kind, n) \subseteq ScaffoldEffect
  BY DEF ScaffoldEffect
<1>4. QED
  BY <1>2, <1>3

\* A settled step, in the copy of its driver.
LEMMA SettledStep ==
  ASSUME NEW dr \in DriverRow, NEW n \in allStepNames, NEW row \in DriverStepRow
  PROVE  /\ WithSettled(dr, n, row) \in DriverRow /\ WithSettled(dr, n, row).pc = "persist"
         /\ WithSettled(dr, n, row).run = dr.run /\ WithSettled(dr, n, row).at = n
         /\ WithSettled(dr, n, row).steps[n] = row
         /\ \A m \in allStepNames \ {n} : WithSettled(dr, n, row).steps[m] = dr.steps[m]
<1>1. dr.steps \in [allStepNames -> DriverStepRow]
  BY DEF DriverRow
<1> DEFINE st == [dr.steps EXCEPT ![n] = row]
<1>2. st \in [allStepNames -> DriverStepRow] /\ st[n] = row /\ \A m \in allStepNames \ {n} : st[m] = dr.steps[m]
  BY <1>1
<1>3. WithSettled(dr, n, row) = [dr EXCEPT !.pc = "persist", !.at = n, !.steps = st]
  BY DEF WithSettled
<1> HIDE DEF st
<1>4. WithSettled(dr, n, row).pc = "persist" /\ WithSettled(dr, n, row).run = dr.run /\ WithSettled(dr, n, row).at = n
      /\ WithSettled(dr, n, row).steps = st
  BY <1>3 DEF DriverRow
<1>5. WithSettled(dr, n, row) \in DriverRow
  BY <1>2, <1>3 DEF DriverRow
<1>6. QED
  BY <1>2, <1>4, <1>5

-----------------------------------------------------------------------------
(* Scaffold: the step of a driver *)

\* One driver moves on; the rows stay.
LEMMA DriverMoves ==
  ASSUME ScaffoldInv, NEW d \in Driver, NEW dr \in DriverRow, driver' = [driver EXCEPT ![d] = dr],
         UNCHANGED <<run, runStep, resume, scaffoldAsked>>, driverCrashes' \in 0 .. MaxDriverCrashes,
         approval' \in [RunApproval -> {"none", "pending", "approved", "rejected", "expired"}],
         effect \subseteq effect', effect' \subseteq ScaffoldEffect,
         stepFailures' \in 0 .. MaxStepFailures, stepFailures <= stepFailures',
         dr.pc # "idle" => run.phase # "absent" /\ dr.run.kind = run.kind /\ LeftBy(effect', run.kind, dr.steps),
         AttemptsOf(stepFailures', dr.steps)
  PROVE  ScaffoldInv'
<1>1. driver \in [Driver -> DriverRow] /\ stepFailures \in Nat
  BY ScaffoldBounds DEF ScaffoldInv, ScaffoldTypeOK
<1>2. driver' \in [Driver -> DriverRow] /\ \A e \in Driver : driver'[e] = IF e = d THEN dr ELSE driver[e]
  BY <1>1
<1>3. ScaffoldTypeOK'
  BY <1>2 DEF ScaffoldInv, ScaffoldTypeOK
<1>4. RowsDone'
  BY DEF ScaffoldInv, RowsDone, LeftBy
<1>5. DriversDone'
  <2>2. ASSUME NEW e \in Driver, driver'[e].pc # "idle"
        PROVE  run'.phase # "absent" /\ driver'[e].run.kind = run'.kind /\ LeftBy(effect', run'.kind, driver'[e].steps)
    <3>1. CASE e = d
      BY <3>1, <2>2, <1>2 DEF LeftBy
    <3>2. CASE e # d
      BY <3>2, <2>2, <1>2 DEF ScaffoldInv, DriversDone, LeftBy
    <3>3. QED
      BY <3>1, <3>2
  <2>3. QED
    BY <2>2 DEF DriversDone, LeftBy
<1>6. AttemptsCounted'
  <2>1. ASSUME NEW n \in allStepNames PROVE runStep[n].attempts <= stepFailures'
    <3>1. runStep[n].attempts \in Nat /\ runStep[n].attempts <= stepFailures /\ stepFailures' \in Nat
      BY ScaffoldBounds DEF ScaffoldInv, ScaffoldTypeOK, AttemptsCounted, AttemptsOf, ScaffoldStepRow
    <3>2. QED
      BY <1>1, <3>1
  <2>2. ASSUME NEW e \in Driver, NEW n \in allStepNames PROVE driver'[e].steps[n].attempts <= stepFailures'
    <3>1. CASE e = d
      BY <3>1, <1>2 DEF AttemptsOf
    <3>2. CASE e # d
      <4>1. driver[e].steps[n].attempts \in Nat /\ driver[e].steps[n].attempts <= stepFailures /\ stepFailures' \in Nat
        <5>1. driver[e].steps[n] \in DriverStepRow
          BY <1>1 DEF DriverRow
        <5>2. QED
          BY <5>1, ScaffoldBounds DEF ScaffoldInv, AttemptsCounted, AttemptsOf, DriverStepRow
      <4>2. QED
        BY <1>1, <1>2, <3>2, <4>1
    <3>3. QED
      BY <3>1, <3>2
  <2>3. QED
    BY <2>1, <2>2 DEF AttemptsCounted, AttemptsOf
<1>7. CompletedRunIsDone'
  BY DEF ScaffoldInv, CompletedRunIsDone
<1>8. QED
  BY <1>3, <1>4, <1>5, <1>6, <1>7 DEF ScaffoldInv

\* What the invariant says of one driver.
LEMMA DriverFacts ==
  ASSUME ScaffoldInv, NEW d \in Driver
  PROVE  /\ driver \in [Driver -> DriverRow] /\ driver[d] \in DriverRow /\ driver[d].steps \in [allStepNames -> DriverStepRow]
         /\ driver[d].run \in ScaffoldRunRow /\ driver[d].at \in allStepNames /\ run \in ScaffoldRunRow
         /\ AttemptsOf(stepFailures, driver[d].steps)
         /\ driver[d].pc # "idle" => run.phase # "absent" /\ driver[d].run.kind = run.kind /\ LeftBy(effect, run.kind, driver[d].steps)
BY DEF ScaffoldInv, ScaffoldTypeOK, DriverRow, AttemptsCounted, DriversDone

\* The phase changes on a row that is there, or nothing does.
LEMMA PhaseWritten ==
  ASSUME ScaffoldInv, NEW phase \in ScaffoldPhase \ {"absent"}, NEW hold \in RunApproval \cup {NoHold},
         UpdateRunPhase(phase, hold)
  PROVE  /\ run' \in ScaffoldRunRow /\ run'.kind = run.kind
         /\ run.phase = "absent" <=> run'.phase = "absent"
         /\ run.phase # "absent" => run'.phase = phase
<1>1. run \in ScaffoldRunRow
  BY DEF ScaffoldInv, ScaffoldTypeOK
<1>2. QED
  BY <1>1 DEF UpdateRunPhase, ScaffoldRunRow

\* A run's row and its steps are written by a driver that goes on as dr, or by another.
LEMMA RowsWritten ==
  ASSUME ScaffoldInv, run' \in ScaffoldRunRow, run'.kind = run.kind, run.phase = "absent" <=> run'.phase = "absent",
         runStep' \in [allStepNames -> ScaffoldStepRow], LeftBy(effect, run.kind, runStep'), AttemptsOf(stepFailures, runStep'),
         \A n \in allStepNames : runStep[n].state # "completed" /\ run.phase = "absent" => runStep'[n].state # "completed",
         driver' \in [Driver -> DriverRow],
         \A e \in Driver : driver'[e].pc # "idle" => driver[e].pc # "idle" /\ driver'[e].run = driver[e].run,
         \A e \in Driver : driver'[e].steps = driver[e].steps \/ driver'[e] = IdleDriver,
         approval' \in [RunApproval -> {"none", "pending", "approved", "rejected", "expired"}],
         resume' \in ResumeRow,
         scaffoldAsked' \in 0 .. MaxScaffoldRequests,
         UNCHANGED <<effect, driverCrashes, stepFailures>>,
         run'.phase = "completed" => run.phase = "completed" \/
            \A i \in DOMAIN stepOrderForKind(run.kind) : StepEffects(run.kind, stepOrderForKind(run.kind)[i]) \subseteq effect
  PROVE  ScaffoldInv'
<1>1. ScaffoldTypeOK'
  BY DEF ScaffoldInv, ScaffoldTypeOK
<1>2. RowsDone'
  BY DEF ScaffoldInv, RowsDone, LeftBy
<1>3. DriversDone'
  BY ScaffoldIdleTyped DEF ScaffoldInv, DriversDone, LeftBy
<1>4. stepFailures \in Nat
  BY ScaffoldBounds DEF ScaffoldInv, ScaffoldTypeOK
<1>5. AttemptsCounted'
  <2>1. IdleDriver.steps = FreshSteps
    BY DEF IdleDriver
  <2>2. AttemptsOf(stepFailures, IdleDriver.steps)
    BY <1>4, <2>1, ScaffoldIdleTyped DEF AttemptsOf
  <2>3. QED
    BY <2>2 DEF ScaffoldInv, AttemptsCounted, AttemptsOf
<1>6. CompletedRunIsDone'
  BY DEF ScaffoldInv, CompletedRunIsDone
<1>7. QED
  BY <1>1, <1>2, <1>3, <1>5, <1>6 DEF ScaffoldInv

-----------------------------------------------------------------------------
(* Scaffold: every action keeps the invariant *)

\* A driver that has nothing in memory.
LEMMA DriverRests ==
  ASSUME ScaffoldInv, NEW d \in Driver, driver' = [driver EXCEPT ![d] = IdleDriver]
  PROVE  /\ driver' \in [Driver -> DriverRow]
         /\ \A e \in Driver : driver'[e].pc # "idle" => driver[e].pc # "idle" /\ driver'[e].run = driver[e].run
         /\ \A e \in Driver : driver'[e].steps = driver[e].steps \/ driver'[e] = IdleDriver
BY DriverFacts, ScaffoldIdleTyped

LEMMA driveRunKeepsInv ==
  ASSUME ScaffoldInv, NEW d \in Driver, driveRun(d) PROVE ScaffoldInv'
<1> DEFINE pc == IF runStep["rendering"].state = "completed" THEN "gate" ELSE "step"
<1>1. PICK dr : dr = [IdleDriver EXCEPT !.run = run, !.steps = runStep, !.pc = pc]
  OBVIOUS
<1>2. driver' = [driver EXCEPT ![d] = dr] /\ run.phase # "absent"
      /\ UNCHANGED <<run, runStep, effect, approval, resume, scaffoldAsked, driverCrashes, stepFailures>>
  BY <1>1 DEF driveRun
<1>3. pc \in {"gate", "step"}
  OBVIOUS
<1> HIDE DEF pc
<1>4. IdleDriver \in DriverRow /\ run \in ScaffoldRunRow /\ runStep \in [allStepNames -> ScaffoldStepRow]
  BY ScaffoldIdleTyped DEF ScaffoldInv, ScaffoldTypeOK
<1>5. runStep \in [allStepNames -> DriverStepRow]
  BY <1>4 DEF ScaffoldStepRow, DriverStepRow
<1>6. dr \in DriverRow
  BY <1>1, <1>3, <1>4, <1>5 DEF DriverRow
<1>7. dr.run = run /\ dr.steps = runStep
  BY <1>1, <1>4 DEF DriverRow
<1>8. LeftBy(effect', run.kind, dr.steps) /\ AttemptsOf(stepFailures', dr.steps)
  BY <1>2, <1>7 DEF ScaffoldInv, RowsDone, AttemptsCounted
<1>9. stepFailures' \in 0 .. MaxStepFailures /\ stepFailures <= stepFailures' /\ driverCrashes' \in 0 .. MaxDriverCrashes
      /\ approval' \in [RunApproval -> {"none", "pending", "approved", "rejected", "expired"}]
      /\ effect \subseteq effect' /\ effect' \subseteq ScaffoldEffect
  BY <1>2, ScaffoldBounds DEF ScaffoldInv, ScaffoldTypeOK
<1>10. QED
  BY <1>2, <1>6, <1>7, <1>8, <1>9, DriverMoves

\* Counters and requests that a step of a driver leaves as they are.
LEMMA DriverRest ==
  ASSUME ScaffoldInv
  PROVE  /\ stepFailures \in 0 .. MaxStepFailures /\ stepFailures \in Nat /\ driverCrashes \in 0 .. MaxDriverCrashes
         /\ approval \in [RunApproval -> {"none", "pending", "approved", "rejected", "expired"}]
         /\ effect \subseteq ScaffoldEffect
         /\ resume \in ResumeRow
         /\ scaffoldAsked \in 0 .. MaxScaffoldRequests
         /\ runStep \in [allStepNames -> ScaffoldStepRow] /\ AttemptsOf(stepFailures, runStep)
         /\ LeftBy(effect, run.kind, runStep) /\ run \in ScaffoldRunRow
BY ScaffoldBounds DEF ScaffoldInv, ScaffoldTypeOK, AttemptsCounted, RowsDone

\* A settled step keeps what the copy of a driver says of the effects and of the attempts.
LEMMA SettledKeeps ==
  ASSUME NEW dr \in DriverRow, NEW n \in allStepNames, NEW row \in DriverStepRow, NEW kind, NEW eff, NEW eff2,
         NEW k \in Nat, NEW later \in Nat, k <= later, eff \subseteq eff2, LeftBy(eff, kind, dr.steps), AttemptsOf(k, dr.steps),
         row.state = "completed" => StepEffects(kind, n) \subseteq eff2, row.attempts <= later
  PROVE  LeftBy(eff2, kind, WithSettled(dr, n, row).steps) /\ AttemptsOf(later, WithSettled(dr, n, row).steps)
<1>1. \A m \in allStepNames : dr.steps[m].attempts \in Nat
  BY ScaffoldBounds DEF DriverRow, DriverStepRow
<1>2. AttemptsOf(later, WithSettled(dr, n, row).steps)
  <2>1. ASSUME NEW m \in allStepNames PROVE WithSettled(dr, n, row).steps[m].attempts <= later
    <3>1. CASE m = n
      BY <3>1, SettledStep
    <3>2. CASE m # n
      <4>1. WithSettled(dr, n, row).steps[m] = dr.steps[m]
        BY <3>2, SettledStep
      <4>2. dr.steps[m].attempts <= k
        BY DEF AttemptsOf
      <4>3. QED
        BY <4>1, <4>2, <1>1
    <3>3. QED
      BY <3>1, <3>2
  <2>2. QED
    BY <2>1 DEF AttemptsOf
<1>3. LeftBy(eff2, kind, WithSettled(dr, n, row).steps)
  BY SettledStep DEF LeftBy
<1>4. QED
  BY <1>2, <1>3

LEMMA StepCancelledKeepsInv ==
  ASSUME ScaffoldInv, NEW d \in Driver, StepCancelled(d) PROVE ScaffoldInv'
<1>1. PICK n \in allStepNames : n = NextTodo(d)
  BY NextStepOfRun DEF StepCancelled, Todo, NextTodo
<1>2. driver[d] \in DriverRow /\ driver[d].steps[n] \in DriverStepRow /\ driver[d].pc = "step"
  BY DriverFacts DEF StepCancelled
<1>3. PICK row : row = [driver[d].steps[n] EXCEPT !.state = "cancelled"]
  OBVIOUS
<1>4. row \in DriverStepRow /\ row.state = "cancelled" /\ row.attempts = driver[d].steps[n].attempts
  BY <1>2, <1>3 DEF DriverStepRow
<1>5. PICK dr : dr = WithSettled(driver[d], n, row)
  OBVIOUS
<1>6. driver' = [driver EXCEPT ![d] = dr]
      /\ UNCHANGED <<run, runStep, effect, approval, resume, scaffoldAsked, driverCrashes, stepFailures>>
  BY <1>1, <1>2, <1>3, <1>5, DriverFacts DEF StepCancelled
<1>7. dr \in DriverRow /\ dr.run = driver[d].run
  BY <1>2, <1>4, <1>5, SettledStep
<1>8. LeftBy(effect, run.kind, driver[d].steps) /\ AttemptsOf(stepFailures, driver[d].steps)
      /\ run.phase # "absent" /\ driver[d].run.kind = run.kind
  BY <1>2, DriverFacts
<1>9. LeftBy(effect, run.kind, dr.steps) /\ AttemptsOf(stepFailures, dr.steps)
  <2>1. row.attempts <= stepFailures /\ stepFailures \in Nat /\ stepFailures <= stepFailures
    BY <1>4, <1>8, DriverRest DEF AttemptsOf
  <2>2. row.state # "completed"
    BY <1>4
  <2>3. QED
    BY <1>2, <1>4, <1>5, <1>8, <2>1, <2>2, SettledKeeps
<1>10. stepFailures <= stepFailures
  BY DriverRest
<1>11. QED
  BY <1>6, <1>7, <1>8, <1>9, <1>10, DriverRest, DriverMoves

LEMMA StepFuncKeepsInv ==
  ASSUME ScaffoldInv, NEW d \in Driver, StepFunc(d) PROVE ScaffoldInv'
<1>1. PICK n \in allStepNames : n = NextTodo(d)
  BY NextStepOfRun DEF StepFunc, Todo, NextTodo
<1>2. driver[d] \in DriverRow /\ driver[d].steps[n] \in DriverStepRow /\ driver[d].pc = "step"
      /\ UNCHANGED <<run, runStep, approval, resume, scaffoldAsked, driverCrashes>>
  BY DriverFacts DEF StepFunc
<1>3. LeftBy(effect, run.kind, driver[d].steps) /\ AttemptsOf(stepFailures, driver[d].steps)
      /\ run.phase # "absent" /\ driver[d].run.kind = run.kind /\ run.kind \in {"component", "gitops-repo"}
  BY <1>2, DriverFacts DEF ScaffoldRunRow
<1>4. PICK fs : fs = stepFuncs(run.kind, n)
  OBVIOUS
<1>5. PICK old : old = driver[d].steps[n] /\ old \in DriverStepRow /\ old.attempts \in Nat /\ old.attempts <= stepFailures
  BY <1>2, <1>3, ScaffoldBounds DEF DriverStepRow, AttemptsOf
\* all effects
<1>6. CASE /\ effect' = effect \cup Effects(fs, Len(fs)) /\ UNCHANGED stepFailures
           /\ driver' = [driver EXCEPT ![d] = WithSettled(@, n, [@.steps[n] EXCEPT !.state = "completed"])]
  <2>1. PICK row : row = [old EXCEPT !.state = "completed"]
    OBVIOUS
  <2>2. row \in DriverStepRow /\ row.attempts = old.attempts
    BY <1>5, <2>1 DEF DriverStepRow
  <2>3. PICK dr : dr = WithSettled(driver[d], n, row)
    OBVIOUS
  <2>4. driver' = [driver EXCEPT ![d] = dr]
    BY <1>5, <1>6, <2>1, <2>3
  <2>5. dr \in DriverRow /\ dr.run = driver[d].run
    BY <1>2, <2>2, <2>3, SettledStep
  <2>6. Len(fs) \in Nat
    BY <1>4 DEF stepFuncs, allStepNames, stepRendering, stepCreatingRepo, stepCreatingPipeline,
         stepRegisteringCatalog, stepRegisteringRepo, stepAttachingRootApp, stepBindingRBAC
  <2>7. effect \subseteq effect' /\ StepEffects(run.kind, n) \subseteq effect' /\ effect' \subseteq ScaffoldEffect
    <3>1. Len(fs) \in 0 .. Len(fs)
      BY <2>6
    <3>2. Effects(fs, Len(fs)) \subseteq ScaffoldEffect
      BY <1>3, <1>4, <3>1, PartOfEffects
    <3>3. QED
      BY <1>4, <1>6, <3>2, DriverRest DEF StepEffects
  <2>8. PICK eff, eff2 : eff = effect /\ eff2 = effect'
    OBVIOUS
  <2>9. PICK kind : kind = run.kind
    OBVIOUS
  <2>10. PICK k \in Nat : k = stepFailures /\ k <= k
    BY DriverRest
  <2>11. LeftBy(eff2, kind, dr.steps) /\ AttemptsOf(k, dr.steps)
    BY <1>2, <1>3, <1>5, <2>2, <2>3, <2>7, <2>8, <2>9, <2>10, SettledKeeps
  <2>12. LeftBy(effect', run.kind, dr.steps) /\ AttemptsOf(stepFailures', dr.steps) /\ stepFailures <= stepFailures'
    BY <1>6, <2>8, <2>9, <2>10, <2>11
  <2>13. QED
    BY <1>2, <1>3, <1>6, <2>4, <2>5, <2>7, <2>12, DriverRest, DriverMoves
\* some effects, and a failure
<1>7. CASE /\ stepFailures < MaxStepFailures /\ stepFailures' = stepFailures + 1
           /\ \E l \in 0 .. Len(fs) : effect' = effect \cup Effects(fs, l)
           /\ driver' = [driver EXCEPT ![d] = WithSettled(@, n, [state |-> "failed", attempts |-> @.steps[n].attempts + 1])]
  <2>1. PICK l \in 0 .. Len(fs) : effect' = effect \cup Effects(fs, l)
    BY <1>7
  <2>2. PICK row : row = [state |-> "failed", attempts |-> old.attempts + 1]
    OBVIOUS
  <2>3. stepFailures' \in 0 .. MaxStepFailures /\ stepFailures <= stepFailures' /\ old.attempts + 1 <= stepFailures'
        /\ old.attempts + 1 \in 0 .. MaxStepFailures /\ stepFailures' \in Nat
    <3>1. stepFailures \in Nat /\ MaxStepFailures \in Nat
      BY DriverRest, ScaffoldBounds
    <3>2. PICK a \in Nat : a = old.attempts /\ a <= stepFailures
      BY <1>5
    <3>3. a + 1 \in 0 .. MaxStepFailures /\ a + 1 <= stepFailures + 1 /\ stepFailures + 1 \in 0 .. MaxStepFailures
      BY <1>7, <3>1, <3>2
    <3>4. QED
      BY <1>7, <3>1, <3>2, <3>3
  <2>4. row \in DriverStepRow /\ row.attempts <= stepFailures' /\ row.state # "completed"
    BY <2>2, <2>3 DEF DriverStepRow
  <2>5. PICK dr : dr = WithSettled(driver[d], n, row)
    OBVIOUS
  <2>6. driver' = [driver EXCEPT ![d] = dr]
    BY <1>5, <1>7, <2>2, <2>5
  <2>7. dr \in DriverRow /\ dr.run = driver[d].run
    BY <1>2, <2>4, <2>5, SettledStep
  <2>8. effect \subseteq effect' /\ effect' \subseteq ScaffoldEffect
    <3>1. Effects(fs, l) \subseteq ScaffoldEffect
      BY <1>3, <1>4, PartOfEffects
    <3>2. QED
      BY <2>1, <3>1, DriverRest
  <2>9. PICK eff, eff2 : eff = effect /\ eff2 = effect'
    OBVIOUS
  <2>10. PICK kind : kind = run.kind
    OBVIOUS
  <2>11. PICK k \in Nat, later \in Nat : k = stepFailures /\ later = stepFailures' /\ k <= later
    BY <2>3, DriverRest
  <2>12. LeftBy(eff2, kind, dr.steps) /\ AttemptsOf(later, dr.steps)
    BY <1>2, <1>3, <2>4, <2>5, <2>8, <2>9, <2>10, <2>11, SettledKeeps
  <2>13. LeftBy(effect', run.kind, dr.steps) /\ AttemptsOf(stepFailures', dr.steps)
    BY <2>9, <2>10, <2>11, <2>12
  <2>14. QED
    BY <1>2, <1>3, <2>3, <2>6, <2>7, <2>8, <2>13, DriverRest, DriverMoves
<1>8. QED
  BY <1>1, <1>3, <1>4, <1>6, <1>7 DEF StepFunc

LEMMA onUpdateKeepsInv ==
  ASSUME ScaffoldInv, NEW d \in Driver, onUpdate(d) PROVE ScaffoldInv'
<1>1. PICK n \in allStepNames, st \in DriverStepRow : n = driver[d].at /\ st = driver[d].steps[n]
  BY DriverFacts
<1>2. PICK row : row = IF st.state = "cancelled" THEN [st EXCEPT !.state = "failed"] ELSE st
  OBVIOUS
<1>3. PICK pc : pc = CASE st.state = "cancelled" -> "cancelled"
                       [] st.state = "completed" -> IF n = "rendering" THEN "gate" ELSE "step"
                       [] st.attempts > MaxAttempts -> "exhausted"
                       [] OTHER -> "idle"
  OBVIOUS
<1>4. /\ driver[d].pc = "persist" /\ runStep' = [runStep EXCEPT ![n] = row]
      /\ UpdateRunPhase(n, driver[d].run.hold) /\ driver' = [driver EXCEPT ![d].pc = pc]
      /\ UNCHANGED <<effect, approval, resume, scaffoldAsked, driverCrashes, stepFailures>>
  BY <1>1, <1>2, <1>3 DEF onUpdate
<1>5. pc \in {"step", "gate", "cancelled", "exhausted", "idle"}
  <2>1. CASE st.state = "cancelled"
    BY <1>3, <2>1
  <2>2. CASE st.state = "completed"
    BY <1>3, <2>2
  <2>3. CASE st.state # "cancelled" /\ st.state # "completed" /\ st.attempts > MaxAttempts
    BY <1>3, <2>3
  <2>4. CASE st.state # "cancelled" /\ st.state # "completed" /\ ~(st.attempts > MaxAttempts)
    BY <1>3, <2>4
  <2>5. QED
    BY <2>1, <2>2, <2>3, <2>4
<1>6. row \in ScaffoldStepRow /\ row.attempts = st.attempts /\ (row.state = "completed" => st.state = "completed")
  BY <1>2 DEF DriverStepRow, ScaffoldStepRow
<1>7. run' \in ScaffoldRunRow /\ run'.kind = run.kind /\ (run.phase = "absent" <=> run'.phase = "absent")
      /\ (run.phase # "absent" => run'.phase = n)
  <2>1. driver[d].run.hold \in RunApproval \cup {NoHold}
    BY DriverFacts DEF ScaffoldRunRow
  <2>2. n \in ScaffoldPhase \ {"absent"}
    BY DEF ScaffoldPhase, allStepNames
  <2>3. QED
    BY <1>4, <2>1, <2>2, PhaseWritten
<1>8. n # "completed"
  BY DEF allStepNames
<1>9. /\ run.phase # "absent" /\ LeftBy(effect, run.kind, driver[d].steps) /\ AttemptsOf(stepFailures, driver[d].steps)
      /\ LeftBy(effect, run.kind, runStep) /\ AttemptsOf(stepFailures, runStep)
      /\ runStep \in [allStepNames -> ScaffoldStepRow]
  BY <1>4, DriverFacts, DriverRest
<1>10. runStep' \in [allStepNames -> ScaffoldStepRow] /\ \A m \in allStepNames : runStep'[m] = IF m = n THEN row ELSE runStep[m]
  BY <1>4, <1>6, <1>9
<1>11. LeftBy(effect, run.kind, runStep') /\ AttemptsOf(stepFailures, runStep')
  BY <1>1, <1>6, <1>9, <1>10 DEF LeftBy, AttemptsOf
<1>12. /\ driver' \in [Driver -> DriverRow]
       /\ \A e \in Driver : driver'[e].pc # "idle" => driver[e].pc # "idle" /\ driver'[e].run = driver[e].run
       /\ \A e \in Driver : driver'[e].steps = driver[e].steps \/ driver'[e] = IdleDriver
  <2>1. driver \in [Driver -> DriverRow]
    BY DriverFacts
  <2>2. driver'[d] \in DriverRow /\ driver'[d].run = driver[d].run /\ driver'[d].steps = driver[d].steps
    BY <1>4, <1>5, <2>1 DEF DriverRow
  <2>3. \A e \in Driver \ {d} : driver'[e] = driver[e]
    BY <1>4, <2>1
  <2>4. driver' \in [Driver -> DriverRow]
    BY <1>4, <2>1, <2>2, <2>3
  <2>5. QED
    BY <1>4, <2>2, <2>3, <2>4
<1>13. QED
  BY <1>4, <1>7, <1>8, <1>9, <1>10, <1>11, <1>12, DriverRest, RowsWritten

LEMMA maybeGateKeepsInv ==
  ASSUME ScaffoldInv, NEW d \in Driver, maybeGate(d) PROVE ScaffoldInv'
<1>1. driver[d] \in DriverRow /\ driver[d].pc = "gate"
      /\ UNCHANGED <<run, runStep, effect, resume, scaffoldAsked, driverCrashes, stepFailures>>
  BY DriverFacts DEF maybeGate
<1>2. LeftBy(effect, run.kind, driver[d].steps) /\ AttemptsOf(stepFailures, driver[d].steps)
      /\ run.phase # "absent" /\ driver[d].run.kind = run.kind
  BY <1>1, DriverFacts
<1>3. \E dr \in DriverRow : /\ driver' = [driver EXCEPT ![d] = dr] /\ dr.run = driver[d].run /\ dr.steps = driver[d].steps
                            /\ approval' \in [RunApproval -> {"none", "pending", "approved", "rejected", "expired"}]
  <2>1. CASE driver' = [driver EXCEPT ![d].pc = "step"] /\ UNCHANGED approval
    <3>1. PICK dr : dr = [driver[d] EXCEPT !.pc = "step"]
      OBVIOUS
    <3>2. dr \in DriverRow /\ dr.run = driver[d].run /\ dr.steps = driver[d].steps
      BY <1>1, <3>1 DEF DriverRow
    <3>3. QED
      BY <2>1, <3>1, <3>2, DriverRest
  <2>2. CASE LET fresh == {a \in RunApproval : approval[a] = "none"}
                 a == CHOOSE x \in fresh : TRUE
             IN  /\ fresh # {} /\ approval' = [approval EXCEPT ![a] = "pending"]
                 /\ driver' = [driver EXCEPT ![d].pc = "park", ![d].request = a]
    <3>1. PICK a \in RunApproval : /\ approval' = [approval EXCEPT ![a] = "pending"]
                                   /\ driver' = [driver EXCEPT ![d].pc = "park", ![d].request = a]
      BY <2>2
    <3>2. PICK dr : dr = [driver[d] EXCEPT !.pc = "park", !.request = a]
      OBVIOUS
    <3>3. dr \in DriverRow /\ dr.run = driver[d].run /\ dr.steps = driver[d].steps
      BY <1>1, <3>2 DEF DriverRow
    <3>4. driver' = [driver EXCEPT ![d] = dr]
      BY <3>1, <3>2, DriverFacts
    <3>5. QED
      BY <3>1, <3>3, <3>4, DriverRest
  <2>3. QED
    BY <2>1, <2>2 DEF maybeGate
<1>4. PICK dr \in DriverRow : /\ driver' = [driver EXCEPT ![d] = dr] /\ dr.run = driver[d].run /\ dr.steps = driver[d].steps
                              /\ approval' \in [RunApproval -> {"none", "pending", "approved", "rejected", "expired"}]
  BY <1>3
<1>5. stepFailures <= stepFailures' /\ stepFailures' \in 0 .. MaxStepFailures
  BY <1>1, DriverRest
<1>6. LeftBy(effect', run.kind, dr.steps) /\ AttemptsOf(stepFailures', dr.steps) /\ dr.run.kind = run.kind
  BY <1>1, <1>2, <1>4
<1>7. QED
  BY <1>1, <1>2, <1>4, <1>5, <1>6, DriverRest, DriverMoves

LEMMA ParkKeepsInv ==
  ASSUME ScaffoldInv, NEW d \in Driver, ParkForApproval(d) PROVE ScaffoldInv'
<1>1. "pending_approval" \in ScaffoldPhase \ {"absent"} /\ driver[d].request \in RunApproval \cup {NoHold}
  BY DriverFacts DEF ScaffoldPhase, DriverRow
<1>2. run' \in ScaffoldRunRow /\ run'.kind = run.kind /\ (run.phase = "absent" <=> run'.phase = "absent")
      /\ run'.phase # "completed"
  BY <1>1, PhaseWritten, DriverFacts DEF ParkForApproval
<1>3. driver' = [driver EXCEPT ![d] = IdleDriver]
      /\ UNCHANGED <<runStep, effect, approval, resume, scaffoldAsked, driverCrashes, stepFailures>>
  BY DEF ParkForApproval
<1>4. QED
  BY <1>2, <1>3, DriverRests, DriverRest, RowsWritten

LEMMA finalizeKeepsInv ==
  ASSUME ScaffoldInv, NEW d \in Driver, finalize(d) PROVE ScaffoldInv'
<1>1. driver' = [driver EXCEPT ![d] = IdleDriver] /\ driver[d].pc # "idle"
      /\ UNCHANGED <<runStep, effect, approval, resume, scaffoldAsked, driverCrashes, stepFailures>>
  BY DEF finalize
<1>2. driver[d].run.hold \in RunApproval \cup {NoHold}
  BY DriverFacts DEF ScaffoldRunRow
<1>3. "failed" \in ScaffoldPhase \ {"absent"} /\ "completed" \in ScaffoldPhase \ {"absent"}
  BY DEF ScaffoldPhase, ScaffoldTerminal
<1>4. run' \in ScaffoldRunRow /\ run'.kind = run.kind /\ (run.phase = "absent" <=> run'.phase = "absent")
      /\ (run'.phase = "completed" =>
            \A i \in DOMAIN stepOrderForKind(run.kind) : StepEffects(run.kind, stepOrderForKind(run.kind)[i]) \subseteq effect)
  <2>1. CASE UpdateRunPhase("failed", driver[d].run.hold)
    BY <1>1, <1>2, <1>3, <2>1, PhaseWritten, DriverFacts
  <2>2. CASE driver[d].pc = "step" /\ Todo(d) = {} /\ UpdateRunPhase("completed", driver[d].run.hold)
    <3>1. \A i \in DOMAIN stepOrderForKind(run.kind) : driver[d].steps[stepOrderForKind(run.kind)[i]].state = "completed"
      <4>1. PICK r, steps : r = driver[d].run /\ steps = driver[d].steps
        OBVIOUS
      <4>2. Remaining(r, steps) = {} /\ r.kind = run.kind
        BY <1>1, <2>2, <4>1, DriverFacts DEF Todo
      <4>3. \A i \in DOMAIN stepOrderForKind(r.kind) : steps[stepOrderForKind(r.kind)[i]].state = "completed"
        BY <4>2, NoneRemains
      <4>4. QED
        BY <4>1, <4>2, <4>3
    <3>2. \A i \in DOMAIN stepOrderForKind(run.kind) : stepOrderForKind(run.kind)[i] \in allStepNames
      BY OrderOfSteps
    <3>3. LeftBy(effect, run.kind, driver[d].steps)
      BY <1>1, DriverFacts
    <3>4. \A i \in DOMAIN stepOrderForKind(run.kind) : StepEffects(run.kind, stepOrderForKind(run.kind)[i]) \subseteq effect
      BY <3>1, <3>2, <3>3 DEF LeftBy
    <3>5. run' \in ScaffoldRunRow /\ run'.kind = run.kind /\ (run.phase = "absent" <=> run'.phase = "absent")
      BY <1>2, <1>3, <2>2, PhaseWritten
    <3>6. QED
      BY <3>4, <3>5
  <2>3. QED
    BY <2>1, <2>2 DEF finalize
<1>5. QED
  BY <1>1, <1>4, DriverRests, DriverRest, RowsWritten

LEMMA DriverCrashKeepsInv ==
  ASSUME ScaffoldInv, NEW d \in Driver, DriverCrash(d) PROVE ScaffoldInv'
<1>1. driver' = [driver EXCEPT ![d] = IdleDriver] /\ driverCrashes' \in 0 .. MaxDriverCrashes
      /\ UNCHANGED <<run, runStep, effect, approval, resume, scaffoldAsked, stepFailures>>
  BY DriverRest, ScaffoldBounds DEF DriverCrash
<1>2. IdleDriver \in DriverRow /\ IdleDriver.pc = "idle" /\ AttemptsOf(stepFailures, IdleDriver.steps)
  BY ScaffoldIdleTyped, DriverRest DEF AttemptsOf, IdleDriver
<1>3. stepFailures <= stepFailures' /\ AttemptsOf(stepFailures', IdleDriver.steps)
  BY <1>1, <1>2, DriverRest
<1>4. QED
  BY <1>1, <1>2, <1>3, DriverRest, DriverMoves

-----------------------------------------------------------------------------
(* Scaffold: the rows *)

LEMMA reapExpiredKeepsInv ==
  ASSUME ScaffoldInv, reapExpired PROVE ScaffoldInv'
<1>1. /\ \A d \in Driver : driver[d].pc = "idle"
      /\ run' = NoRun /\ runStep' = FreshSteps /\ effect' = {} /\ resume' = HandlerIdle({})
      /\ approval' = [a \in RunApproval |-> "none"]
      /\ UNCHANGED <<driver, scaffoldAsked, driverCrashes, stepFailures>>
  BY DEF reapExpired
<1>2. ScaffoldTypeOK'
  BY <1>1, ScaffoldIdleTyped, ResumeIdleTyped DEF ScaffoldInv, ScaffoldTypeOK
<1>3. RowsDone' /\ DriversDone'
  BY <1>1, ScaffoldIdleTyped DEF RowsDone, DriversDone, LeftBy
<1>4. AttemptsCounted'
  BY <1>1, ScaffoldIdleTyped, DriverRest DEF ScaffoldInv, AttemptsCounted, AttemptsOf
<1>5. CompletedRunIsDone'
  BY <1>1 DEF CompletedRunIsDone, NoRun
<1>6. QED
  BY <1>2, <1>3, <1>4, <1>5 DEF ScaffoldInv

LEMMA DecideRunKeepsInv ==
  ASSUME ScaffoldInv, DecideRun PROVE ScaffoldInv'
<1>1. approval' \in [RunApproval -> {"none", "pending", "approved", "rejected", "expired"}]
      /\ UNCHANGED <<run, runStep, effect, driver, resume, scaffoldAsked, driverCrashes, stepFailures>>
  BY DriverRest DEF DecideRun
<1>2. QED
  BY <1>1 DEF ScaffoldInv, ScaffoldTypeOK, RowsDone, DriversDone, LeftBy, AttemptsCounted, AttemptsOf, CompletedRunIsDone

LEMMA HandleRunDecidedKeepsInv ==
  ASSUME ScaffoldInv, NEW a \in RunApproval, HandleRunDecided(a) PROVE ScaffoldInv'
<1>0. resume \in ResumeRow /\ run.hold \in RunApproval \cup {NoHold}
      /\ UNCHANGED <<run, runStep, effect, approval, driver, scaffoldAsked, driverCrashes, stepFailures>>
  BY DriverRest DEF HandleRunDecided, ScaffoldRunRow
<1>1. resume' \in ResumeRow
  <2>1. CASE resume' = [resume EXCEPT !.pc = approval[a], !.request = a, !.hold = run.hold] /\ approval[a] \in {"approved", "rejected"}
    BY <2>1, <1>0 DEF ResumeRow
  <2>2. CASE resume' = [resume EXCEPT !.done = @ \cup {a}]
    BY <2>2, <1>0 DEF ResumeRow
  <2>3. QED
    BY <2>1, <2>2 DEF HandleRunDecided
<1>2. QED
  BY <1>0, <1>1 DEF ScaffoldInv, ScaffoldTypeOK, RowsDone, DriversDone, LeftBy, AttemptsCounted, AttemptsOf, CompletedRunIsDone

LEMMA ResumeFailsKeepsInv ==
  ASSUME ScaffoldInv, ResumeFails PROVE ScaffoldInv'
<1>1. resume' \in ResumeRow /\ driverCrashes' \in 0 .. MaxDriverCrashes
      /\ UNCHANGED <<run, runStep, effect, approval, driver, scaffoldAsked, stepFailures>>
  BY DriverRest, ScaffoldBounds, ResumeIdleTyped DEF ResumeFails, ResumeRow
<1>2. QED
  BY <1>1 DEF ScaffoldInv, ScaffoldTypeOK, RowsDone, DriversDone, LeftBy, AttemptsCounted, AttemptsOf, CompletedRunIsDone

\* The drivers stay as they are while somebody else writes the rows.
LEMMA DriversStay ==
  ASSUME ScaffoldInv, driver' = driver
  PROVE  /\ driver' \in [Driver -> DriverRow]
         /\ \A e \in Driver : driver'[e].pc # "idle" => driver[e].pc # "idle" /\ driver'[e].run = driver[e].run
         /\ \A e \in Driver : driver'[e].steps = driver[e].steps \/ driver'[e] = IdleDriver
BY DEF ScaffoldInv, ScaffoldTypeOK

LEMMA ResumeRunKeepsInv ==
  ASSUME ScaffoldInv, ResumeRun PROVE ScaffoldInv'
<1>1. resume' \in ResumeRow
      /\ UNCHANGED <<runStep, effect, approval, driver, scaffoldAsked, driverCrashes, stepFailures>>
  <2>1. resume.done \in SUBSET (RunApproval \cup {NoHold}) /\ resume.done \cup {resume.request} \in SUBSET (RunApproval \cup {NoHold})
    BY DriverRest DEF ResumeRow
  <2>2. QED
    BY <2>1, ResumeIdleTyped DEF ResumeRun
<1>2. PICK phase : phase = nextPhaseForRun(run, runStep, "creating-repo")
  OBVIOUS
<1>3. phase \in allStepNames
  BY <1>2, NextPhase DEF allStepNames
<1>4. phase \in ScaffoldPhase \ {"absent"} /\ phase # "completed" /\ "failed" \in ScaffoldPhase \ {"absent"}
  BY <1>3 DEF ScaffoldPhase, ScaffoldTerminal, allStepNames
<1>5. run.hold \in RunApproval \cup {NoHold} /\ resume.hold \in RunApproval \cup {NoHold} /\ run \in ScaffoldRunRow
  BY DriverRest DEF ScaffoldRunRow, ResumeRow
<1>6. run' \in ScaffoldRunRow /\ run'.kind = run.kind /\ (run.phase = "absent" <=> run'.phase = "absent")
      /\ run'.phase # "completed"
  <2>1. CASE UpdateRunPhase(phase, run.hold)
    BY <2>1, <1>4, <1>5, PhaseWritten
  <2>2. CASE UpdateRunPhase("failed", resume.hold)
    BY <2>2, <1>4, <1>5, PhaseWritten
  <2>3. QED
    BY <2>1, <2>2, <1>2 DEF ResumeRun
<1>7. QED
  BY <1>1, <1>6, DriversStay, DriverRest, RowsWritten

LEMMA ScaffoldAskedBound ==
  ASSUME ScaffoldInv, NEW u, authorizeScaffold(u) PROVE scaffoldAsked' \in 0 .. MaxScaffoldRequests
BY DriverRest, ScaffoldBounds DEF authorizeScaffold

LEMMA CreateRunKeepsInv ==
  ASSUME ScaffoldInv, CreateRun, scaffoldAsked' \in 0 .. MaxScaffoldRequests PROVE ScaffoldInv'
<1>1. PICK kind \in ScaffoldKind : run' = [NoRun EXCEPT !.phase = "pending", !.kind = kind]
  BY DEF CreateRun
<1>2. UNCHANGED <<runStep, effect, approval, driver, resume, driverCrashes, stepFailures>> /\ run.phase = "absent"
  BY DEF CreateRun
<1>3. run' \in ScaffoldRunRow /\ run'.phase = "pending"
  BY <1>1, ScaffoldIdleTyped, ScaffoldBounds DEF ScaffoldRunRow, ScaffoldPhase
<1>4. ScaffoldTypeOK'
  BY <1>2, <1>3 DEF ScaffoldInv, ScaffoldTypeOK
<1>5. RowsDone'
  BY <1>2, <1>3 DEF ScaffoldInv, RowsDone, LeftBy
<1>6. DriversDone'
  BY <1>2 DEF ScaffoldInv, DriversDone
<1>7. AttemptsCounted'
  BY <1>2 DEF ScaffoldInv, AttemptsCounted, AttemptsOf
<1>8. CompletedRunIsDone'
  BY <1>3 DEF CompletedRunIsDone
<1>9. QED
  BY <1>4, <1>5, <1>6, <1>7, <1>8 DEF ScaffoldInv

LEMMA CancelRunKeepsInv ==
  ASSUME ScaffoldInv, CancelRun, scaffoldAsked' \in 0 .. MaxScaffoldRequests PROVE ScaffoldInv'
<1>1. UNCHANGED <<runStep, effect, approval, driver, resume, driverCrashes, stepFailures>>
      /\ run' = [run EXCEPT !.cancelled = TRUE]
  BY DEF CancelRun, SetCancelled
<1>2. run' \in ScaffoldRunRow /\ run'.kind = run.kind /\ run'.phase = run.phase
  BY <1>1, DriverRest DEF ScaffoldRunRow
<1>3. QED
  BY <1>1, <1>2, DriversStay, DriverRest, RowsWritten

LEMMA RetryRunKeepsInv ==
  ASSUME ScaffoldInv, RetryRun, scaffoldAsked' \in 0 .. MaxScaffoldRequests PROVE ScaffoldInv'
<1>1. PICK phase : phase = nextPhaseForRun(run, runStep, "pending")
  OBVIOUS
<1>2. phase \in ScaffoldPhase \ {"absent", "completed"}
  BY <1>1, NextPhase DEF ScaffoldPhase, allStepNames
<1>3. /\ UNCHANGED <<effect, approval, driver, resume, driverCrashes, stepFailures>> /\ run.phase = "failed"
      /\ run' = [run EXCEPT !.phase = phase, !.cancelled = FALSE, !.hold = NoHold]
      /\ runStep' = [n \in allStepNames |-> IF runStep[n].state = "completed" THEN runStep[n]
                                            ELSE [state |-> "pending", attempts |-> 0]]
  BY <1>1 DEF RetryRun, ResetForRetry
<1>4. run' \in ScaffoldRunRow /\ run'.kind = run.kind /\ run'.phase = phase
  BY <1>2, <1>3, DriverRest DEF ScaffoldRunRow
<1>5. [state |-> "pending", attempts |-> 0] \in ScaffoldStepRow
  BY ScaffoldBounds DEF ScaffoldStepRow
<1>6. runStep' \in [allStepNames -> ScaffoldStepRow]
  BY <1>3, <1>5, DriverRest
<1>7. \A n \in allStepNames : /\ (runStep'[n].state = "completed" => runStep[n].state = "completed")
                              /\ (runStep'[n].attempts = runStep[n].attempts \/ runStep'[n].attempts = 0)
  BY <1>3
<1>8. LeftBy(effect, run.kind, runStep') /\ AttemptsOf(stepFailures, runStep')
  BY <1>7, DriverRest DEF LeftBy, AttemptsOf
<1>9. run.phase # "absent" /\ run'.phase # "absent" /\ run'.phase # "completed"
  BY <1>2, <1>3, <1>4
<1>10. QED
  BY <1>3, <1>4, <1>6, <1>8, <1>9, DriversStay, DriverRest, RowsWritten

LEMMA ScaffoldInvStep == ASSUME ScaffoldInv, [ScaffoldNext]_scaffoldVars PROVE ScaffoldInv'
<1>1. CASE ScaffoldRoutes
  BY <1>1, CreateRunKeepsInv, CancelRunKeepsInv, RetryRunKeepsInv, ScaffoldAskedBound
     DEF ScaffoldRoutes, httpCreateRun, httpCreateScaffold, httpCancelRun, httpRetryRun
<1>2. CASE \E d \in Driver : DriverStep(d) \/ DriverCrash(d)
  BY <1>2, driveRunKeepsInv, StepCancelledKeepsInv, StepFuncKeepsInv, onUpdateKeepsInv, maybeGateKeepsInv,
     ParkKeepsInv, finalizeKeepsInv, DriverCrashKeepsInv DEF DriverStep
<1>3. CASE reapExpired \/ DecideRun \/ ResumeStep \/ ResumeFails
  BY <1>3, reapExpiredKeepsInv, DecideRunKeepsInv, ResumeRunKeepsInv, HandleRunDecidedKeepsInv, ResumeFailsKeepsInv DEF ResumeStep
<1>4. CASE UNCHANGED scaffoldVars
  BY <1>4 DEF scaffoldVars, ScaffoldInv, ScaffoldTypeOK, RowsDone, DriversDone, LeftBy, AttemptsCounted, AttemptsOf,
     CompletedRunIsDone
<1>5. QED
  BY <1>1, <1>2, <1>3, <1>4 DEF ScaffoldNext

LEMMA ScaffoldInvGate == ASSUME ScaffoldInv PROVE ScaffoldTypeOK /\ CompletedRunIsDone
BY DEF ScaffoldInv

-----------------------------------------------------------------------------
(* TenantSetup: the inductive invariant *)

Between == {"tx", "undo"}
HasRow == {"groups", "base", "kubectl", "join", "record"}
HasBase(s) == baseResourceSpecs(s) \subseteq baseRows
HasGroups(s) == \A t \in DefaultTeam : <<s, t>> \in kcGroups
HasJoined(s) == \A t \in JoinedTeam \cup {"org"} : <<s, t>> \in kcJoins
\* Between Keycloak and the rows an organization has one process of its own, and no row yet.
OrgsOwned ==
    /\ orgRows \subseteq kcOrgs
    /\ \A p \in SetupProcess : setup[p].pc \in Between => setup[p].slug \in kcOrgs \ orgRows
    /\ \A p, q \in SetupProcess :
          setup[p].pc \in Between /\ setup[q].pc \in Between /\ setup[p].slug = setup[q].slug => p = q
    /\ \A s \in kcOrgs \ (orgRows \cup orphaned) : \E p \in SetupProcess : setup[p].pc \in Between /\ setup[p].slug = s
\* What a process has behind it is there.
Behind(pc, s) ==
    /\ pc \in HasRow => s \in orgRows
    /\ pc \in {"base", "kubectl", "join", "record"} => HasGroups(s)
    /\ pc \in {"kubectl", "join", "record"} => HasBase(s)
    /\ pc \in {"join", "record"} => s \in kubectl
    /\ pc = "record" => HasJoined(s)
ProgressOK == \A p \in SetupProcess : Behind(setup[p].pc, setup[p].slug)
SucceededOK == \A s \in succeeded : Behind("record", s) /\ s \in memberRows
BackfillOK == \A r \in Server :
    /\ boot[r] = "backfill" => \A s \in found[r] \ toBackfill[r] : HasBase(s)
    /\ boot[r] = "up" => \A s \in found[r] : HasBase(s)
SetupInv == SetupTypeOK /\ OrgsOwned /\ ProgressOK /\ SucceededOK /\ BackfillOK

SetupRow == [slug : TenantSlug, pc : {"idle", "kc", "tx", "undo", "groups", "base", "kubectl", "join", "record"}]
LEMMA SetupBounds ==
  PlatformOrgSlug \in TenantSlug /\ JoinedTeam \subseteq DefaultTeam /\ MaxSetupRequests \in Nat /\ MaxSetupFaults \in Nat
  /\ IdleSetup \in SetupRow /\ IdleSetup.pc = "idle" /\ Server \subseteq SetupProcess /\ SetupCall \subseteq SetupProcess
BY SetupAssumption DEF IdleSetup, SetupRow, SetupProcess

LEMMA SetupInvInit == ASSUME SetupInit PROVE SetupInv
<1>1. SetupTypeOK
  <2>1. setup \in [SetupProcess -> SetupRow]
    BY SetupBounds DEF SetupInit
  <2>2. /\ boot \in [Server -> {"down", "seed", "list", "backfill", "up"}]
        /\ toBackfill \in [Server -> SUBSET TenantSlug] /\ found \in [Server -> SUBSET TenantSlug]
    BY DEF SetupInit
  <2>3. adminGroup \subseteq PlatformUser /\ syncRead \in {{"none"}}
    BY DEF SetupInit
  <2>4. setupAsked \in 0 .. MaxSetupRequests /\ setupFaults \in 0 .. MaxSetupFaults
    BY SetupBounds DEF SetupInit
  <2>5. QED
    BY <2>1, <2>2, <2>3, <2>4 DEF SetupInit, SetupTypeOK, SetupRow
<1>2. OrgsOwned
  BY SetupBounds DEF SetupInit, OrgsOwned, Between
<1>3. ProgressOK
  BY SetupBounds DEF SetupInit, ProgressOK, Behind, HasRow
<1>4. SucceededOK /\ BackfillOK
  BY DEF SetupInit, SucceededOK, BackfillOK
<1>5. QED
  BY <1>1, <1>2, <1>3, <1>4 DEF SetupInv

-----------------------------------------------------------------------------
(* TenantSetup: what the parts of the invariant are about *)

\* Nothing that a tenant has is taken away, but an organization without a row.
SetupGrows ==
    /\ orgRows \subseteq orgRows' /\ kcGroups \subseteq kcGroups' /\ kcJoins \subseteq kcJoins'
    /\ baseRows \subseteq baseRows' /\ kubectl \subseteq kubectl' /\ memberRows \subseteq memberRows'

LEMMA BehindGrows ==
  ASSUME SetupGrows, NEW pc, NEW s, Behind(pc, s) PROVE Behind(pc, s)'
BY DEF SetupGrows, Behind, HasGroups, HasBase, HasJoined, baseResourceSpecs

LEMMA ProgressOfOne ==
  ASSUME SetupInv, SetupGrows, NEW p \in SetupProcess, NEW pc, NEW s,
         \A q \in SetupProcess \ {p} : setup'[q] = setup[q], setup'[p].pc = pc, setup'[p].slug = s, Behind(pc, s)'
  PROVE  ProgressOK'
<1>1. ASSUME NEW q \in SetupProcess PROVE Behind(setup[q].pc, setup[q].slug)'
  <2>1. CASE q = p
    BY <2>1 DEF Behind, HasGroups, HasBase, HasJoined
  <2>2. CASE q # p
    <3>1. PICK pc2, s2 : pc2 = setup[q].pc /\ s2 = setup[q].slug
      OBVIOUS
    <3>2. Behind(pc2, s2)
      BY <3>1 DEF SetupInv, ProgressOK
    <3>3. Behind(pc2, s2)'
      BY <3>2, BehindGrows
    <3>4. setup'[q].pc = pc2 /\ setup'[q].slug = s2
      BY <2>2, <3>1
    <3>5. QED
      BY <3>3, <3>4 DEF Behind, HasGroups, HasBase, HasJoined
  <2>3. QED
    BY <2>1, <2>2
<1>2. QED
  BY <1>1 DEF ProgressOK

LEMMA SucceededGrows ==
  ASSUME SetupInv, SetupGrows, UNCHANGED succeeded PROVE SucceededOK'
BY BehindGrows DEF SetupInv, SucceededOK, SetupGrows

LEMMA BackfillGrows ==
  ASSUME SetupInv, SetupGrows, UNCHANGED <<toBackfill, found>>,
         \A r \in Server : boot'[r] = boot[r] \/ boot'[r] \in {"down", "list", "seed"}
  PROVE  BackfillOK'
BY DEF SetupInv, SetupGrows, BackfillOK, HasBase

\* A process that is not between Keycloak and the rows, before and after, owns no organization.
LEMMA OwnersStay ==
  ASSUME SetupInv, UNCHANGED <<kcOrgs, orgRows>>, NEW p \in SetupProcess, orphaned \subseteq orphaned',
         \A q \in SetupProcess \ {p} : setup'[q] = setup[q], setup'[p].pc \notin Between,
         setup[p].pc \notin Between \/ setup[p].slug \in orphaned'
  PROVE  OrgsOwned'
BY DEF SetupInv, OrgsOwned

\* Moving on within a tenant, and giving up or ending.
LEMMA SetupGotoFacts ==
  ASSUME SetupTypeOK, NEW p \in SetupProcess, NEW pc \in {"tx", "undo", "groups", "base", "kubectl", "join", "record"},
         SetupGoto(p, pc)
  PROVE  /\ setup' \in [SetupProcess -> SetupRow] /\ setup'[p].pc = pc /\ setup'[p].slug = setup[p].slug
         /\ \A q \in SetupProcess \ {p} : setup'[q] = setup[q]
BY DEF SetupTypeOK, SetupGoto, SetupRow

LEMMA SetupEndsFacts ==
  ASSUME SetupTypeOK, NEW p \in SetupProcess, SetupEnds(p)
  PROVE  /\ setup' \in [SetupProcess -> SetupRow] /\ setup'[p] = IdleSetup
         /\ \A q \in SetupProcess \ {p} : setup'[q] = setup[q]
BY SetupBounds DEF SetupTypeOK, SetupEnds, SetupRow

LEMMA EndsAsFacts ==
  ASSUME SetupTypeOK, NEW p \in SetupProcess, NEW pc \in {"down", "list"}, EndsAs(p, pc)
  PROVE  /\ setup' \in [SetupProcess -> SetupRow] /\ setup'[p] = IdleSetup
         /\ \A q \in SetupProcess \ {p} : setup'[q] = setup[q]
         /\ boot' \in [Server -> {"down", "seed", "list", "backfill", "up"}] /\ UNCHANGED <<toBackfill, found>>
         /\ \A r \in Server : boot'[r] = boot[r] \/ boot'[r] \in {"down", "list", "seed"}
<1>1. SetupEnds(p)
  BY DEF EndsAs
<1>2. /\ boot' \in [Server -> {"down", "seed", "list", "backfill", "up"}] /\ UNCHANGED <<toBackfill, found>>
      /\ \A r \in Server : boot'[r] = boot[r] \/ boot'[r] \in {"down", "list", "seed"}
  <2>1. CASE p \in Server
    BY <2>1 DEF EndsAs, SetupTypeOK
  <2>2. CASE p \notin Server
    BY <2>2 DEF EndsAs, SetupTypeOK, bootSame, bootVars
  <2>3. QED
    BY <2>1, <2>2
<1>3. QED
  BY <1>1, <1>2, SetupEndsFacts

LEMMA BootSameFacts ==
  ASSUME SetupTypeOK, bootSame
  PROVE  /\ boot' \in [Server -> {"down", "seed", "list", "backfill", "up"}] /\ UNCHANGED <<toBackfill, found>>
         /\ \A r \in Server : boot'[r] = boot[r] \/ boot'[r] \in {"down", "list", "seed"}
BY DEF SetupTypeOK, bootSame, bootVars

\* A process stops, having done nothing, or being given up as orphaned.
LEMMA ProcessEnds ==
  ASSUME SetupInv, NEW p \in SetupProcess, UNCHANGED tenantVars, UNCHANGED adminVars,
         setup' \in [SetupProcess -> SetupRow], setup'[p] = IdleSetup,
         \A q \in SetupProcess \ {p} : setup'[q] = setup[q],
         boot' \in [Server -> {"down", "seed", "list", "backfill", "up"}], UNCHANGED <<toBackfill, found>>,
         \A r \in Server : boot'[r] = boot[r] \/ boot'[r] \in {"down", "list", "seed"},
         UNCHANGED <<succeeded, setupAsked>>, orphaned \subseteq orphaned', orphaned' \subseteq TenantSlug,
         setupFaults' \in 0 .. MaxSetupFaults,
         setup[p].pc \notin Between \/ setup[p].slug \in orphaned'
  PROVE  SetupInv'
<1>1. SetupTypeOK'
  BY DEF SetupInv, SetupTypeOK, tenantVars, adminVars, SetupRow
<1>2. SetupGrows
  BY DEF tenantVars, SetupGrows
<1>3. setup'[p].pc = "idle" /\ setup'[p].pc \notin Between
  BY SetupBounds DEF Between
<1>4. OrgsOwned'
  BY <1>3, OwnersStay DEF tenantVars
<1>5. ProgressOK'
  <2>1. PICK s : s = setup'[p].slug
    OBVIOUS
  <2>2. Behind("idle", s)'
    BY DEF Behind, HasRow
  <2>3. QED
    BY <1>2, <1>3, <2>1, <2>2, ProgressOfOne
<1>6. QED
  BY <1>1, <1>2, <1>4, <1>5, SucceededGrows, BackfillGrows DEF SetupInv

-----------------------------------------------------------------------------
(* TenantSetup: the creation of a tenant *)

LEMMA CreatesOrganizationKeepsInv ==
  ASSUME SetupInv, NEW p \in SetupProcess, CreatesOrganization(p) PROVE SetupInv'
<1>0. SetupTypeOK /\ setup[p].pc = "kc" /\ setup[p].slug \in TenantSlug
      /\ UNCHANGED <<kcGroups, kcJoins, orgRows, baseRows, kubectl, memberRows>> /\ UNCHANGED adminVars
      /\ UNCHANGED <<succeeded, orphaned, setupAsked, setupFaults>>
  BY DEF SetupInv, SetupTypeOK, CreatesOrganization, adminsSame, setupGhostSame
<1>1. CASE CreateOrganization(setup[p].slug) /\ SetupGoto(p, "tx") /\ bootSame
  <2>1. PICK s \in TenantSlug : s = setup[p].slug
    BY <1>0
  <2>2. s \notin kcOrgs /\ kcOrgs' = kcOrgs \cup {s}
    BY <1>1, <2>1 DEF CreateOrganization
  <2>3. /\ setup' \in [SetupProcess -> SetupRow] /\ setup'[p].pc = "tx" /\ setup'[p].slug = s
        /\ \A q \in SetupProcess \ {p} : setup'[q] = setup[q]
    BY <1>0, <1>1, <2>1, SetupGotoFacts
  <2>4. SetupTypeOK'
    BY <1>0, <1>1, <2>2, <2>3, BootSameFacts DEF SetupTypeOK, adminVars, SetupRow
  <2>5. SetupGrows
    BY <1>0 DEF SetupGrows
  <2>6. OrgsOwned'
    <3>1. orgRows' \subseteq kcOrgs' /\ s \notin orgRows
      BY <1>0, <2>2 DEF SetupInv, OrgsOwned
    <3>2. \A q \in SetupProcess : setup'[q].pc \in Between => setup'[q].slug \in kcOrgs' \ orgRows'
      BY <1>0, <2>2, <2>3, <3>1 DEF SetupInv, OrgsOwned
    <3>3. \A q \in SetupProcess \ {p} : setup'[q].pc \in Between => setup'[q].slug # s
      BY <2>2, <2>3 DEF SetupInv, OrgsOwned
    <3>4. \A q, other \in SetupProcess :
            setup'[q].pc \in Between /\ setup'[other].pc \in Between /\ setup'[q].slug = setup'[other].slug => q = other
      BY <2>3, <3>3 DEF SetupInv, OrgsOwned
    <3>5. \A o \in kcOrgs' \ (orgRows' \cup orphaned') : \E q \in SetupProcess : setup'[q].pc \in Between /\ setup'[q].slug = o
      BY <1>0, <2>2, <2>3 DEF SetupInv, OrgsOwned, Between
    <3>6. QED
      BY <3>1, <3>2, <3>4, <3>5 DEF OrgsOwned, Between
  <2>7. Behind("tx", s)'
    BY DEF Behind, HasRow
  <2>8. QED
    BY <1>0, <1>1, <2>3, <2>4, <2>5, <2>6, <2>7, ProgressOfOne, SucceededGrows, BackfillGrows, BootSameFacts DEF SetupInv
<1>2. CASE setup[p].slug \in kcOrgs /\ EndsAs(p, "down") /\ UNCHANGED kcOrgs
  BY <1>0, <1>2, EndsAsFacts, ProcessEnds DEF SetupInv, SetupTypeOK, tenantVars, Between
<1>3. QED
  BY <1>1, <1>2 DEF CreatesOrganization

\* An organization between Keycloak and the rows has no row: ErrSlugTaken is out of reach.
LEMMA TenantTxKeepsInv ==
  ASSUME SetupInv, NEW p \in SetupProcess, TenantTx(p) PROVE SetupInv'
<1>0. SetupTypeOK /\ setup[p].pc = "tx" /\ setup[p].slug \in TenantSlug
      /\ UNCHANGED <<kcOrgs, kcGroups, kcJoins, baseRows, kubectl, memberRows>> /\ UNCHANGED adminVars
      /\ UNCHANGED <<succeeded, orphaned, setupAsked, setupFaults>>
  BY DEF SetupInv, SetupTypeOK, TenantTx, adminsSame, setupGhostSame
<1>1. PICK s \in TenantSlug : s = setup[p].slug
  BY <1>0
<1>2. s \in kcOrgs \ orgRows
  BY <1>0, <1>1 DEF SetupInv, OrgsOwned, Between
<1>3. orgRows' = orgRows \cup {s} /\ SetupGoto(p, "groups") /\ bootSame
  BY <1>1, <1>2 DEF TenantTx, CreateOrgRow
<1>4. /\ setup' \in [SetupProcess -> SetupRow] /\ setup'[p].pc = "groups" /\ setup'[p].slug = s
      /\ \A q \in SetupProcess \ {p} : setup'[q] = setup[q]
  BY <1>0, <1>1, <1>3, SetupGotoFacts
<1>5. SetupTypeOK'
  BY <1>0, <1>3, <1>4, BootSameFacts DEF SetupTypeOK, adminVars, SetupRow
<1>6. SetupGrows
  BY <1>0, <1>3 DEF SetupGrows
<1>7. OrgsOwned'
  <2>1. orgRows' \subseteq kcOrgs'
    BY <1>0, <1>2, <1>3 DEF SetupInv, OrgsOwned
  <2>2. setup'[p].pc \notin Between
    BY <1>4 DEF Between
  <2>3. setup[p].pc \in Between
    BY <1>0 DEF Between
  <2>4. \A q \in SetupProcess : setup'[q].pc \in Between => setup'[q].slug \in kcOrgs' \ orgRows'
    BY <1>0, <1>1, <1>3, <1>4, <2>2, <2>3 DEF SetupInv, OrgsOwned
  <2>5. \A q, other \in SetupProcess :
            setup'[q].pc \in Between /\ setup'[other].pc \in Between /\ setup'[q].slug = setup'[other].slug => q = other
    BY <1>4, <2>2 DEF SetupInv, OrgsOwned
  <2>6. \A o \in kcOrgs' \ (orgRows' \cup orphaned') : \E q \in SetupProcess : setup'[q].pc \in Between /\ setup'[q].slug = o
    BY <1>0, <1>1, <1>3, <1>4 DEF SetupInv, OrgsOwned
  <2>7. QED
    BY <2>1, <2>4, <2>5, <2>6 DEF OrgsOwned
<1>8. Behind("groups", s)'
  BY <1>3 DEF Behind
<1>9. QED
  BY <1>0, <1>3, <1>4, <1>5, <1>6, <1>7, <1>8, ProgressOfOne, SucceededGrows, BackfillGrows, BootSameFacts DEF SetupInv

LEMMA TenantTxFailsKeepsInv ==
  ASSUME SetupInv, NEW p \in SetupProcess, TenantTxFails(p) PROVE SetupInv'
<1>0. SetupTypeOK /\ setup[p].pc = "tx" /\ setup[p].slug \in TenantSlug
      /\ UNCHANGED tenantVars /\ UNCHANGED adminVars /\ bootSame /\ SetupGoto(p, "undo")
      /\ UNCHANGED <<succeeded, orphaned, setupAsked>> /\ setupFaults' \in 0 .. MaxSetupFaults
  BY SetupBounds DEF SetupInv, SetupTypeOK, TenantTxFails, adminsSame, SetupFault
<1>1. PICK s \in TenantSlug : s = setup[p].slug
  BY <1>0
<1>2. /\ setup' \in [SetupProcess -> SetupRow] /\ setup'[p].pc = "undo" /\ setup'[p].slug = s
      /\ \A q \in SetupProcess \ {p} : setup'[q] = setup[q]
  BY <1>0, <1>1, SetupGotoFacts
<1>3. SetupTypeOK'
  BY <1>0, <1>2, BootSameFacts DEF SetupTypeOK, adminVars, SetupRow, tenantVars
<1>4. SetupGrows
  BY <1>0 DEF SetupGrows, tenantVars
<1>5. OrgsOwned'
  <2>1. \A q \in SetupProcess : /\ (setup'[q].pc \in Between <=> setup[q].pc \in Between)
                                /\ setup'[q].slug = setup[q].slug
    BY <1>0, <1>1, <1>2 DEF Between
  <2>2. QED
    BY <1>0, <2>1 DEF SetupInv, OrgsOwned, tenantVars
<1>6. Behind("undo", s)'
  BY DEF Behind, HasRow
<1>7. QED
  BY <1>0, <1>2, <1>3, <1>4, <1>5, <1>6, ProgressOfOne, SucceededGrows, BackfillGrows, BootSameFacts DEF SetupInv

LEMMA UndoTenantKeepsInv ==
  ASSUME SetupInv, NEW p \in SetupProcess, UndoTenant(p) PROVE SetupInv'
<1>0. SetupTypeOK /\ setup[p].pc = "undo" /\ setup[p].slug \in TenantSlug /\ EndsAs(p, "down")
      /\ UNCHANGED <<kcGroups, kcJoins, orgRows, baseRows, kubectl, memberRows>> /\ UNCHANGED adminVars
      /\ UNCHANGED <<succeeded, orphaned, setupAsked, setupFaults>>
  BY DEF SetupInv, SetupTypeOK, UndoTenant, adminsSame, setupGhostSame
<1>1. PICK s \in TenantSlug : s = setup[p].slug
  BY <1>0
<1>2. kcOrgs' = kcOrgs \ {s}
  BY <1>1 DEF UndoTenant, DeleteOrganization
<1>3. /\ setup' \in [SetupProcess -> SetupRow] /\ setup'[p].pc = "idle"
      /\ \A q \in SetupProcess \ {p} : setup'[q] = setup[q]
      /\ boot' \in [Server -> {"down", "seed", "list", "backfill", "up"}] /\ UNCHANGED <<toBackfill, found>>
      /\ \A r \in Server : boot'[r] = boot[r] \/ boot'[r] \in {"down", "list", "seed"}
  BY <1>0, EndsAsFacts, SetupBounds
<1>4. SetupTypeOK'
  BY <1>0, <1>2, <1>3 DEF SetupTypeOK, adminVars, SetupRow
<1>5. SetupGrows
  BY <1>0 DEF SetupGrows
<1>6. OrgsOwned'
  <2>1. setup[p].pc \in Between /\ setup'[p].pc \notin Between /\ s \in kcOrgs \ orgRows
    BY <1>0, <1>1, <1>3 DEF Between, SetupInv, OrgsOwned
  <2>2. \A q \in SetupProcess \ {p} : setup[q].pc \in Between => setup[q].slug # s
    BY <1>1, <2>1 DEF SetupInv, OrgsOwned
  <2>3. orgRows' \subseteq kcOrgs'
    BY <1>0, <1>2, <2>1 DEF SetupInv, OrgsOwned
  <2>4. \A q \in SetupProcess : setup'[q].pc \in Between => setup'[q].slug \in kcOrgs' \ orgRows'
    BY <1>0, <1>2, <1>3, <2>1, <2>2 DEF SetupInv, OrgsOwned
  <2>5. \A q, other \in SetupProcess :
            setup'[q].pc \in Between /\ setup'[other].pc \in Between /\ setup'[q].slug = setup'[other].slug => q = other
    BY <1>3, <2>1 DEF SetupInv, OrgsOwned
  <2>6. \A o \in kcOrgs' \ (orgRows' \cup orphaned') : \E q \in SetupProcess : setup'[q].pc \in Between /\ setup'[q].slug = o
    BY <1>0, <1>1, <1>2, <1>3, <2>1 DEF SetupInv, OrgsOwned
  <2>7. QED
    BY <2>3, <2>4, <2>5, <2>6 DEF OrgsOwned
<1>7. PICK s2 : s2 = setup'[p].slug
  OBVIOUS
<1>8. Behind("idle", s2)'
  BY DEF Behind, HasRow
<1>9. QED
  BY <1>0, <1>3, <1>4, <1>5, <1>6, <1>7, <1>8, ProgressOfOne, SucceededGrows, BackfillGrows DEF SetupInv

\* A step of a tenant that has its row: the rest only grows.
LEMMA TenantGrows ==
  ASSUME SetupInv, SetupTypeOK', SetupGrows, UNCHANGED <<kcOrgs, orgRows, orphaned, toBackfill, found>>,
         NEW p \in SetupProcess, setup[p].pc \in HasRow, NEW pc, pc \notin Between, setup'[p].pc = pc,
         NEW s, setup'[p].slug = s, \A q \in SetupProcess \ {p} : setup'[q] = setup[q], Behind(pc, s)',
         \A r \in Server : boot'[r] = boot[r] \/ boot'[r] \in {"down", "list", "seed"},
         SucceededOK'
  PROVE  SetupInv'
<1>1. setup[p].pc \notin Between /\ setup'[p].pc \notin Between
  BY DEF HasRow, Between
<1>2. OrgsOwned'
  BY <1>1, OwnersStay
<1>3. QED
  BY <1>2, ProgressOfOne, BackfillGrows DEF SetupInv

LEMMA EnsureGroupsKeepsInv ==
  ASSUME SetupInv, NEW p \in SetupProcess, EnsureGroups(p) PROVE SetupInv'
<1>0. SetupTypeOK /\ setup[p].pc = "groups" /\ setup[p].slug \in TenantSlug /\ setup[p].pc \in HasRow
      /\ UNCHANGED <<kcOrgs, kcJoins, orgRows, baseRows, kubectl, memberRows>> /\ UNCHANGED adminVars
      /\ UNCHANGED <<succeeded, orphaned, setupAsked, setupFaults>>
  BY DEF SetupInv, SetupTypeOK, EnsureGroups, adminsSame, setupGhostSame, HasRow
<1>1. PICK s \in TenantSlug : s = setup[p].slug
  BY <1>0
<1>2. PICK t \in DefaultTeam : kcGroups' = kcGroups \cup {<<s, t>>}
  BY <1>1 DEF EnsureGroups
<1>3. SetupGrows
  BY <1>0, <1>2 DEF SetupGrows
<1>4. Behind("groups", s)
  BY <1>0, <1>1 DEF SetupInv, ProgressOK
<1>5. Behind("groups", s)' /\ SucceededOK'
  BY <1>0, <1>3, <1>4, BehindGrows, SucceededGrows
<1>6. CASE UNCHANGED setup /\ bootSame
  <2>1. SetupTypeOK'
    BY <1>0, <1>2, <1>6, BootSameFacts DEF SetupTypeOK, adminVars
  <2>2. QED
    BY <1>0, <1>1, <1>3, <1>5, <1>6, <2>1, TenantGrows, BootSameFacts DEF Between
<1>7. CASE p \in Server /\ EndsAs(p, "list")
  <2>1. /\ setup' \in [SetupProcess -> SetupRow] /\ setup'[p] = IdleSetup
        /\ \A q \in SetupProcess \ {p} : setup'[q] = setup[q]
        /\ boot' \in [Server -> {"down", "seed", "list", "backfill", "up"}] /\ UNCHANGED <<toBackfill, found>>
        /\ \A r \in Server : boot'[r] = boot[r] \/ boot'[r] \in {"down", "list", "seed"}
    BY <1>0, <1>7, EndsAsFacts
  <2>2. SetupTypeOK'
    BY <1>0, <1>2, <2>1 DEF SetupTypeOK, adminVars, SetupRow
  <2>3. PICK s2 : s2 = setup'[p].slug
    OBVIOUS
  <2>4. Behind("idle", s2)' /\ setup'[p].pc = "idle" /\ "idle" \notin Between
    BY <2>1, SetupBounds DEF Behind, HasRow, Between
  <2>5. QED
    BY <1>0, <1>3, <1>5, <2>1, <2>2, <2>3, <2>4, TenantGrows
<1>8. CASE {u \in DefaultTeam : <<s, u>> \notin kcGroups'} = {} /\ SetupGoto(p, "base") /\ bootSame
  <2>1. /\ setup' \in [SetupProcess -> SetupRow] /\ setup'[p].pc = "base" /\ setup'[p].slug = s
        /\ \A q \in SetupProcess \ {p} : setup'[q] = setup[q]
    BY <1>0, <1>1, <1>8, SetupGotoFacts
  <2>2. SetupTypeOK'
    BY <1>0, <1>2, <1>8, <2>1, BootSameFacts DEF SetupTypeOK, adminVars, SetupRow
  <2>3. Behind("base", s)'
    BY <1>0, <1>5, <1>8 DEF Behind, HasGroups, HasRow
  <2>4. QED
    BY <1>0, <1>3, <1>5, <1>8, <2>1, <2>2, <2>3, TenantGrows, BootSameFacts DEF Between
<1>9. QED
  BY <1>1, <1>6, <1>7, <1>8 DEF EnsureGroups

LEMMA EnsureBaseFacts ==
  ASSUME SetupInv, NEW s \in TenantSlug, EnsureBaseResources(s)
  PROVE  baseRows \subseteq baseRows' /\ baseRows' \subseteq TenantSlug \X BaseKind
BY DEF SetupInv, SetupTypeOK, EnsureBaseResources, baseResourceSpecs

LEMMA EnsuresBaseKeepsInv ==
  ASSUME SetupInv, NEW p \in SetupProcess, EnsuresBase(p) PROVE SetupInv'
<1>0. SetupTypeOK /\ setup[p].pc = "base" /\ setup[p].slug \in TenantSlug /\ setup[p].pc \in HasRow
      /\ UNCHANGED <<kcOrgs, kcGroups, kcJoins, orgRows, kubectl, memberRows>> /\ UNCHANGED adminVars /\ bootSame
      /\ UNCHANGED <<succeeded, orphaned, setupAsked, setupFaults>>
  BY DEF SetupInv, SetupTypeOK, EnsuresBase, adminsSame, setupGhostSame, HasRow
<1>1. PICK s \in TenantSlug : s = setup[p].slug
  BY <1>0
<1>2. baseRows \subseteq baseRows' /\ baseRows' \subseteq TenantSlug \X BaseKind
  BY <1>1, EnsureBaseFacts DEF EnsuresBase
<1>3. SetupGrows
  BY <1>0, <1>2 DEF SetupGrows
<1>4. Behind("base", s)
  BY <1>0, <1>1 DEF SetupInv, ProgressOK
<1>5. Behind("base", s)' /\ SucceededOK'
  BY <1>0, <1>3, <1>4, BehindGrows, SucceededGrows
<1>6. CASE UNCHANGED setup
  <2>1. SetupTypeOK'
    BY <1>0, <1>2, <1>6, BootSameFacts DEF SetupTypeOK, adminVars
  <2>2. QED
    BY <1>0, <1>1, <1>3, <1>5, <1>6, <2>1, TenantGrows, BootSameFacts DEF Between
<1>7. CASE baseResourceSpecs(s) \subseteq baseRows' /\ SetupGoto(p, "kubectl")
  <2>1. /\ setup' \in [SetupProcess -> SetupRow] /\ setup'[p].pc = "kubectl" /\ setup'[p].slug = s
        /\ \A q \in SetupProcess \ {p} : setup'[q] = setup[q]
    BY <1>0, <1>1, <1>7, SetupGotoFacts
  <2>2. SetupTypeOK'
    BY <1>0, <1>2, <2>1, BootSameFacts DEF SetupTypeOK, adminVars, SetupRow
  <2>3. Behind("kubectl", s)'
    BY <1>5, <1>7 DEF Behind, HasBase, HasRow
  <2>4. QED
    BY <1>0, <1>3, <1>5, <2>1, <2>2, <2>3, TenantGrows, BootSameFacts DEF Between
<1>8. QED
  BY <1>1, <1>6, <1>7 DEF EnsuresBase

LEMMA EnsuresKubectlKeepsInv ==
  ASSUME SetupInv, NEW p \in SetupProcess, EnsuresKubectlClient(p) PROVE SetupInv'
<1>0. SetupTypeOK /\ setup[p].pc = "kubectl" /\ setup[p].slug \in TenantSlug /\ setup[p].pc \in HasRow
      /\ UNCHANGED <<kcOrgs, kcGroups, kcJoins, orgRows, baseRows, memberRows>> /\ UNCHANGED adminVars /\ bootSame
      /\ UNCHANGED <<succeeded, orphaned, setupAsked, setupFaults>> /\ SetupGoto(p, "join")
  BY DEF SetupInv, SetupTypeOK, EnsuresKubectlClient, adminsSame, setupGhostSame, HasRow
<1>1. PICK s \in TenantSlug : s = setup[p].slug
  BY <1>0
<1>2. kubectl' = kubectl \cup {s}
  BY <1>1 DEF EnsuresKubectlClient
<1>3. SetupGrows
  BY <1>0, <1>2 DEF SetupGrows
<1>4. Behind("kubectl", s)
  BY <1>0, <1>1 DEF SetupInv, ProgressOK
<1>5. Behind("kubectl", s)' /\ SucceededOK'
  BY <1>0, <1>3, <1>4, BehindGrows, SucceededGrows
<1>6. /\ setup' \in [SetupProcess -> SetupRow] /\ setup'[p].pc = "join" /\ setup'[p].slug = s
      /\ \A q \in SetupProcess \ {p} : setup'[q] = setup[q]
  BY <1>0, <1>1, SetupGotoFacts
<1>7. SetupTypeOK'
  BY <1>0, <1>2, <1>6, BootSameFacts DEF SetupTypeOK, adminVars, SetupRow
<1>8. Behind("join", s)'
  BY <1>2, <1>5 DEF Behind, HasRow
<1>9. QED
  BY <1>0, <1>3, <1>5, <1>6, <1>7, <1>8, TenantGrows, BootSameFacts DEF Between

LEMMA CreatorJoinsKeepsInv ==
  ASSUME SetupInv, NEW p \in SetupProcess, CreatorJoins(p) PROVE SetupInv'
<1>0. SetupTypeOK /\ setup[p].pc = "join" /\ setup[p].slug \in TenantSlug /\ setup[p].pc \in HasRow
      /\ UNCHANGED <<kcOrgs, kcGroups, orgRows, baseRows, kubectl, memberRows>> /\ UNCHANGED adminVars /\ bootSame
      /\ UNCHANGED <<succeeded, orphaned, setupAsked, setupFaults>>
  BY DEF SetupInv, SetupTypeOK, CreatorJoins, adminsSame, setupGhostSame, HasRow
<1>1. PICK s \in TenantSlug : s = setup[p].slug
  BY <1>0
<1>2. /\ \E t \in DefaultTeam \cup {"org"} : kcJoins' = kcJoins \cup {<<s, t>>}
      /\ <<s, "org">> \in kcJoins'
  BY <1>1, SetupBounds DEF CreatorJoins
<1>3. SetupGrows
  BY <1>0, <1>2 DEF SetupGrows
<1>4. Behind("join", s)
  BY <1>0, <1>1 DEF SetupInv, ProgressOK
<1>5. Behind("join", s)' /\ SucceededOK'
  BY <1>0, <1>3, <1>4, BehindGrows, SucceededGrows
<1>6. CASE UNCHANGED setup
  <2>1. SetupTypeOK'
    BY <1>0, <1>2, <1>6, BootSameFacts DEF SetupTypeOK, adminVars
  <2>2. QED
    BY <1>0, <1>1, <1>3, <1>5, <1>6, <2>1, TenantGrows, BootSameFacts DEF Between
<1>7. CASE {t \in JoinedTeam : <<s, t>> \notin kcJoins'} = {} /\ SetupGoto(p, "record")
  <2>1. /\ setup' \in [SetupProcess -> SetupRow] /\ setup'[p].pc = "record" /\ setup'[p].slug = s
        /\ \A q \in SetupProcess \ {p} : setup'[q] = setup[q]
    BY <1>0, <1>1, <1>7, SetupGotoFacts
  <2>2. SetupTypeOK'
    BY <1>0, <1>2, <2>1, BootSameFacts DEF SetupTypeOK, adminVars, SetupRow
  <2>3. Behind("record", s)'
    <3>1. HasJoined(s)'
      BY <1>2, <1>7 DEF HasJoined
    <3>2. QED
      BY <1>5, <3>1 DEF Behind, HasRow
  <2>4. QED
    BY <1>0, <1>3, <1>5, <2>1, <2>2, <2>3, TenantGrows, BootSameFacts DEF Between
<1>8. QED
  BY <1>1, <1>6, <1>7 DEF CreatorJoins

LEMMA CreatorTxKeepsInv ==
  ASSUME SetupInv, NEW p \in SetupProcess, CreatorTx(p) PROVE SetupInv'
<1>0. SetupTypeOK /\ setup[p].pc = "record" /\ setup[p].slug \in TenantSlug /\ setup[p].pc \in HasRow
      /\ UNCHANGED <<kcOrgs, kcGroups, kcJoins, orgRows, baseRows, kubectl>> /\ UNCHANGED adminVars /\ bootSame
      /\ UNCHANGED <<orphaned, setupAsked, setupFaults>> /\ SetupEnds(p)
  BY DEF SetupInv, SetupTypeOK, CreatorTx, adminsSame, HasRow
<1>1. PICK s \in TenantSlug : s = setup[p].slug
  BY <1>0
<1>2. memberRows' = memberRows \cup {s} /\ succeeded' = succeeded \cup {s}
  BY <1>1 DEF CreatorTx
<1>3. SetupGrows
  BY <1>0, <1>2 DEF SetupGrows
<1>4. Behind("record", s)
  BY <1>0, <1>1 DEF SetupInv, ProgressOK
<1>5. Behind("record", s)'
  BY <1>3, <1>4, BehindGrows
<1>6. SucceededOK'
  BY <1>2, <1>3, <1>5, BehindGrows DEF SetupInv, SucceededOK
<1>7. /\ setup' \in [SetupProcess -> SetupRow] /\ setup'[p] = IdleSetup /\ setup'[p].pc = "idle"
      /\ \A q \in SetupProcess \ {p} : setup'[q] = setup[q]
  BY <1>0, SetupEndsFacts, SetupBounds
<1>8. SetupTypeOK'
  BY <1>0, <1>2, <1>7, BootSameFacts DEF SetupTypeOK, adminVars, SetupRow
<1>9. PICK s2 : s2 = setup'[p].slug
  OBVIOUS
<1>10. Behind("idle", s2)' /\ "idle" \notin Between
  BY DEF Behind, HasRow, Between
<1>11. QED
  BY <1>0, <1>3, <1>6, <1>7, <1>8, <1>9, <1>10, TenantGrows, BootSameFacts

LEMMA SetupFailsKeepsInv ==
  ASSUME SetupInv, NEW p \in SetupProcess, SetupFails(p) PROVE SetupInv'
<1>0. SetupTypeOK /\ setup[p].slug \in TenantSlug /\ EndsAs(p, "down")
      /\ UNCHANGED tenantVars /\ UNCHANGED adminVars /\ UNCHANGED <<succeeded, setupAsked>>
      /\ setupFaults' \in 0 .. MaxSetupFaults
      /\ orphaned' = IF setup[p].pc \in {"tx", "undo"} THEN orphaned \cup {setup[p].slug} ELSE orphaned
  BY SetupBounds DEF SetupInv, SetupTypeOK, SetupFails, adminsSame, SetupFault
<1>1. orphaned \subseteq orphaned' /\ orphaned' \subseteq TenantSlug
      /\ (setup[p].pc \notin Between \/ setup[p].slug \in orphaned')
  BY <1>0 DEF SetupTypeOK, Between
<1>2. QED
  BY <1>0, <1>1, EndsAsFacts, ProcessEnds

\* A request or a seed begins.
LEMMA ProcessBegins ==
  ASSUME SetupInv, NEW p \in SetupProcess, setup[p] = IdleSetup, NEW s \in TenantSlug,
         setup' = [setup EXCEPT ![p] = [slug |-> s, pc |-> "kc"]],
         UNCHANGED tenantVars, UNCHANGED adminVars, bootSame, UNCHANGED <<succeeded, orphaned, setupFaults>>,
         setupAsked' \in 0 .. MaxSetupRequests
  PROVE  SetupInv'
<1>0. SetupTypeOK
  BY DEF SetupInv
<1>1. /\ setup' \in [SetupProcess -> SetupRow] /\ setup'[p].pc = "kc" /\ setup'[p].slug = s
      /\ \A q \in SetupProcess \ {p} : setup'[q] = setup[q]
  BY <1>0 DEF SetupTypeOK, SetupRow
<1>2. SetupTypeOK'
  BY <1>0, <1>1, BootSameFacts DEF SetupTypeOK, adminVars, SetupRow, tenantVars
<1>3. SetupGrows /\ UNCHANGED <<kcOrgs, orgRows>>
  BY DEF SetupGrows, tenantVars
<1>4. setup[p].pc \notin Between /\ setup'[p].pc \notin Between
  BY <1>1, SetupBounds DEF Between
<1>5. OrgsOwned'
  BY <1>1, <1>3, <1>4, OwnersStay
<1>6. Behind("kc", s)'
  BY DEF Behind, HasRow
<1>7. QED
  BY <1>0, <1>1, <1>2, <1>3, <1>5, <1>6, ProgressOfOne, SucceededGrows, BackfillGrows, BootSameFacts DEF SetupInv

LEMMA createTenantKeepsInv ==
  ASSUME SetupInv, NEW u \in PlatformUser, NEW c \in SetupCall, createTenant(u, c) PROVE SetupInv'
<1>1. PICK s \in TenantSlug : CreateTenant(c, s)
  BY DEF createTenant
<1>2. c \in SetupProcess /\ setupAsked' \in 0 .. MaxSetupRequests
  BY SetupBounds DEF SetupInv, SetupTypeOK, createTenant
<1>3. QED
  BY <1>1, <1>2, ProcessBegins DEF createTenant, CreateTenant, adminsSame

-----------------------------------------------------------------------------
(* TenantSetup: the start-up of a server *)

\* Only the boot variables change: the others keep what they say.
LEMMA BootMoves ==
  ASSUME SetupInv, SetupTypeOK', SetupGrows, UNCHANGED <<kcOrgs, orgRows, setup, succeeded, orphaned>>, BackfillOK'
  PROVE  SetupInv'
<1>1. OrgsOwned'
  BY DEF SetupInv, OrgsOwned
<1>2. ProgressOK'
  <2>1. ASSUME NEW q \in SetupProcess PROVE Behind(setup[q].pc, setup[q].slug)'
    <3>1. PICK pc, s : pc = setup[q].pc /\ s = setup[q].slug
      OBVIOUS
    <3>2. Behind(pc, s)'
      BY <3>1, BehindGrows DEF SetupInv, ProgressOK
    <3>3. QED
      BY <3>1, <3>2 DEF Behind, HasGroups, HasBase, HasJoined
  <2>2. QED
    BY <2>1 DEF ProgressOK
<1>3. QED
  BY <1>1, <1>2, SucceededGrows DEF SetupInv

LEMMA BootStepKeepsInv ==
  ASSUME SetupInv, NEW r \in Server, BootStep(r) PROVE SetupInv'
<1>0. SetupTypeOK /\ r \in SetupProcess
  BY SetupBounds DEF SetupInv
<1>1. CASE Boots(r)
  <2>1. boot' = [boot EXCEPT ![r] = "seed"] /\ found' = [found EXCEPT ![r] = {}] /\ UNCHANGED <<toBackfill, setup>>
        /\ UNCHANGED tenantVars /\ UNCHANGED adminVars /\ UNCHANGED <<succeeded, orphaned, setupAsked, setupFaults>>
    BY <1>1 DEF Boots, adminsSame, setupGhostSame
  <2>2. SetupTypeOK'
    BY <1>0, <2>1 DEF SetupTypeOK, tenantVars, adminVars
  <2>3. SetupGrows
    BY <2>1 DEF SetupGrows, tenantVars
  <2>4. BackfillOK'
    BY <1>0, <2>1 DEF SetupInv, SetupTypeOK, BackfillOK, HasBase, tenantVars
  <2>5. QED
    BY <2>1, <2>2, <2>3, <2>4, BootMoves DEF tenantVars
<1>2. CASE SeedPlatformOrg(r)
  <2>1. setup[r] = IdleSetup /\ UNCHANGED tenantVars /\ UNCHANGED adminVars
        /\ UNCHANGED <<succeeded, orphaned, setupAsked, setupFaults>>
    BY <1>2 DEF SeedPlatformOrg, adminsSame, setupGhostSame
  <2>2. setup[r].pc \notin Between /\ setupFaults \in 0 .. MaxSetupFaults /\ setupAsked \in 0 .. MaxSetupRequests
        /\ orphaned \subseteq TenantSlug
    BY <1>0, <2>1, SetupBounds DEF Between, SetupTypeOK
  <2>3. CASE EndsAs(r, "list")
    BY <1>0, <2>1, <2>2, <2>3, EndsAsFacts, ProcessEnds
  <2>4. CASE bootSame /\ setup' = [setup EXCEPT ![r] = [slug |-> PlatformOrgSlug, pc |-> "kc"]]
    BY <1>0, <2>1, <2>2, <2>4, ProcessBegins, SetupBounds
  <2>5. QED
    BY <1>2, <2>3, <2>4 DEF SeedPlatformOrg
<1>3. CASE ListTenants(r)
  <2>1. toBackfill' = [toBackfill EXCEPT ![r] = orgRows] /\ found' = [found EXCEPT ![r] = orgRows]
        /\ boot' = [boot EXCEPT ![r] = "backfill"] /\ UNCHANGED setup
        /\ UNCHANGED tenantVars /\ UNCHANGED adminVars /\ UNCHANGED <<succeeded, orphaned, setupAsked, setupFaults>>
    BY <1>3 DEF ListTenants, adminsSame, setupGhostSame
  <2>2. SetupTypeOK'
    BY <1>0, <2>1 DEF SetupTypeOK, tenantVars, adminVars
  <2>3. SetupGrows
    BY <2>1 DEF SetupGrows, tenantVars
  <2>4. BackfillOK'
    BY <1>0, <2>1 DEF SetupInv, SetupTypeOK, BackfillOK, HasBase, tenantVars
  <2>5. QED
    BY <2>1, <2>2, <2>3, <2>4, BootMoves DEF tenantVars
<1>4. CASE Backfill(r)
  <2>0. boot[r] = "backfill" /\ UNCHANGED <<kcOrgs, kcGroups, kcJoins, orgRows, kubectl, memberRows, setup, found>>
        /\ UNCHANGED adminVars /\ UNCHANGED <<succeeded, orphaned, setupAsked, setupFaults>>
    BY <1>4 DEF Backfill, adminsSame, setupGhostSame
  <2>1. CASE toBackfill[r] = {} /\ boot' = [boot EXCEPT ![r] = "up"] /\ UNCHANGED <<baseRows, toBackfill>>
    <3>1. SetupTypeOK'
      BY <1>0, <2>0, <2>1 DEF SetupTypeOK, adminVars
    <3>2. SetupGrows
      BY <2>0, <2>1 DEF SetupGrows
    <3>3. BackfillOK'
      BY <1>0, <2>0, <2>1 DEF SetupInv, SetupTypeOK, BackfillOK, HasBase
    <3>4. QED
      BY <2>0, <3>1, <3>2, <3>3, BootMoves
  <2>2. ASSUME NEW s \in toBackfill[r], EnsureBaseResources(s), UNCHANGED boot,
               toBackfill' = [toBackfill EXCEPT ![r] = {t \in @ : ~(baseResourceSpecs(t) \subseteq baseRows')}]
        PROVE  SetupInv'
    <3>1. baseRows \subseteq baseRows' /\ baseRows' \subseteq TenantSlug \X BaseKind
      BY <1>0, <2>2, EnsureBaseFacts DEF SetupTypeOK
    <3>2. toBackfill'[r] = {t \in toBackfill[r] : ~(baseResourceSpecs(t) \subseteq baseRows')}
          /\ \A q \in Server \ {r} : toBackfill'[q] = toBackfill[q]
      BY <1>0, <2>2 DEF SetupTypeOK
    <3>3. toBackfill' \in [Server -> SUBSET TenantSlug]
      <4>1. {t \in toBackfill[r] : ~(baseResourceSpecs(t) \subseteq baseRows')} \in SUBSET TenantSlug
        BY <1>0 DEF SetupTypeOK
      <4>2. QED
        BY <1>0, <2>2, <4>1 DEF SetupTypeOK
    <3>4. SetupTypeOK'
      BY <1>0, <2>0, <2>2, <3>1, <3>3 DEF SetupTypeOK, adminVars
    <3>5. SetupGrows
      BY <2>0, <3>1 DEF SetupGrows
    <3>6. \A q \in Server : boot[q] = "backfill" => \A t \in found[q] \ toBackfill'[q] : baseResourceSpecs(t) \subseteq baseRows'
      BY <3>1, <3>2 DEF SetupInv, BackfillOK, HasBase
    <3>7. BackfillOK'
      BY <2>0, <2>2, <3>1, <3>6 DEF SetupInv, BackfillOK, HasBase, baseResourceSpecs
    <3>8. QED
      BY <2>0, <3>4, <3>5, <3>7, BootMoves
  <2>3. QED
    BY <1>4, <2>1, <2>2 DEF Backfill
<1>5. QED
  BY <1>1, <1>2, <1>3, <1>4 DEF BootStep

LEMMA BackfillFailsKeepsInv ==
  ASSUME SetupInv, NEW r \in Server, BackfillFails(r) PROVE SetupInv'
<1>0. SetupTypeOK /\ UNCHANGED <<boot, setup>> /\ UNCHANGED tenantVars /\ UNCHANGED adminVars
      /\ UNCHANGED <<succeeded, orphaned, setupAsked>> /\ setupFaults' \in 0 .. MaxSetupFaults /\ boot[r] = "backfill"
  BY SetupBounds DEF SetupInv, SetupTypeOK, BackfillFails, adminsSame, SetupFault
<1>1. PICK s \in toBackfill[r] : toBackfill' = [toBackfill EXCEPT ![r] = @ \ {s}] /\ found' = [found EXCEPT ![r] = @ \ {s}]
  BY DEF BackfillFails
<1>2. SetupTypeOK'
  BY <1>0, <1>1 DEF SetupTypeOK, tenantVars, adminVars
<1>3. SetupGrows
  BY <1>0 DEF SetupGrows, tenantVars
<1>4. BackfillOK'
  BY <1>0, <1>1 DEF SetupInv, SetupTypeOK, BackfillOK, HasBase, tenantVars
<1>5. QED
  BY <1>0, <1>2, <1>3, <1>4, BootMoves DEF tenantVars

-----------------------------------------------------------------------------
(* TenantSetup: the administrators, and every step *)

LEMMA AdminsKeepInv ==
  ASSUME SetupInv, adminsOnly, setupAsked' \in 0 .. MaxSetupRequests, adminGroup' \subseteq PlatformUser,
         orgCreator' \subseteq PlatformUser, syncRead' \in (SUBSET PlatformUser) \cup {{"none"}}
  PROVE  SetupInv'
<1>1. SetupTypeOK'
  BY DEF SetupInv, SetupTypeOK, adminsOnly, tenantVars, bootVars
<1>2. SetupGrows /\ UNCHANGED <<kcOrgs, orgRows, setup, succeeded, orphaned>>
  BY DEF adminsOnly, tenantVars, SetupGrows
<1>3. BackfillOK'
  BY <1>2 DEF SetupInv, BackfillOK, HasBase, adminsOnly, bootVars, tenantVars
<1>4. QED
  BY <1>1, <1>2, <1>3, BootMoves

LEMMA SetupInvStep == ASSUME SetupInv, [SetupNext]_setupVars PROVE SetupInv'
<1>1. CASE \E p \in SetupProcess : TenantStep(p) \/ TenantTxFails(p) \/ SetupFails(p)
  BY <1>1, CreatesOrganizationKeepsInv, TenantTxKeepsInv, UndoTenantKeepsInv, EnsureGroupsKeepsInv, EnsuresBaseKeepsInv,
     EnsuresKubectlKeepsInv, CreatorJoinsKeepsInv, CreatorTxKeepsInv, TenantTxFailsKeepsInv, SetupFailsKeepsInv DEF TenantStep
<1>2. CASE \E r \in Server : BootStep(r) \/ BackfillFails(r)
  BY <1>2, BootStepKeepsInv, BackfillFailsKeepsInv
<1>3. ASSUME NEW u \in PlatformUser, grantAdmin(u) \/ revokeAdmin(u) PROVE SetupInv'
  <2>1. setupAsked' \in 0 .. MaxSetupRequests /\ adminsOnly
    BY <1>3, SetupBounds DEF grantAdmin, revokeAdmin, authorizeOrgCreator, SetupInv, SetupTypeOK
  <2>2. adminGroup' \subseteq PlatformUser /\ UNCHANGED <<orgCreator, syncRead>>
    BY <1>3 DEF grantAdmin, revokeAdmin, GrantPlatformAdmin, RevokePlatformAdmin, SetupInv, SetupTypeOK
  <2>3. QED
    BY <2>1, <2>2, AdminsKeepInv DEF SetupInv, SetupTypeOK
<1>4. CASE SyncReads
  BY <1>4, AdminsKeepInv DEF SyncReads, reconcileGroup, ListGroupMembers, SetupInv, SetupTypeOK
<1>5. CASE SyncWrites
  <2>1. syncRead \in (SUBSET PlatformUser) \cup {{"none"}} /\ syncRead # {"none"} /\ orgCreator \subseteq PlatformUser
        /\ adminGroup \subseteq PlatformUser /\ setupAsked \in 0 .. MaxSetupRequests
    BY <1>5 DEF SyncWrites, SetupInv, SetupTypeOK
  <2>2. syncRead \subseteq PlatformUser
    BY <2>1
  <2>3. adminsOnly /\ UNCHANGED <<adminGroup, setupAsked>> /\ syncRead' \in {{"none"}}
        /\ orgCreator' \subseteq orgCreator \cup syncRead
    BY <1>5 DEF SyncWrites, ReadOrgCreators
  <2>4. QED
    BY <2>1, <2>2, <2>3, AdminsKeepInv
<1>6. CASE UNCHANGED setupVars
  <2>1. adminsOnly /\ UNCHANGED adminVars /\ UNCHANGED setupAsked
    BY <1>6 DEF setupVars, adminsOnly
  <2>2. QED
    BY <2>1, AdminsKeepInv DEF adminVars, SetupInv, SetupTypeOK
<1>7. QED
  BY <1>1, <1>2, <1>3, <1>4, <1>5, <1>6, createTenantKeepsInv DEF SetupNext, SyncOnce

LEMMA SetupInvGate ==
  ASSUME SetupInv PROVE SetupTypeOK /\ NoOrphanOrg /\ CreatorIsAdmin /\ BackfillHeals
<1>1. NoOrphanOrg
  BY SetupBounds DEF SetupInv, OrgsOwned, NoOrphanOrg, Between
<1>2. CreatorIsAdmin
  BY SetupBounds DEF SetupInv, SucceededOK, OrgsOwned, CreatorIsAdmin, Behind, HasRow, HasGroups, HasBase, HasJoined
<1>3. BackfillHeals
  BY DEF SetupInv, BackfillOK, BackfillHeals, HasBase
<1>4. QED
  BY <1>1, <1>2, <1>3 DEF SetupInv

-----------------------------------------------------------------------------
(* Notifications: the inductive invariant *)

HasDelivery(e, v) == \E d \in Rows : delivery[d].to = e /\ delivery[d].event = v
\* An endpoint that was to hear of an event has a delivery, is gone, or its outcome was lost.
Accounted(e, v) == endpoint[e].live /\ <<e, v>> \notin unrecorded => HasDelivery(e, v)
\* An event is handled once; the handler has accounted for the endpoints it is done with.
HandlerOK ==
    /\ pendingEvents \cap handledEvents = {}
    /\ notifying.pc = "deliver" => notifying.event \in pendingEvents
    /\ notifying.pc = "deliver" => \A e \in listed[notifying.event] \ notifying.left : Accounted(e, notifying.event)
HandledOK == \A v \in handledEvents : \A e \in listed[v] : Accounted(e, v)
\* What the sweep and the deliveries hold is below the cap; the sweep's copies are of the rows.
SweepOK ==
    /\ \A x \in retrying.left : x.row.attempts < MaxSendAttempts
    /\ \A x \in retrying.left : x.id \in Rows => delivery[x.id].to = x.row.to /\ delivery[x.id].event = x.row.event
    /\ retrying.pc = "mark" /\ retrying.id \in Rows =>
          delivery[retrying.id].to = retrying.row.to /\ delivery[retrying.id].event = retrying.row.event
\* The message a sweep has sent and not yet marked.
Marking(d) == IF retrying.pc = "mark" /\ retrying.id = d THEN 1 ELSE 0
\* A row counts every message that went out for it, but for the one being marked and for the
\* marks that were lost; a sweep has each row once, as it still is.
CountOK ==
    /\ \A d \in Rows : sent[d] = delivery[d].attempts + uncounted[d] + Marking(d)
                      /\ delivery[d].attempts + Marking(d) <= MaxSendAttempts
    /\ \A x \in retrying.left : x.id \in Rows => delivery[x.id].attempts = x.row.attempts
    /\ \A x, y \in retrying.left : x.id = y.id => x = y
    /\ retrying.pc = "mark" =>
          /\ retrying.row.attempts <= MaxSendAttempts /\ \A x \in retrying.left : x.id # retrying.id
          /\ retrying.id \in Rows => retrying.row.attempts = delivery[retrying.id].attempts + 1
    /\ \A d \in 1 .. MaxDeliveries : d > issued => uncounted[d] = 0
\* Ids of endpoints are not given out again.
EndpointsOK ==
    /\ \A e \in Endpoint : endpoint[e].live => endpoint[e].used
    /\ \A v \in NotifyEvent : \A e \in listed[v] : endpoint[e].used
    /\ editing.pc = "write" => editing.row.live /\ editing.row.used
NotifyInv == NotifyTypeOK /\ HandlerOK /\ HandledOK /\ SweepOK /\ EndpointsOK /\ CountOK

LEMMA NotifyBounds ==
  MaxSendAttempts \in Nat \ {0} /\ MaxDeliveries \in Nat /\ MaxNotifyRequests \in Nat /\ MaxNotifyFaults \in Nat
  /\ (CHOOSE v \in NotifyEvent : TRUE) \in NotifyEvent /\ (CHOOSE e \in Endpoint : TRUE) \in Endpoint
BY NotifyAssumption

\* Where a sweep may be, with so many deliveries issued.
Sweep(n) == [pc : {"idle", "send", "mark"}, left : SUBSET [id : 1 .. n, row : NotificationDelivery],
             id : 0 .. n, row : NotificationDelivery]

LEMMA NotifyIdleTyped ==
  /\ NotifyIdle \in [pc : {"idle", "deliver"}, event : NotifyEvent, left : SUBSET Endpoint]
  /\ EditIdle \in [pc : {"idle", "write"}, id : Endpoint, row : NotificationEndpoint]
  /\ issued' \in Nat => SweepIdle \in Sweep(issued')
  /\ issued \in Nat => SweepIdle \in Sweep(issued)
  /\ NoDelivery \in NotificationDelivery
  /\ NoEndpoint \in NotificationEndpoint
  /\ \A on \in BOOLEAN, events \in SUBSET NotifyEvent : LiveEndpoint(on, events) \in NotificationEndpoint
BY NotifyBounds DEF NotifyIdle, EditIdle, SweepIdle, NoEndpoint, LiveEndpoint, NotificationEndpoint, Sweep, NoDelivery, NotificationDelivery

LEMMA NotifyInvInit == ASSUME NotifyInit PROVE NotifyInv
<1>1. Rows = {} /\ delivery \in [Rows -> NotificationDelivery]
  BY DEF NotifyInit, Rows
<1>2. endpoint \in [Endpoint -> NotificationEndpoint]
  <2>1. LiveEndpoint(TRUE, {}) \in NotificationEndpoint
    BY DEF LiveEndpoint, NotificationEndpoint
  <2>2. QED
    BY <2>1, NotifyIdleTyped DEF NotifyInit
<1>3. NotifyTypeOK
  BY <1>1, <1>2, NotifyIdleTyped, NotifyBounds DEF NotifyInit, NotifyTypeOK, Sweep
<1>4. HandlerOK /\ HandledOK /\ SweepOK /\ CountOK
  BY <1>1 DEF NotifyInit, HandlerOK, HandledOK, SweepOK, CountOK, NotifyIdle, SweepIdle
<1>5. EndpointsOK
  BY DEF NotifyInit, EndpointsOK, EditIdle, NoEndpoint, LiveEndpoint
<1>6. QED
  BY <1>3, <1>4, <1>5 DEF NotifyInv

\* Rows that stay keep their endpoint and event.
RowsGrow == \A d \in Rows : d \in Rows' /\ delivery'[d].to = delivery[d].to /\ delivery'[d].event = delivery[d].event

\* The rows of deliveries after an insertion.
LEMMA InsertRows ==
  ASSUME NotifyInv, NEW row \in NotificationDelivery, InsertDelivery(row)
  PROVE  /\ issued' \in 0 .. MaxDeliveries /\ issued' = issued + 1 /\ Rows' = Rows \cup {issued + 1}
         /\ Rows' \subseteq 1 .. issued'
         /\ delivery' \in [Rows' -> NotificationDelivery] /\ RowsGrow /\ delivery'[issued + 1] = row
         /\ issued + 1 \notin Rows /\ \A d \in Rows : delivery'[d] = delivery[d]
         /\ (\A x : x.id \in 1 .. issued => (x.id \in Rows' <=> x.id \in Rows))
<1>1. issued \in 0 .. MaxDeliveries /\ Rows \subseteq 1 .. issued /\ delivery \in [Rows -> NotificationDelivery]
      /\ MaxDeliveries \in Nat
  BY NotifyBounds DEF NotifyInv, NotifyTypeOK
<1>2. issued' = issued + 1 /\ issued < MaxDeliveries
      /\ delivery' = [d \in Rows \cup {issued + 1} |-> IF d = issued + 1 THEN row ELSE delivery[d]]
  BY DEF InsertDelivery, WithDelivery
<1>3. issued + 1 \notin Rows
  BY <1>1
<1>4. Rows' = Rows \cup {issued + 1}
  BY <1>2 DEF Rows
<1>5. delivery' \in [Rows' -> NotificationDelivery]
  BY <1>1, <1>2, <1>4
<1>6. RowsGrow /\ delivery'[issued + 1] = row /\ \A d \in Rows : delivery'[d] = delivery[d]
  BY <1>1, <1>2, <1>3, <1>4 DEF RowsGrow
<1>7. issued' \in 0 .. MaxDeliveries /\ Rows' \subseteq 1 .. issued'
  BY <1>1, <1>2, <1>4
<1>8. \A x : x.id \in 1 .. issued => (x.id \in Rows' <=> x.id \in Rows)
  BY <1>1, <1>4
<1>9. QED
  BY <1>2, <1>3, <1>4, <1>5, <1>6, <1>7, <1>8

\* What holds of endpoints and handled events as long as rows only grow.
LEMMA GrowKeepsAccounts ==
  ASSUME NotifyInv, RowsGrow, endpointsSame, unrecorded \subseteq unrecorded',
         NEW e, NEW v, Accounted(e, v)
  PROVE  Accounted(e, v)'
BY DEF RowsGrow, endpointsSame, Accounted, HasDelivery

-----------------------------------------------------------------------------
(* Notifications: the handler of events *)

LEMMA PublishKeepsInv ==
  ASSUME NotifyInv, NEW v \in NotifyEvent, Publish(v) PROVE NotifyInv'
<1>1. Rows' = Rows /\ UNCHANGED <<endpoint, delivery, issued, handledEvents, notifying, retrying, listed, unrecorded, editing, sent, uncounted>>
  BY DEF Publish, endpointsSame, countsSame, Rows
<1>2. NotifyTypeOK'
  BY <1>1 DEF NotifyInv, NotifyTypeOK, Publish, Rows
<1>3. HandlerOK' /\ HandledOK'
  BY <1>1 DEF NotifyInv, HandlerOK, HandledOK, Accounted, HasDelivery, Publish
<1>4. SweepOK' /\ EndpointsOK' /\ CountOK'
  BY <1>1 DEF NotifyInv, SweepOK, EndpointsOK, CountOK, Marking
<1>5. QED
  BY <1>2, <1>3, <1>4 DEF NotifyInv

LEMMA HandleKeepsInv ==
  ASSUME NotifyInv, NEW v \in NotifyEvent, Handle(v) PROVE NotifyInv'
<1> DEFINE targets == {e \in ListEndpoints : endpoint[e].enabled /\ matchesEvents(e, v)}
<1>1. /\ Rows' = Rows /\ v \in pendingEvents
      /\ UNCHANGED <<endpoint, delivery, issued, pendingEvents, handledEvents, retrying, unrecorded, editing, sent, uncounted, notifyAsked, notifyFaults>>
      /\ notifying' = [pc |-> "deliver", event |-> v, left |-> targets] /\ listed' = [listed EXCEPT ![v] = targets]
  BY DEF Handle, endpointsSame, countsSame, Rows
<1>2. targets \subseteq Endpoint /\ \A e \in targets : endpoint[e].live
  BY DEF ListEndpoints
<1> HIDE DEF targets
<1>3. NotifyTypeOK'
  BY <1>1, <1>2 DEF NotifyInv, NotifyTypeOK, Rows
<1>4. v \notin handledEvents /\ listed'[v] = targets /\ \A w \in NotifyEvent \ {v} : listed'[w] = listed[w]
  BY <1>1 DEF NotifyInv, NotifyTypeOK, HandlerOK
<1>5. HandlerOK'
  BY <1>1, <1>4 DEF NotifyInv, HandlerOK
<1>6. HandledOK'
  BY <1>1, <1>4 DEF NotifyInv, NotifyTypeOK, HandledOK, Accounted, HasDelivery
<1>7. SweepOK' /\ CountOK'
  BY <1>1 DEF NotifyInv, SweepOK, CountOK, Marking
<1>8. EndpointsOK'
  BY <1>1, <1>2, <1>4 DEF NotifyInv, NotifyTypeOK, EndpointsOK
<1>9. QED
  BY <1>3, <1>5, <1>6, <1>7, <1>8 DEF NotifyInv

\* The sweep's copies while rows are inserted, and what the counters say.
LEMMA InsertKeepsSweep ==
  ASSUME NotifyInv, NEW row \in NotificationDelivery, row.attempts = 1, InsertDelivery(row),
         retrying' = retrying
  PROVE  /\ SweepOK' /\ CountOK' /\ retrying' \in Sweep(issued')
         /\ sent' \in [1 .. MaxDeliveries -> Nat] /\ uncounted' = uncounted
<1>1. retrying \in Sweep(issued) /\ issued \in Nat /\ issued \in 0 .. MaxDeliveries /\ MaxDeliveries \in Nat
      /\ Rows \subseteq 1 .. issued /\ sent \in [1 .. MaxDeliveries -> Nat] /\ uncounted \in [1 .. MaxDeliveries -> Nat]
      /\ MaxSendAttempts \in Nat \ {0}
  BY NotifyBounds DEF NotifyInv, NotifyTypeOK, Sweep
<1>2. issued' = issued + 1 /\ Rows' = Rows \cup {issued + 1} /\ RowsGrow /\ issued + 1 \notin Rows
      /\ delivery'[issued + 1] = row /\ \A d \in Rows : delivery'[d] = delivery[d]
  BY InsertRows
<1>3. 1 .. issued \subseteq 1 .. issued' /\ 0 .. issued \subseteq 0 .. issued'
  BY <1>1, <1>2
<1>4. retrying' \in Sweep(issued')
  BY <1>1, <1>3 DEF Sweep
<1>5. (\A x \in retrying.left : x.id \in Rows' => x.id \in Rows) /\ (retrying.id \in Rows' => retrying.id \in Rows)
      /\ retrying.id # issued + 1
  BY <1>1, <1>2 DEF Sweep
<1>6. SweepOK'
  BY <1>2, <1>5 DEF NotifyInv, SweepOK, RowsGrow
<1>7. issued + 1 \in 1 .. MaxDeliveries /\ sent' = [sent EXCEPT ![issued + 1] = 1] /\ uncounted' = uncounted
      /\ uncounted[issued + 1] = 0
  BY <1>1, <1>2 DEF InsertDelivery, NotifyInv, CountOK
<1>8. \A d \in Rows' : Marking(d)' = IF d = issued + 1 THEN 0 ELSE Marking(d)
  BY <1>5 DEF Marking
<1>9. \A d \in Rows' : sent'[d] = delivery'[d].attempts + uncounted'[d] + Marking(d)'
                      /\ delivery'[d].attempts + Marking(d)' <= MaxSendAttempts
  <2>1. sent'[issued + 1] = 1
    BY <1>1, <1>7
  <2>2. \A d \in Rows : d \in 1 .. MaxDeliveries /\ d # issued + 1 /\ sent'[d] = sent[d]
    BY <1>1, <1>2, <1>7
  <2>3. \A d \in Rows : sent[d] = delivery[d].attempts + uncounted[d] + Marking(d)
                        /\ delivery[d].attempts + Marking(d) <= MaxSendAttempts
    BY DEF NotifyInv, CountOK
  <2>4. \A d \in Rows : sent'[d] = delivery'[d].attempts + uncounted'[d] + Marking(d)'
                        /\ delivery'[d].attempts + Marking(d)' <= MaxSendAttempts
    BY <2>2, <2>3, <1>2, <1>7, <1>8
  <2>5. PICK n : n = issued + 1
    OBVIOUS
  <2>6. n \in Rows' /\ sent'[n] = 1 /\ delivery'[n].attempts = 1 /\ uncounted'[n] = 0 /\ Marking(n)' = 0
    BY <2>1, <2>5, <1>2, <1>7, <1>8
  <2>7. sent'[n] = delivery'[n].attempts + uncounted'[n] + Marking(n)' /\ delivery'[n].attempts + Marking(n)' <= MaxSendAttempts
    BY <2>6, <1>1
  <2>8. \A d \in Rows' : d \in Rows \/ d = n
    BY <2>5, <1>2
  <2>9. QED
    BY <2>4, <2>7, <2>8
<1>10. \A x \in retrying'.left : x.id \in Rows' => delivery'[x.id].attempts = x.row.attempts
  BY <1>2, <1>5 DEF NotifyInv, CountOK
<1>11. (\A x, y \in retrying'.left : x.id = y.id => x = y)
       /\ (\A d \in 1 .. MaxDeliveries : d > issued' => uncounted'[d] = 0)
  BY <1>1, <1>2, <1>7 DEF NotifyInv, CountOK
<1>12. retrying'.pc = "mark" =>
          /\ retrying'.row.attempts <= MaxSendAttempts /\ \A x \in retrying'.left : x.id # retrying'.id
          /\ retrying'.id \in Rows' => retrying'.row.attempts = delivery'[retrying'.id].attempts + 1
  BY <1>2, <1>5 DEF NotifyInv, CountOK
<1>13. CountOK'
  BY <1>9, <1>10, <1>11, <1>12 DEF CountOK
<1>14. sent' \in [1 .. MaxDeliveries -> Nat]
  BY <1>1, <1>7
<1>15. QED
  BY <1>4, <1>6, <1>7, <1>13, <1>14

LEMMA DeliverKeepsInv ==
  ASSUME NotifyInv, NEW e \in notifying.left, deliver(e) PROVE NotifyInv'
<1>0. notifying \in [pc : {"idle", "deliver"}, event : NotifyEvent, left : SUBSET Endpoint] /\ e \in Endpoint
      /\ endpointsSame /\ UNCHANGED <<pendingEvents, handledEvents, retrying, listed, notifyAsked>> /\ Told(e)
  BY DEF NotifyInv, NotifyTypeOK, deliver
<1>1. notifying' \in [pc : {"idle", "deliver"}, event : NotifyEvent, left : SUBSET Endpoint]
      /\ notifying'.pc = notifying.pc /\ notifying'.event = notifying.event /\ notifying'.left = notifying.left \ {e}
  BY <1>0 DEF Told
<1>2. EndpointsOK'
  BY <1>0 DEF NotifyInv, EndpointsOK, endpointsSame
\* the event is accounted for at e, and everything else as before
<1>3. ASSUME RowsGrow, unrecorded \subseteq unrecorded', Accounted(e, notifying.event)' PROVE HandlerOK' /\ HandledOK'
  <2>1. HandlerOK'
    <3>0. PICK v \in NotifyEvent : v = notifying.event
      BY <1>0
    <3>1. ASSUME notifying.pc = "deliver", NEW f \in listed[v] \ notifying'.left
          PROVE  Accounted(f, v)'
      <4>1. CASE f = e
        BY <4>1, <1>3, <1>1, <3>0 DEF Accounted, HasDelivery
      <4>2. CASE f # e
        <5>1. Accounted(f, v)
          BY <4>2, <3>0, <3>1, <1>0, <1>1 DEF NotifyInv, HandlerOK
        <5>2. QED
          BY <5>1, <1>0, <1>3, GrowKeepsAccounts
      <4>3. QED
        BY <4>1, <4>2
    <3>2. notifying'.pc = "deliver" => \A f \in listed'[notifying'.event] \ notifying'.left : Accounted(f, notifying.event)'
      BY <3>0, <3>1, <1>0, <1>1 DEF Accounted, HasDelivery
    <3>3. QED
      BY <3>2, <1>0, <1>1 DEF NotifyInv, HandlerOK
  <2>2. HandledOK'
    BY <1>0, <1>3 DEF NotifyInv, HandledOK, RowsGrow, endpointsSame, Accounted, HasDelivery
  <2>3. QED
    BY <2>1, <2>2
<1>4. CASE \E status \in Send : InsertDelivery([to |-> e, event |-> notifying.event, status |-> status, attempts |-> 1])
                               /\ UNCHANGED <<unrecorded, notifyFaults>>
  <2>0. PICK status \in Send : InsertDelivery([to |-> e, event |-> notifying.event, status |-> status, attempts |-> 1])
                               /\ UNCHANGED <<unrecorded, notifyFaults>>
    BY <1>4
  <2> DEFINE row == [to |-> e, event |-> notifying.event, status |-> status, attempts |-> 1]
  <2>1. row \in NotificationDelivery /\ row.attempts = 1 /\ row.to = e /\ row.event = notifying.event
    BY <1>0, NotifyBounds DEF NotificationDelivery, Send
  <2>2. InsertDelivery(row)
    BY <2>0
  <2> HIDE DEF row
  <2>3. /\ issued' \in 0 .. MaxDeliveries /\ Rows' \subseteq 1 .. issued' /\ Rows' = Rows \cup {issued + 1}
        /\ delivery' \in [Rows' -> NotificationDelivery] /\ RowsGrow /\ delivery'[issued + 1] = row
    BY <2>1, <2>2, InsertRows
  <2>4. /\ SweepOK' /\ CountOK' /\ retrying' \in Sweep(issued')
        /\ sent' \in [1 .. MaxDeliveries -> Nat] /\ uncounted' = uncounted
    BY <2>1, <2>2, <1>0, InsertKeepsSweep
  <2>5. HasDelivery(e, notifying.event)'
    BY <2>1, <2>3, <1>1 DEF HasDelivery
  <2>6. HandlerOK' /\ HandledOK'
    BY <1>3, <2>0, <2>3, <2>5 DEF Accounted
  <2>7. NotifyTypeOK'
    BY <1>0, <1>1, <2>0, <2>3, <2>4 DEF NotifyInv, NotifyTypeOK, endpointsSame, Sweep
  <2>8. QED
    BY <1>2, <2>4, <2>6, <2>7 DEF NotifyInv
<1>5. CASE NoInsert /\ unrecorded \subseteq unrecorded' /\ unrecorded' \subseteq Endpoint \X NotifyEvent
           /\ Accounted(e, notifying.event)' /\ notifyFaults' \in 0 .. MaxNotifyFaults
  <2>1. Rows' = Rows /\ RowsGrow
    BY <1>5 DEF Rows, RowsGrow, NoInsert
  <2>2. HandlerOK' /\ HandledOK'
    BY <1>3, <1>5, <2>1
  <2>3. SweepOK' /\ CountOK'
    BY <1>0, <1>5, <2>1 DEF NotifyInv, SweepOK, CountOK, Marking, NoInsert, countsSame
  <2>4. NotifyTypeOK'
    BY <1>0, <1>1, <1>5, <2>1 DEF NotifyInv, NotifyTypeOK, endpointsSame, NoInsert, countsSame
  <2>5. QED
    BY <1>2, <2>2, <2>3, <2>4 DEF NotifyInv
<1>6. CASE ~endpoint[e].live /\ NoInsert /\ UNCHANGED <<unrecorded, notifyFaults>>
  <2>1. Accounted(e, notifying.event)'
    BY <1>0, <1>6 DEF Accounted, endpointsSame
  <2>2. QED
    BY <1>5, <1>6, <2>1 DEF NotifyInv, NotifyTypeOK
<1>7. CASE RecordFails /\ unrecorded' = unrecorded \cup {<<e, notifying.event>>} /\ NoInsert
  <2>1. Accounted(e, notifying.event)'
    BY <1>1, <1>7 DEF Accounted
  <2>2. notifyFaults' \in 0 .. MaxNotifyFaults
    BY <1>7, NotifyBounds DEF NotifyInv, NotifyTypeOK, RecordFails
  <2>3. unrecorded' \subseteq Endpoint \X NotifyEvent
    BY <1>0, <1>7 DEF NotifyInv, NotifyTypeOK
  <2>4. QED
    BY <1>5, <1>7, <2>1, <2>2, <2>3
<1>8. QED
  BY <1>4, <1>6, <1>7 DEF deliver

LEMMA HandleReturnsKeepsInv ==
  ASSUME NotifyInv, HandleReturns PROVE NotifyInv'
<1>1. Rows' = Rows /\ UNCHANGED <<endpoint, delivery, issued, retrying, listed, unrecorded, editing, sent, uncounted, notifyAsked, notifyFaults>>
      /\ notifying' = NotifyIdle /\ notifying.pc = "deliver" /\ notifying.left = {}
      /\ pendingEvents' = pendingEvents \ {notifying.event} /\ handledEvents' = handledEvents \cup {notifying.event}
  BY DEF HandleReturns, endpointsSame, countsSame, Rows
<1>2. NotifyTypeOK'
  BY <1>1, NotifyIdleTyped DEF NotifyInv, NotifyTypeOK, Rows
<1>3. HandlerOK'
  BY <1>1 DEF NotifyInv, HandlerOK, NotifyIdle
<1>4. HandledOK'
  BY <1>1 DEF NotifyInv, HandlerOK, HandledOK, Accounted, HasDelivery
<1>5. SweepOK' /\ EndpointsOK' /\ CountOK'
  BY <1>1 DEF NotifyInv, SweepOK, EndpointsOK, CountOK, Marking
<1>6. QED
  BY <1>2, <1>3, <1>4, <1>5 DEF NotifyInv

\* The counter of lost marks takes over what was being marked.
LEMMA UncountedTyped ==
  ASSUME NotifyInv, Uncounted
  PROVE  /\ uncounted' \in [1 .. MaxDeliveries -> Nat]
         /\ \A d \in Rows : delivery[d].attempts + uncounted'[d] = delivery[d].attempts + uncounted[d] + Marking(d)
                           /\ delivery[d].attempts \in Nat /\ delivery[d].attempts <= MaxSendAttempts
         /\ \A d \in 1 .. MaxDeliveries : d > issued => uncounted'[d] = 0
<1>1. /\ uncounted \in [1 .. MaxDeliveries -> Nat] /\ retrying.id \in 0 .. issued /\ issued \in 0 .. MaxDeliveries
      /\ Rows \subseteq 1 .. issued /\ MaxDeliveries \in Nat /\ delivery \in [Rows -> NotificationDelivery]
      /\ MaxSendAttempts \in Nat \ {0}
  BY NotifyBounds DEF NotifyInv, NotifyTypeOK
<1>2. \A d \in 1 .. MaxDeliveries : uncounted'[d] = uncounted[d] + Marking(d)
  <2>1. CASE retrying.pc = "mark"
    <3>1. uncounted' = [uncounted EXCEPT ![retrying.id] = @ + 1]
      BY <2>1 DEF Uncounted
    <3>2. QED
      BY <1>1, <2>1, <3>1 DEF Marking
  <2>2. CASE retrying.pc # "mark"
    BY <1>1, <2>2 DEF Uncounted, Marking
  <2>3. QED
    BY <2>1, <2>2
<1>3. uncounted' \in [1 .. MaxDeliveries -> Nat]
  <2>1. CASE retrying.pc = "mark"
    <3>1. uncounted' = [d \in 1 .. MaxDeliveries |-> IF d = retrying.id THEN uncounted[d] + 1 ELSE uncounted[d]]
      BY <1>1, <2>1 DEF Uncounted
    <3>2. \A d \in 1 .. MaxDeliveries : uncounted[d] \in Nat /\ uncounted[d] + 1 \in Nat
      BY <1>1
    <3>3. QED
      BY <3>1, <3>2
  <2>2. CASE retrying.pc # "mark"
    BY <1>1, <2>2 DEF Uncounted
  <2>3. QED
    BY <2>1, <2>2
<1>4. \A d \in Rows : d \in 1 .. MaxDeliveries /\ delivery[d].attempts \in Nat /\ uncounted[d] \in Nat
  BY <1>1 DEF NotificationDelivery
<1>5. \A d \in Rows : delivery[d].attempts + Marking(d) <= MaxSendAttempts /\ Marking(d) \in {0, 1}
  BY DEF NotifyInv, CountOK, Marking
<1>6. \A d \in 1 .. MaxDeliveries : d > issued => uncounted'[d] = 0
  BY <1>1, <1>2 DEF NotifyInv, CountOK, Marking
<1>7. ASSUME NEW d \in Rows
      PROVE  /\ delivery[d].attempts + uncounted'[d] = delivery[d].attempts + uncounted[d] + Marking(d)
             /\ delivery[d].attempts \in Nat /\ delivery[d].attempts <= MaxSendAttempts
  <2>1. uncounted'[d] = uncounted[d] + Marking(d) /\ delivery[d].attempts \in Nat /\ uncounted[d] \in Nat
        /\ Marking(d) \in {0, 1} /\ delivery[d].attempts + Marking(d) <= MaxSendAttempts /\ MaxSendAttempts \in Nat
    BY <1>1, <1>2, <1>4, <1>5
  <2>2. QED
    BY <2>1
<1>8. QED
  BY <1>3, <1>6, <1>7

LEMMA HandlerCrashesKeepsInv ==
  ASSUME NotifyInv, HandlerCrashes PROVE NotifyInv'
<1>1. Rows' = Rows /\ UNCHANGED <<endpoint, delivery, issued, pendingEvents, handledEvents, listed, unrecorded, sent, notifyAsked>>
      /\ notifying' = NotifyIdle /\ retrying' = SweepIdle /\ editing' = EditIdle /\ Uncounted
      /\ notifyFaults < MaxNotifyFaults /\ notifyFaults' = notifyFaults + 1
  BY DEF HandlerCrashes, Rows
<1>2. notifyFaults' \in 0 .. MaxNotifyFaults
  BY <1>1, NotifyBounds DEF NotifyInv, NotifyTypeOK
<1>3. NotifyTypeOK'
  <2>1. retrying' \in Sweep(issued) /\ issued' = issued
    <3>1. issued \in Nat
      BY NotifyBounds DEF NotifyInv, NotifyTypeOK
    <3>2. QED
      BY <1>1, <3>1, NotifyIdleTyped
  <2>2. QED
    BY <1>1, <1>2, <2>1, NotifyIdleTyped, UncountedTyped DEF NotifyInv, NotifyTypeOK, Sweep
<1>4. HandlerOK' /\ HandledOK'
  BY <1>1 DEF NotifyInv, HandlerOK, HandledOK, Accounted, HasDelivery, NotifyIdle
<1>5. SweepOK' /\ EndpointsOK'
  BY <1>1 DEF NotifyInv, SweepOK, EndpointsOK, SweepIdle, EditIdle
<1>6. CountOK'
  <2>1. retrying'.pc # "mark" /\ retrying'.left = {}
    BY <1>1 DEF SweepIdle
  <2>2. \A d \in Rows : Marking(d)' = 0
    BY <2>1 DEF Marking
  <2>3. \A d \in Rows : delivery[d].attempts + uncounted'[d] = sent[d] /\ delivery[d].attempts <= MaxSendAttempts
                        /\ delivery[d].attempts \in Nat /\ uncounted'[d] \in Nat
    <3>1. \A d \in Rows : d \in 1 .. MaxDeliveries
      BY NotifyBounds DEF NotifyInv, NotifyTypeOK
    <3>2. QED
      BY <1>1, <3>1, UncountedTyped DEF NotifyInv, CountOK
  <2>4. \A d \in Rows : sent'[d] = delivery'[d].attempts + uncounted'[d] + Marking(d)'
                        /\ delivery'[d].attempts + Marking(d)' <= MaxSendAttempts
    BY <1>1, <2>2, <2>3
  <2>5. \A d \in 1 .. MaxDeliveries : d > issued' => uncounted'[d] = 0
    BY <1>1, UncountedTyped
  <2>6. QED
    BY <1>1, <2>1, <2>4, <2>5 DEF CountOK
<1>7. QED
  BY <1>3, <1>4, <1>5, <1>6 DEF NotifyInv

-----------------------------------------------------------------------------
(* Notifications: the sweep *)

LEMMA RetryFailedKeepsInv ==
  ASSUME NotifyInv, RetryFailed PROVE NotifyInv'
<1>1. Rows' = Rows /\ endpointsSame /\ busSame /\ countsSame /\ UNCHANGED <<delivery, issued, unrecorded, notifyAsked, notifyFaults>>
      /\ retrying' = [SweepIdle EXCEPT !.pc = "send", !.left = {[id |-> d, row |-> delivery[d]] : d \in ListFailed}]
      /\ retrying.pc = "idle"
  BY DEF RetryFailed, Rows
<1>2. \A d \in ListFailed : d \in Rows /\ delivery[d] \in NotificationDelivery /\ d \in 1 .. issued
                            /\ delivery[d].attempts < MaxSendAttempts
  BY DEF ListFailed, NotifyInv, NotifyTypeOK
<1>3. retrying'.left = {[id |-> d, row |-> delivery[d]] : d \in ListFailed} /\ retrying'.pc = "send"
  BY <1>1 DEF SweepIdle
<1>4. retrying' \in Sweep(issued)
  <2>1. {[id |-> d, row |-> delivery[d]] : d \in ListFailed} \in SUBSET [id : 1 .. issued, row : NotificationDelivery]
    BY <1>2
  <2>2. SweepIdle \in Sweep(issued)
    BY NotifyIdleTyped, NotifyBounds DEF NotifyInv, NotifyTypeOK
  <2>3. QED
    BY <1>1, <2>1, <2>2 DEF Sweep
<1>5. NotifyTypeOK'
  BY <1>1, <1>4 DEF NotifyInv, NotifyTypeOK, endpointsSame, busSame, countsSame, Sweep
<1>6. \A x \in retrying'.left : \E d \in ListFailed : x = [id |-> d, row |-> delivery[d]]
  BY <1>3
<1>7. SweepOK'
  BY <1>1, <1>2, <1>3, <1>6 DEF SweepOK
<1>8. CountOK'
  BY <1>1, <1>2, <1>3, <1>6 DEF NotifyInv, CountOK, Marking, countsSame
<1>9. HandlerOK' /\ HandledOK'
  BY <1>1 DEF NotifyInv, HandlerOK, HandledOK, Accounted, HasDelivery, endpointsSame, busSame
<1>10. EndpointsOK'
  BY <1>1 DEF NotifyInv, EndpointsOK, endpointsSame, busSame
<1>11. QED
  BY <1>5, <1>7, <1>8, <1>9, <1>10 DEF NotifyInv

\* What a sweep holds is typed, and it may go on to the rest.
LEMMA SweepFacts ==
  ASSUME NotifyInv
  PROVE  /\ retrying \in Sweep(issued) /\ issued \in Nat /\ issued \in 0 .. MaxDeliveries
         /\ delivery \in [Rows -> NotificationDelivery] /\ Rows \subseteq 1 .. issued
         /\ sent \in [1 .. MaxDeliveries -> Nat] /\ uncounted \in [1 .. MaxDeliveries -> Nat]
         /\ MaxSendAttempts \in Nat \ {0} /\ MaxDeliveries \in Nat
         /\ \A left \in SUBSET retrying.left : After(left) \in Sweep(issued) /\ After(left).left = left /\ After(left).pc # "mark"
<1>1. /\ retrying \in Sweep(issued) /\ issued \in Nat /\ issued \in 0 .. MaxDeliveries
      /\ delivery \in [Rows -> NotificationDelivery] /\ Rows \subseteq 1 .. issued
      /\ sent \in [1 .. MaxDeliveries -> Nat] /\ uncounted \in [1 .. MaxDeliveries -> Nat]
      /\ MaxSendAttempts \in Nat \ {0} /\ MaxDeliveries \in Nat
  BY NotifyBounds DEF NotifyInv, NotifyTypeOK, Sweep
<1>2. SweepIdle \in Sweep(issued)
  BY <1>1, NotifyIdleTyped
<1>3. ASSUME NEW left \in SUBSET retrying.left
      PROVE  After(left) \in Sweep(issued) /\ After(left).left = left /\ After(left).pc # "mark"
  <2>1. left \in SUBSET [id : 1 .. issued, row : NotificationDelivery]
    BY <1>1 DEF Sweep
  <2>2. CASE left = {}
    BY <2>2, <1>2 DEF After, SweepIdle
  <2>3. CASE left # {}
    <3>1. After(left) = [SweepIdle EXCEPT !.pc = "send", !.left = left]
      BY <2>3 DEF After
    <3>2. QED
      BY <3>1, <2>1, <1>2 DEF Sweep
  <2>4. QED
    BY <2>2, <2>3
<1>4. QED
  BY <1>1, <1>3

\* A copy of a row that was sent once more.
LEMMA RetriedRow ==
  ASSUME NEW row \in NotificationDelivery, row.attempts < MaxSendAttempts, NEW status \in Send, MaxSendAttempts \in Nat
  PROVE  LET r == [row EXCEPT !.status = status, !.attempts = @ + 1]
         IN  r \in NotificationDelivery /\ r.to = row.to /\ r.event = row.event
             /\ r.attempts = row.attempts + 1 /\ r.attempts <= MaxSendAttempts
<1> DEFINE r == [row EXCEPT !.status = status, !.attempts = @ + 1]
<1>1. row.attempts \in 1 .. MaxSendAttempts + 1
  BY DEF NotificationDelivery
<1>2. row.attempts + 1 \in 1 .. MaxSendAttempts + 1 /\ row.attempts + 1 <= MaxSendAttempts
  BY <1>1
<1>3. r.to = row.to /\ r.event = row.event /\ r.attempts = row.attempts + 1
  BY DEF NotificationDelivery
<1>4. r \in NotificationDelivery
  BY <1>2 DEF NotificationDelivery, Send
<1>5. QED
  BY <1>2, <1>3, <1>4

LEMMA RetrySendKeepsInv ==
  ASSUME NotifyInv, NEW x \in retrying.left, RetrySend(x) PROVE NotifyInv'
<1>1. endpointsSame /\ busSame /\ UNCHANGED <<delivery, issued, unrecorded, uncounted, notifyAsked, notifyFaults>>
      /\ Rows' = Rows /\ retrying.pc = "send"
  BY DEF RetrySend, Rows
<1>2. x \in [id : 1 .. issued, row : NotificationDelivery] /\ x.row.attempts < MaxSendAttempts
  BY SweepFacts DEF NotifyInv, SweepOK, Sweep
<1>3. HandlerOK' /\ HandledOK' /\ EndpointsOK'
  BY <1>1 DEF NotifyInv, HandlerOK, HandledOK, Accounted, HasDelivery, EndpointsOK, endpointsSame, busSame
<1> DEFINE left == retrying.left \ {x}
<1>4. \A y \in left : y \in retrying.left /\ y.id # x.id
  BY DEF NotifyInv, CountOK
<1>5. CASE retrying' = After(left) /\ UNCHANGED sent
  <2>1. retrying' \in Sweep(issued) /\ retrying'.left = left /\ retrying'.pc # "mark"
    BY <1>5, SweepFacts
  <2>2. NotifyTypeOK'
    BY <1>1, <1>5, <2>1 DEF NotifyInv, NotifyTypeOK, endpointsSame, busSame, Sweep
  <2>3. SweepOK' /\ CountOK'
    BY <1>1, <1>5, <2>1 DEF NotifyInv, SweepOK, CountOK, Marking
  <2>4. QED
    BY <1>3, <2>2, <2>3 DEF NotifyInv
<1>6. ASSUME NEW status \in Send, sent' = [sent EXCEPT ![x.id] = @ + 1],
             retrying' = [pc |-> "mark", left |-> left, id |-> x.id, row |-> [x.row EXCEPT !.status = status, !.attempts = @ + 1]]
      PROVE  NotifyInv'
  <2>1. PICK r : r = [x.row EXCEPT !.status = status, !.attempts = @ + 1]
    OBVIOUS
  <2>2. r \in NotificationDelivery /\ r.to = x.row.to /\ r.event = x.row.event
        /\ r.attempts = x.row.attempts + 1 /\ r.attempts <= MaxSendAttempts
    BY <1>2, <2>1, RetriedRow, SweepFacts
  <2>3. retrying' = [pc |-> "mark", left |-> left, id |-> x.id, row |-> r]
    BY <1>6, <2>1
  <2>4. retrying' \in Sweep(issued) /\ x.id \in 1 .. MaxDeliveries
    BY <1>2, <2>2, <2>3, SweepFacts DEF Sweep
  <2>5. sent' \in [1 .. MaxDeliveries -> Nat] /\ \A d \in 1 .. MaxDeliveries : sent'[d] = IF d = x.id THEN sent[d] + 1 ELSE sent[d]
    BY <1>6, <2>4, SweepFacts
  <2>6. NotifyTypeOK'
    BY <1>1, <2>4, <2>5 DEF NotifyInv, NotifyTypeOK, endpointsSame, busSame, Sweep
  <2>7. SweepOK'
    BY <1>1, <1>4, <2>2, <2>3 DEF NotifyInv, SweepOK
  <2>8. \A d \in Rows : Marking(d) = 0 /\ Marking(d)' = IF d = x.id THEN 1 ELSE 0
    BY <1>1, <2>3 DEF Marking
  <2>9. \A d \in Rows : sent'[d] = delivery'[d].attempts + uncounted'[d] + Marking(d)'
                      /\ delivery'[d].attempts + Marking(d)' <= MaxSendAttempts
    <3>1. SUFFICES ASSUME NEW d \in Rows
          PROVE  sent'[d] = delivery'[d].attempts + uncounted'[d] + Marking(d)' /\ delivery'[d].attempts + Marking(d)' <= MaxSendAttempts
      OBVIOUS
    <3>2. d \in 1 .. MaxDeliveries /\ delivery[d].attempts \in Nat /\ uncounted[d] \in Nat /\ MaxSendAttempts \in Nat
      BY SweepFacts DEF NotificationDelivery
    <3>3. sent[d] = delivery[d].attempts + uncounted[d] /\ delivery[d].attempts <= MaxSendAttempts
      BY <2>8, <3>2 DEF NotifyInv, CountOK
    <3>4. d = x.id => delivery[d].attempts + 1 <= MaxSendAttempts
      BY <2>2 DEF NotifyInv, CountOK
    <3>5. QED
      BY <1>1, <2>5, <2>8, <3>2, <3>3, <3>4
  <2>10. CountOK'
    BY <1>1, <1>4, <2>2, <2>3, <2>9 DEF NotifyInv, CountOK
  <2>11. QED
    BY <1>3, <2>6, <2>7, <2>10 DEF NotifyInv
<1>7. QED
  BY <1>5, <1>6 DEF RetrySend

LEMMA RetryMarkKeepsInv ==
  ASSUME NotifyInv, RetryMark PROVE NotifyInv'
<1>1. endpointsSame /\ busSame /\ UNCHANGED <<unrecorded, sent, notifyAsked>> /\ issued' = issued
      /\ retrying.pc = "mark" /\ retrying' = After(retrying.left)
  BY DEF RetryMark, MarkRetry
<1>2. retrying' \in Sweep(issued) /\ retrying'.left = retrying.left /\ retrying'.pc # "mark"
  BY <1>1, SweepFacts
<1>3. PICK r, id : r = retrying.row /\ id = retrying.id
  OBVIOUS
<1>4. r \in NotificationDelivery /\ r.attempts <= MaxSendAttempts /\ id \in 0 .. issued
      /\ (id \in Rows => delivery[id].to = r.to /\ delivery[id].event = r.event /\ r.attempts = delivery[id].attempts + 1)
      /\ \A x \in retrying.left : x.id # id
  BY <1>1, <1>3, SweepFacts DEF NotifyInv, SweepOK, CountOK, Sweep
<1>5. \A d \in Rows : Marking(d) = (IF d = id THEN 1 ELSE 0) /\ Marking(d)' = 0
  BY <1>1, <1>2, <1>3 DEF Marking
<1>6. \A d \in Rows : d \in 1 .. MaxDeliveries /\ delivery[d].attempts \in Nat /\ uncounted[d] \in Nat /\ MaxSendAttempts \in Nat
  BY SweepFacts DEF NotificationDelivery
<1>7. CASE MarkRetry(id, r) /\ UNCHANGED <<uncounted, notifyFaults>>
  <2>1. Rows' = Rows /\ delivery' \in [Rows -> NotificationDelivery]
        /\ \A d \in Rows : delivery'[d] = IF d = id THEN r ELSE delivery[d]
    <3>1. CASE id \in Rows
      <4>1. delivery' = [delivery EXCEPT ![id] = r]
        BY <1>7, <3>1 DEF MarkRetry
      <4>2. QED
        BY <4>1, <1>4, SweepFacts DEF Rows
    <3>2. CASE id \notin Rows
      BY <1>7, <3>2, SweepFacts DEF MarkRetry, Rows
    <3>3. QED
      BY <3>1, <3>2
  <2>2. RowsGrow
    BY <2>1, <1>4 DEF RowsGrow
  <2>3. NotifyTypeOK'
    BY <1>1, <1>2, <1>7, <2>1 DEF NotifyInv, NotifyTypeOK, endpointsSame, busSame, Sweep
  <2>4. HandlerOK' /\ HandledOK'
    BY <1>1, <2>2 DEF NotifyInv, HandlerOK, HandledOK, busSame, RowsGrow, endpointsSame, Accounted, HasDelivery
  <2>5. EndpointsOK'
    BY <1>1 DEF NotifyInv, EndpointsOK, endpointsSame, busSame
  <2>6. SweepOK'
    BY <1>2, <1>4, <2>1 DEF NotifyInv, SweepOK
  <2>7. \A d \in Rows : sent'[d] = delivery'[d].attempts + uncounted'[d] + Marking(d)'
                      /\ delivery'[d].attempts + Marking(d)' <= MaxSendAttempts
    BY <1>1, <1>4, <1>5, <1>6, <1>7, <2>1 DEF NotifyInv, CountOK
  <2>8. CountOK'
    BY <1>1, <1>2, <1>4, <1>7, <2>1, <2>7 DEF NotifyInv, CountOK
  <2>9. QED
    BY <2>3, <2>4, <2>5, <2>6, <2>8 DEF NotifyInv
<1>8. CASE Uncounted /\ UNCHANGED <<delivery, issued>> /\ notifyFaults < MaxNotifyFaults /\ notifyFaults' = notifyFaults + 1
  <2>1. Rows' = Rows
    BY <1>8 DEF Rows
  <2>2. notifyFaults' \in 0 .. MaxNotifyFaults
    BY <1>8, NotifyBounds DEF NotifyInv, NotifyTypeOK
  <2>3. NotifyTypeOK'
    BY <1>1, <1>2, <1>8, <2>1, <2>2, UncountedTyped DEF NotifyInv, NotifyTypeOK, endpointsSame, busSame, Sweep
  <2>4. HandlerOK' /\ HandledOK' /\ EndpointsOK'
    BY <1>1, <1>8, <2>1 DEF NotifyInv, HandlerOK, HandledOK, EndpointsOK, busSame, endpointsSame, Accounted, HasDelivery
  <2>5. SweepOK'
    BY <1>2, <1>8, <2>1 DEF NotifyInv, SweepOK
  <2>6. \A d \in Rows : sent'[d] = delivery'[d].attempts + uncounted'[d] + Marking(d)'
                      /\ delivery'[d].attempts + Marking(d)' <= MaxSendAttempts
    <3>1. \A d \in Rows : delivery[d].attempts + uncounted'[d] = sent[d] /\ delivery[d].attempts <= MaxSendAttempts
                          /\ delivery[d].attempts \in Nat /\ uncounted'[d] \in Nat
      BY <1>6, <1>8, UncountedTyped DEF NotifyInv, CountOK
    <3>2. QED
      BY <3>1, <1>1, <1>5, <1>8
  <2>7. CountOK'
    BY <1>1, <1>2, <1>8, <2>1, <2>6, UncountedTyped DEF NotifyInv, CountOK
  <2>8. QED
    BY <2>3, <2>4, <2>5, <2>7 DEF NotifyInv
<1>9. QED
  BY <1>3, <1>7, <1>8 DEF RetryMark


-----------------------------------------------------------------------------
(* Notifications: endpoints *)

\* Endpoints change; rows, events and sweeps do not.
LEMMA EndpointEditKeepsInv ==
  ASSUME NotifyInv, notifySame, countsSame, UNCHANGED <<delivery, issued>>, notifyAsked' \in 0 .. MaxNotifyRequests,
         endpoint' \in [Endpoint -> NotificationEndpoint],
         editing' \in [pc : {"idle", "write"}, id : Endpoint, row : NotificationEndpoint],
         editing'.pc = "write" => editing'.row.live /\ editing'.row.used,
         \A e \in Endpoint : (endpoint'[e].live => endpoint'[e].used) /\ (endpoint[e].used => endpoint'[e].used),
         \A e \in Endpoint : endpoint[e].used /\ endpoint'[e].live => endpoint[e].live
  PROVE  NotifyInv'
<1>1. Rows' = Rows /\ UNCHANGED <<pendingEvents, handledEvents, notifying, listed, retrying, unrecorded, sent, uncounted, notifyFaults>>
  BY DEF notifySame, busSame, countsSame, Rows
<1>2. NotifyTypeOK'
  BY <1>1 DEF NotifyInv, NotifyTypeOK
<1>3. listed \in [NotifyEvent -> SUBSET Endpoint] /\ handledEvents \subseteq NotifyEvent /\ notifying.event \in NotifyEvent
      /\ \A v \in NotifyEvent : \A e \in listed[v] : e \in Endpoint /\ endpoint[e].used
  BY DEF NotifyInv, NotifyTypeOK, EndpointsOK
<1>4. \A v \in NotifyEvent : \A e \in listed[v] : Accounted(e, v) => Accounted(e, v)'
  BY <1>1, <1>3 DEF Accounted, HasDelivery
<1>5. HandlerOK'
  <2>1. \A e \in listed[notifying.event] : Accounted(e, notifying.event) => Accounted(e, notifying.event)'
    BY <1>3, <1>4, <1>1 DEF Accounted, HasDelivery
  <2>2. QED
    BY <2>1, <1>1 DEF NotifyInv, HandlerOK
<1>6. HandledOK'
  BY <1>1, <1>3, <1>4 DEF NotifyInv, HandledOK
<1>7. SweepOK' /\ CountOK'
  BY <1>1 DEF NotifyInv, SweepOK, CountOK, Marking
<1>8. EndpointsOK'
  BY <1>1, <1>3 DEF NotifyInv, EndpointsOK
<1>9. QED
  BY <1>2, <1>5, <1>6, <1>7, <1>8 DEF NotifyInv

LEMMA NotifyAskedBound ==
  ASSUME NotifyInv, NEW u, authorizeNotifications(u) PROVE notifyAsked' \in 0 .. MaxNotifyRequests
BY NotifyBounds DEF NotifyInv, NotifyTypeOK, authorizeNotifications

LEMMA CreateEndpointKeepsInv ==
  ASSUME NotifyInv, NEW u, NEW e \in Endpoint, createEndpoint(u, e) PROVE NotifyInv'
<1>1. PICK on \in BOOLEAN, events \in SUBSET NotifyEvent : endpoint' = [endpoint EXCEPT ![e] = LiveEndpoint(on, events)]
  BY DEF createEndpoint, CreateEndpoint
<1>2. LiveEndpoint(on, events) \in NotificationEndpoint /\ LiveEndpoint(on, events).live /\ LiveEndpoint(on, events).used
  BY DEF LiveEndpoint, NotificationEndpoint
<1>3. endpoint \in [Endpoint -> NotificationEndpoint] /\ ~endpoint[e].used /\ notifySame /\ countsSame /\ UNCHANGED <<delivery, issued, editing>>
      /\ notifyAsked' \in 0 .. MaxNotifyRequests
  BY NotifyAskedBound DEF createEndpoint, CreateEndpoint, NotifyInv, NotifyTypeOK
<1>4. \A f \in Endpoint : endpoint'[f] = IF f = e THEN LiveEndpoint(on, events) ELSE endpoint[f]
  BY <1>1, <1>3
<1>5. endpoint' \in [Endpoint -> NotificationEndpoint]
  BY <1>1, <1>2, <1>3
<1>6. \A f \in Endpoint : (endpoint'[f].live => endpoint'[f].used) /\ (endpoint[f].used => endpoint'[f].used)
  BY <1>2, <1>4 DEF NotifyInv, EndpointsOK
<1>7. \A f \in Endpoint : endpoint[f].used /\ endpoint'[f].live => endpoint[f].live
  BY <1>3, <1>4
<1>8. editing' \in [pc : {"idle", "write"}, id : Endpoint, row : NotificationEndpoint]
      /\ (editing'.pc = "write" => editing'.row.live /\ editing'.row.used)
  BY <1>3 DEF NotifyInv, NotifyTypeOK, EndpointsOK
<1>9. QED
  BY <1>3, <1>5, <1>6, <1>7, <1>8, EndpointEditKeepsInv

LEMMA UpdateEndpointKeepsInv ==
  ASSUME NotifyInv, NEW u, NEW e \in Endpoint, updateEndpoint(u, e) PROVE NotifyInv'
<1>1. PICK on \in BOOLEAN, events \in SUBSET NotifyEvent :
        editing' = [pc |-> "write", id |-> e, row |-> [endpoint[e] EXCEPT !.enabled = on, !.events = events]]
  BY DEF updateEndpoint, UpdateEndpoint
<1>2. endpoint \in [Endpoint -> NotificationEndpoint] /\ endpoint[e].live /\ endpoint[e].used /\ notifySame /\ countsSame
      /\ UNCHANGED <<delivery, issued, endpoint>> /\ notifyAsked' \in 0 .. MaxNotifyRequests
  BY NotifyAskedBound DEF updateEndpoint, UpdateEndpoint, NotifyInv, NotifyTypeOK, EndpointsOK
<1>3. [endpoint[e] EXCEPT !.enabled = on, !.events = events] \in NotificationEndpoint
      /\ [endpoint[e] EXCEPT !.enabled = on, !.events = events].live /\ [endpoint[e] EXCEPT !.enabled = on, !.events = events].used
  BY <1>2 DEF NotificationEndpoint
<1>4. editing' \in [pc : {"idle", "write"}, id : Endpoint, row : NotificationEndpoint] /\ editing'.row.live /\ editing'.row.used
  BY <1>1, <1>3
<1>5. \A f \in Endpoint : (endpoint'[f].live => endpoint'[f].used) /\ (endpoint[f].used => endpoint'[f].used)
  BY <1>2 DEF NotifyInv, EndpointsOK
<1>6. QED
  BY <1>2, <1>4, <1>5, EndpointEditKeepsInv

LEMMA UpdateEndpointRowKeepsInv ==
  ASSUME NotifyInv, UpdateEndpointRow PROVE NotifyInv'
<1>1. editing.pc = "write" /\ editing' = EditIdle /\ notifySame /\ countsSame /\ UNCHANGED <<delivery, issued, notifyAsked>>
      /\ endpoint' = IF endpoint[editing.id].live THEN [endpoint EXCEPT ![editing.id] = editing.row] ELSE endpoint
  BY DEF UpdateEndpointRow
<1>2. endpoint \in [Endpoint -> NotificationEndpoint] /\ editing.id \in Endpoint /\ editing.row \in NotificationEndpoint
      /\ editing.row.live /\ editing.row.used
  BY <1>1 DEF NotifyInv, NotifyTypeOK, EndpointsOK
<1>3. endpoint' \in [Endpoint -> NotificationEndpoint]
  BY <1>1, <1>2
<1>4. \A f \in Endpoint : endpoint'[f] = IF f = editing.id /\ endpoint[f].live THEN editing.row ELSE endpoint[f]
  BY <1>1, <1>2
<1>5. \A f \in Endpoint : (endpoint'[f].live => endpoint'[f].used) /\ (endpoint[f].used => endpoint'[f].used)
  BY <1>2, <1>4 DEF NotifyInv, EndpointsOK
<1>6. \A f \in Endpoint : endpoint[f].used /\ endpoint'[f].live => endpoint[f].live
  BY <1>4
<1>7. editing'.pc = "write" => editing'.row.live /\ editing'.row.used
  BY <1>1 DEF EditIdle
<1>8. notifyAsked' \in 0 .. MaxNotifyRequests
  BY <1>1 DEF NotifyInv, NotifyTypeOK
<1>9. QED
  BY <1>1, <1>3, <1>5, <1>6, <1>7, <1>8, NotifyIdleTyped, EndpointEditKeepsInv

LEMMA DeleteEndpointKeepsInv ==
  ASSUME NotifyInv, NEW u, NEW e \in Endpoint, deleteEndpoint(u, e) PROVE NotifyInv'
<1> DEFINE kept == {d \in Rows : delivery[d].to # e}
<1>1. endpoint[e].live /\ endpoint' = [endpoint EXCEPT ![e].live = FALSE] /\ notifySame /\ countsSame /\ UNCHANGED <<issued, editing>>
      /\ delivery' = [d \in kept |-> delivery[d]] /\ notifyAsked' \in 0 .. MaxNotifyRequests
  BY NotifyAskedBound DEF deleteEndpoint, DeleteEndpoint
<1>2. endpoint \in [Endpoint -> NotificationEndpoint] /\ delivery \in [Rows -> NotificationDelivery] /\ Rows \subseteq 1 .. issued
  BY DEF NotifyInv, NotifyTypeOK
<1>3. Rows' = kept /\ delivery' \in [Rows' -> NotificationDelivery] /\ \A d \in Rows' : d \in Rows /\ delivery'[d] = delivery[d]
  BY <1>1, <1>2 DEF Rows
<1>4. endpoint' \in [Endpoint -> NotificationEndpoint] /\ ~endpoint'[e].live /\ endpoint'[e].used = endpoint[e].used
      /\ \A f \in Endpoint \ {e} : endpoint'[f] = endpoint[f]
  BY <1>1, <1>2 DEF NotificationEndpoint
<1>5. UNCHANGED <<pendingEvents, handledEvents, notifying, listed, retrying, unrecorded, sent, uncounted, notifyFaults>>
  BY <1>1 DEF notifySame, busSame, countsSame
<1>6. NotifyTypeOK'
  BY <1>1, <1>2, <1>3, <1>4, <1>5 DEF NotifyInv, NotifyTypeOK
<1>7. \A f \in Endpoint : \A v : Accounted(f, v) => Accounted(f, v)'
  <2>1. SUFFICES ASSUME NEW f \in Endpoint, NEW v, Accounted(f, v), endpoint'[f].live, <<f, v>> \notin unrecorded PROVE HasDelivery(f, v)'
    BY <1>5 DEF Accounted
  <2>2. f # e
    BY <2>1, <1>4
  <2>3. HasDelivery(f, v)
    BY <2>1, <2>2, <1>4 DEF Accounted
  <2>4. QED
    BY <2>2, <2>3, <1>3 DEF HasDelivery
<1> HIDE DEF kept
<1>8. listed \in [NotifyEvent -> SUBSET Endpoint] /\ handledEvents \subseteq NotifyEvent /\ notifying.event \in NotifyEvent
  BY DEF NotifyInv, NotifyTypeOK
<1>9. HandlerOK'
  <2>1. \A f \in listed[notifying.event] : Accounted(f, notifying.event) => Accounted(f, notifying.event)'
    BY <1>5, <1>7, <1>8 DEF Accounted, HasDelivery
  <2>2. QED
    BY <2>1, <1>5, <1>8 DEF NotifyInv, HandlerOK
<1>10. HandledOK'
  BY <1>5, <1>7, <1>8 DEF NotifyInv, HandledOK
<1>11. SweepOK' /\ CountOK'
  BY <1>1, <1>3, <1>5 DEF NotifyInv, SweepOK, CountOK, Marking
<1>12. EndpointsOK'
  BY <1>1, <1>4, <1>5, <1>8 DEF NotifyInv, EndpointsOK
<1>13. QED
  BY <1>6, <1>9, <1>10, <1>11, <1>12 DEF NotifyInv

LEMMA TestEndpointKeepsInv ==
  ASSUME NotifyInv, NEW u, NEW e \in Endpoint, testEndpoint(u, e) PROVE NotifyInv'
<1>1. PICK status \in Send : InsertDelivery([to |-> e, event |-> "notification.test", status |-> status, attempts |-> 1])
  BY DEF testEndpoint, TestEndpoint
<1> DEFINE row == [to |-> e, event |-> "notification.test", status |-> status, attempts |-> 1]
<1>2. row \in NotificationDelivery /\ row.attempts = 1
  BY NotifyBounds DEF NotificationDelivery, Send
<1>3. InsertDelivery(row)
  BY <1>1
<1>4. notifySame /\ endpointsSame /\ notifyAsked' \in 0 .. MaxNotifyRequests
  BY NotifyAskedBound DEF testEndpoint, TestEndpoint
<1> HIDE DEF row
<1>5. /\ issued' \in 0 .. MaxDeliveries /\ Rows' \subseteq 1 .. issued'
      /\ delivery' \in [Rows' -> NotificationDelivery] /\ RowsGrow
  BY <1>2, <1>3, InsertRows
<1>6. UNCHANGED <<pendingEvents, handledEvents, notifying, listed, retrying, unrecorded, notifyFaults>>
  BY <1>4 DEF notifySame, busSame
<1>7. /\ SweepOK' /\ CountOK' /\ retrying' \in Sweep(issued')
      /\ sent' \in [1 .. MaxDeliveries -> Nat] /\ uncounted' = uncounted
  BY <1>2, <1>3, <1>6, InsertKeepsSweep
<1>8. NotifyTypeOK'
  BY <1>4, <1>5, <1>6, <1>7 DEF NotifyInv, NotifyTypeOK, endpointsSame, Sweep
<1>a. \A f, v : Accounted(f, v) => Accounted(f, v)'
  BY <1>4, <1>5, <1>6, GrowKeepsAccounts
<1>9. HandlerOK'
  <2>1. \A f : Accounted(f, notifying.event) => Accounted(f, notifying.event)'
    BY <1>a, <1>6 DEF Accounted, HasDelivery
  <2>2. QED
    BY <2>1, <1>6 DEF NotifyInv, HandlerOK
<1>10. HandledOK'
  BY <1>a, <1>6 DEF NotifyInv, HandledOK
<1>11. EndpointsOK'
  BY <1>4, <1>6 DEF NotifyInv, EndpointsOK, endpointsSame
<1>12. QED
  BY <1>7, <1>8, <1>9, <1>10, <1>11 DEF NotifyInv

LEMMA NotifyInvStep == ASSUME NotifyInv, [NotifyNext]_notifyVars PROVE NotifyInv'
<1>1. CASE NotifyNext
  BY <1>1, PublishKeepsInv, HandleKeepsInv, DeliverKeepsInv, HandleReturnsKeepsInv, HandlerCrashesKeepsInv,
     RetryFailedKeepsInv, RetrySendKeepsInv, RetryMarkKeepsInv, CreateEndpointKeepsInv, UpdateEndpointKeepsInv,
     UpdateEndpointRowKeepsInv, DeleteEndpointKeepsInv, TestEndpointKeepsInv DEF NotifyNext, HandlerStep
<1>2. CASE UNCHANGED notifyVars
  <2>1. Rows' = Rows
    BY <1>2 DEF notifyVars, Rows
  <2>2. NotifyTypeOK' /\ SweepOK' /\ EndpointsOK' /\ CountOK'
    BY <1>2, <2>1 DEF notifyVars, NotifyInv, NotifyTypeOK, SweepOK, EndpointsOK, CountOK, Marking
  <2>3. HandlerOK' /\ HandledOK'
    BY <1>2, <2>1 DEF notifyVars, NotifyInv, HandlerOK, HandledOK, Accounted, HasDelivery
  <2>4. QED
    BY <2>2, <2>3 DEF NotifyInv
<1>3. QED
  BY <1>1, <1>2

LEMMA NotifyInvGate == ASSUME NotifyInv PROVE NotifyTypeOK /\ HandledIsRecorded /\ AttemptsCapped
<1>1. ASSUME NotifyInv, NEW d \in Rows PROVE sent[d] <= MaxSendAttempts + uncounted[d]
  <2>1. d \in 1 .. MaxDeliveries /\ uncounted[d] \in Nat /\ delivery[d].attempts \in Nat /\ MaxSendAttempts \in Nat
    BY <1>1, NotifyBounds DEF NotifyInv, NotifyTypeOK, NotificationDelivery
  <2>2. sent[d] = delivery[d].attempts + uncounted[d] + Marking(d) /\ delivery[d].attempts + Marking(d) <= MaxSendAttempts
        /\ Marking(d) \in {0, 1}
    BY <1>1 DEF NotifyInv, CountOK, Marking
  <2>3. QED
    BY <2>1, <2>2
<1>2. QED
  BY <1>1 DEF NotifyInv, HandledOK, HandledIsRecorded, Accounted, HasDelivery, AttemptsCapped

-----------------------------------------------------------------------------
(* The workflows together *)

WorkflowsInv == ZoneInv /\ PolicyInv /\ DriftInv /\ ScaffoldInv /\ SetupInv /\ NotifyInv

LEMMA WorkflowsInvInit == ASSUME WorkflowsInit PROVE WorkflowsInv
BY ZoneInvInit, PolicyInvInit, DriftInvInit, ScaffoldInvInit, SetupInvInit, NotifyInvInit DEF WorkflowsInit, WorkflowsInv

\* A step of the workflows is a step of each component, or leaves it as it is.
LEMMA WorkflowsStepOfEach ==
  ASSUME [WorkflowsNext]_workflowVars
  PROVE  /\ [ZoneNext]_zoneVars /\ [PolicyNext]_policyVars /\ [DriftNext]_driftVars /\ [ScaffoldNext]_scaffoldVars
         /\ [SetupNext]_setupVars /\ [NotifyNext]_notifyVars
<1>1. CASE WorkflowsNext
  BY <1>1 DEF WorkflowsNext
<1>2. CASE UNCHANGED workflowVars
  BY <1>2 DEF workflowVars
<1>3. QED
  BY <1>1, <1>2

LEMMA WorkflowsInvStep == ASSUME WorkflowsInv, [WorkflowsNext]_workflowVars PROVE WorkflowsInv'
BY WorkflowsStepOfEach, ZoneInvStep, PolicyInvStep, DriftInvStep, ScaffoldInvStep, SetupInvStep, NotifyInvStep DEF WorkflowsInv

\* The inductive invariant of the workflows holds in every behaviour.
THEOREM WorkflowsInvariant == WorkflowsSpec => []WorkflowsInv
<1>1. WorkflowsInit => WorkflowsInv
  BY WorkflowsInvInit
<1>2. WorkflowsInv /\ [WorkflowsNext]_workflowVars => WorkflowsInv'
  BY WorkflowsInvStep
<1>3. QED
  BY <1>1, <1>2, PTL DEF WorkflowsSpec

\* No resume, redelivery or concurrent call of the zone factory tears a zone down that nobody
\* approved, and no evaluation of a policy passes a denial without an exemption that was valid.
THEOREM WorkflowsGatesHold == WorkflowsSpec => []GatesHold
<1>1. WorkflowsInv => GatesHold
  BY ZoneInvGate, PolicyInvGate DEF WorkflowsInv, GatesHold
<1>2. QED
  BY <1>1, WorkflowsInvariant, PTL

\* What a workflow reports is done: completed scaffold runs, created tenants, servers that are
\* up and handled events are what their rows say, and every component is well typed.
THEOREM WorkflowsReportedIsDone == WorkflowsSpec => []ReportedIsDone
<1>1. WorkflowsInv => ReportedIsDone
  BY ZoneInvGate, PolicyInvGate, ScaffoldInvGate, SetupInvGate, NotifyInvGate
     DEF WorkflowsInv, ReportedIsDone, WorkflowsTypeOK, DriftInv
<1>2. QED
  BY <1>1, WorkflowsInvariant, PTL

\* An exemption that was decided stays as decided, however many administrators had read it as
\* pending: what DecideExemption writes, it writes where the row is still pending.
THEOREM WorkflowsExemptionFinal == WorkflowsSpec => ExemptionFinal
<1>1. WorkflowsInv /\ [WorkflowsNext]_workflowVars => [DecidedStays]_policyVars
  BY WorkflowsStepOfEach, PolicyStepDecides DEF WorkflowsInv
<1>2. QED
  BY <1>1, WorkflowsInvariant, PTL DEF WorkflowsSpec, ExemptionFinal, DecidedStays
=============================================================================
