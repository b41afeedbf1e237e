-------------------------- MODULE ServicesProofs --------------------------
(***************************************************************************)
(* Proofs about the services: an inductive invariant of each component,    *)
(* for every value of the constants, and from them together the four       *)
(* invariants that the run of MCServices checks.  Deployments first, then  *)
(* repositories, addons, extensions, the extension proxy, identity and     *)
(* user git connections; the last section joins them.                      *)
(***************************************************************************)
EXTENDS MCServices, TLAPS

-----------------------------------------------------------------------------
(* Deploy: the inductive invariant *)

WriteOp == {"create", "upgrade", "update"}

\* Somebody approved the request, and it may have been handled since.
Decided(a) == approval[a] # NoContent /\ approval[a].state \in {"approved", "handled"}

\* A decided request of instance i asked for this content.
Approved(i, content) ==
    \E a \in Approval :
        /\ Decided(a) /\ approval[a].inst = i /\ approval[a].content.spec = content.spec
        /\ approval[a].action = "update" \/ approval[a].content.version = content.version

\* What the steps of a task still to come rely on: an approval behind a gate,
\* the manifests before the registration, the registration before the row, and
\* a pull request for the instance the row will name it in.
WriteOK(k) ==
    /\ gated => Approved(k.inst, k.content)
    /\ k.pc = "enqueue" => k.inst \in committed
    /\ k.pc = "record" /\ k.pr = NoPR => registration[k.inst] # "absent"
    /\ k.pr # NoPR => pull[k.pr] # NoContent /\ pull[k.pr].inst = k.inst
FinalizeOK(k) ==
    /\ k.inst \in committed
    /\ k.pc = "record" => registration[k.inst] # "absent"
RequestOK(k) ==
    /\ k \in DeployRequest
    /\ k.op \in WriteOp => WriteOK(k)
    /\ k.op = "finalize" => FinalizeOK(k)
    /\ k.op # "finalize" /\ k.approval # NoApproval => Decided(k.approval)
TasksOK == \A t \in Task : task[t] # Idle => RequestOK(task[t])

\* The specs of existing instances are what updates were asked for.
UpdatesExist == \A a \in Approval : approval[a] # NoContent /\ approval[a].action = "update" => approval[a].existing

\* The instance's pull request was opened for it, a merged one is on the base
\* branch, and only merges are announced.
RowsHavePulls ==
    \A i \in Deployed : instance[i].pr # NoPR => pull[instance[i].pr] # NoContent /\ pull[instance[i].pr].inst = i
PullsApproved == gated => \A p \in PullRequest : pull[p] # NoContent => Approved(pull[p].inst, pull[p].content)
MergedIsCommitted == \A p \in PullRequest : pull[p] # NoContent /\ pull[p].merged => pull[p].inst \in committed
AnnouncedIsMerged == \A p \in merges : pull[p] # NoContent /\ pull[p].merged

\* Everything but the tasks, the faults and the requests.
StateTyped ==
    /\ gated \in BOOLEAN /\ commitPolicy \in {"direct", "pull_request"}
    /\ instance \in [Inst -> InstanceRow \cup {NoContent}]
    /\ files \in [Inst -> Content \cup {NoContent}] /\ committed \subseteq Inst
    /\ pull \in [PullRequest -> PullRow \cup {NoContent}] /\ merges \subseteq PullRequest
    /\ registration \in [Inst -> CommandStatus] /\ removal \in [Inst -> CommandStatus]
    /\ app \subseteq Inst
    /\ approval \in [Approval -> ApprovalRow \cup {NoContent}]
BoundsTyped == asked \in 0 .. MaxDeployRequests /\ faults \in 0 .. MaxFaults
TasksTyped == task \in [Task -> DeployRequest \cup {Idle}]

\* A row that waits for no pull request has a registration, and what was registered
\* is on the cluster unless somebody asked to remove it.
RegistrationQueued == \A i \in Deployed : instance[i].pr = NoPR => registration[i] # "absent"
AppsStay == \A i \in Inst : registration[i] = "acked" /\ removal[i] = "absent" => i \in app

DeployInv ==
    /\ StateTyped /\ TasksTyped /\ BoundsTyped /\ TasksOK /\ UpdatesExist
    /\ RowsHavePulls /\ PullsApproved /\ MergedIsCommitted /\ AnnouncedIsMerged
    /\ WrittenIsApproved /\ RegisteredIsCommitted /\ RegistrationQueued /\ AppsStay
-----------------------------------------------------------------------------
(* Deploy: the steps *)

\* An id that is given out is one that is free.
LEMMA NextIdIsFree ==
  ASSUME NEW f, NEW k \in NextId(f)
  PROVE  k \in DOMAIN f /\ f[k] = NoContent
BY DEF NextId

\* The content of a row.
LEMMA RowContent ==
  ASSUME NEW r \in InstanceRow
  PROVE  [version |-> r.version, spec |-> r.spec] \in Content
BY DEF InstanceRow, Content

\* A request that is accepted and what it asks an approval for.
AcceptedRequest(k) ==
    /\ k \in DeployRequest /\ k.op # "finalize" /\ k.pc = "git" /\ k.approval = NoApproval
    /\ k.op \in WriteOp => k.pr = NoPR
AcceptedAsk(r) ==
    /\ r \in ApprovalRow /\ r.state = "pending"
    /\ r.action = "update" => r.existing
Accepts(t) == \E k, r : AcceptedRequest(k) /\ AcceptedAsk(r) /\ Gate(t, k, r)

\* The tasks that write and the one that removes are requests.
LEMMA RequestsTyped ==
  ASSUME NEW i \in Inst, NEW content \in Content, NEW a \in Approval \cup {NoApproval}
  PROVE  /\ \A op \in WriteOp : Writing(op, i, content, a) \in DeployRequest
         /\ Removing(i, a) \in DeployRequest
BY DEF Writing, Removing, DeployRequest, WriteOp

\* What is asked for is a request for approval.
LEMMA AsksTyped ==
  ASSUME NEW i \in Inst, NEW content \in Content, NEW action \in {"deploy", "update", "delete"},
         NEW existing \in BOOLEAN, action = "update" => existing
  PROVE  AcceptedAsk(Asking(action, i, existing, content))
BY DEF AcceptedAsk, Asking, ApprovalRow

\* Every handler loads and gates.
LEMMA RoutesAccept ==
  ASSUME StateTyped, NEW t \in Task, DeployRoutes(t)
  PROVE  Accepts(t)
<1>1. \A i \in Deployed : i \in Inst /\ instance[i] \in InstanceRow /\ ContentOf(i) \in Content
  BY RowContent DEF Deployed, StateTyped, ContentOf
<1>2. \A c \in Content : /\ \A v \in Version : [c EXCEPT !.version = v] \in Content
                        /\ \A x \in Spec : [c EXCEPT !.spec = x] \in Content
  BY DEF Content
<1>3. ASSUME NEW i \in Inst, NEW content \in Content, NEW op \in WriteOp,
             NEW action \in {"deploy", "update"}, NEW existing \in BOOLEAN, action = "update" => existing,
             Gate(t, Writing(op, i, content, NoApproval), Asking(action, i, existing, content))
      PROVE  Accepts(t)
  <2>1. AcceptedRequest(Writing(op, i, content, NoApproval))
    BY RequestsTyped DEF AcceptedRequest, Writing, WriteOp
  <2>2. AcceptedAsk(Asking(action, i, existing, content))
    BY <1>3, AsksTyped
  <2>3. QED
    BY <1>3, <2>1, <2>2 DEF Accepts
<1>4. ASSUME NEW i \in Inst, NEW content \in Content, DeployItem(t, i, content)
      PROVE  Accepts(t)
  BY <1>3, <1>4 DEF DeployItem, WriteOp
<1>5. ASSUME NEW i \in Inst, NEW v \in Version, revert(t, i, v)
      PROVE  Accepts(t)
  BY <1>1, <1>2, <1>3, <1>5 DEF revert, WriteOp
<1>6. ASSUME NEW i \in Inst, NEW x \in Spec, UpdateSpec(t, i, x)
      PROVE  Accepts(t)
  BY <1>1, <1>2, <1>3, <1>6 DEF UpdateSpec, WriteOp
<1>7. ASSUME NEW i \in Inst, DeleteInstance(t, i)
      PROVE  Accepts(t)
  <2>1. AcceptedRequest(Removing(i, NoApproval))
    BY RequestsTyped, <1>1, <1>7 DEF AcceptedRequest, Removing, WriteOp, DeleteInstance
  <2>2. AcceptedAsk(Asking("delete", i, TRUE, ContentOf(i)))
    BY <1>1, <1>7, AsksTyped DEF DeleteInstance
  <2>3. QED
    BY <1>7, <2>1, <2>2 DEF Accepts, DeleteInstance
<1>8. QED
  BY <1>4, <1>5, <1>6, <1>7 DEF DeployRoutes, httpDeploy, httpUpgrade, httpUpdateInstance, httpDeleteInstance,
     httpRollback, UpgradeInstance, Rollback

\* Which steps change which part of the state.
Ungated(k, t) == ~gated /\ AcceptedRequest(k) /\ task' = [task EXCEPT ![t] = k]
RecordStep(t) == CreateInstance(t) \/ RecordChange(t) \/ EraseInstance(t)
InstanceFrame == UNCHANGED instance \/ \E t \in Task : RecordStep(t) \/ markInstancePRMerged(t)
FilesFrame ==
    \/ UNCHANGED <<files, committed>>
    \/ \E t \in Task : CommitFiles(t) \/ DeleteFiles(t)
    \/ \E p \in PullRequest : MergePR(p)
PullFrame == UNCHANGED pull \/ (\E t \in Task : OpenPR(t)) \/ \E p \in PullRequest : MergePR(p)
MergesFrame ==
    \/ UNCHANGED merges
    \/ \E t \in Task : markInstancePRMerged(t) \/ \E p \in PullRequest : FinalizePRMerge(t, p)
    \/ \E p \in PullRequest : MergePR(p)
QueueFrame ==
    \/ UNCHANGED clusterSideVars
    \/ \E t \in Task : enqueueAppRegistration(t) \/ enqueueAppDeletion(t)
    \/ \E i \in Inst : AgentRegisters(i) \/ AgentRemoves(i)
ApprovalFrame ==
    \/ UNCHANGED approval
    \/ \E t \in Task : Accepts(t) \/ RecordStep(t) \/ \E a \in Approval : HandleDecided(t, a)
    \/ \E a \in Approval : DecideDeploy(a)
TaskFrame ==
    \/ UNCHANGED task
    \/ \E t \in Task :
          \/ task' = [task EXCEPT ![t] = Idle]
          \/ \E k : Ungated(k, t)
          \/ \E a \in Approval : HandleDecided(t, a) /\ task' = [task EXCEPT ![t] = ResumeTask(a)]
          \/ \E p \in PullRequest : FinalizePRMerge(t, p)
          \/ CommitFiles(t) \/ OpenPR(t) \/ DeleteFiles(t)
          \/ enqueueAppRegistration(t) \/ enqueueAppDeletion(t)
Frames ==
    /\ UNCHANGED worldVars /\ InstanceFrame /\ FilesFrame /\ PullFrame /\ MergesFrame /\ QueueFrame
    /\ ApprovalFrame /\ TaskFrame

\* Every step is one of those.
LEMMA StepFrames ==
  ASSUME StateTyped, [DeployNext]_deployVars
  PROVE  Frames
<1> USE DEF worldVars, repoSideVars, clusterSideVars, Frames, InstanceFrame, FilesFrame, PullFrame, MergesFrame,
        QueueFrame, ApprovalFrame, TaskFrame
<1>1. CASE UNCHANGED deployVars
  BY <1>1 DEF deployVars
<1>2. ASSUME NEW t \in Task, DeployRoutes(t)
      PROVE  Frames
  <2>1. PICK k, r : AcceptedRequest(k) /\ AcceptedAsk(r) /\ Gate(t, k, r)
    BY <1>2, RoutesAccept DEF Accepts
  <2>2. CASE gated
    BY <2>1, <2>2 DEF Gate, Accepts
  <2>3. CASE ~gated
    BY <2>1, <2>3 DEF Gate, Ungated
  <2>4. QED
    BY <2>2, <2>3
<1>3. ASSUME NEW t \in Task, RecordStep(t)
      PROVE  Frames
  <2>1. CASE CreateInstance(t)
    BY <1>3, <2>1 DEF CreateInstance
  <2>2. CASE RecordChange(t)
    BY <1>3, <2>2 DEF RecordChange
  <2>3. CASE EraseInstance(t)
    BY <1>3, <2>3 DEF EraseInstance
  <2>4. QED
    BY <1>3, <2>1, <2>2, <2>3 DEF RecordStep
<1>4. ASSUME NEW t \in Task, CommitFiles(t) \/ DeleteFiles(t)
      PROVE  Frames
  <2>1. UNCHANGED <<worldVars, instance, pull, merges, clusterSideVars, approval>>
    BY <1>4 DEF CommitFiles, DeleteFiles
  <2>2. QED
    BY <1>4, <2>1
<1>5. ASSUME NEW t \in Task, OpenPR(t)
      PROVE  Frames
  <2>1. UNCHANGED <<worldVars, instance, files, committed, merges, clusterSideVars, approval>>
    BY <1>5 DEF OpenPR
  <2>2. QED
    BY <1>5, <2>1
<1>6. ASSUME NEW t \in Task, enqueueAppRegistration(t) \/ enqueueAppDeletion(t)
      PROVE  Frames
  <2>1. UNCHANGED <<worldVars, instance, repoSideVars, merges, approval>>
    BY <1>6 DEF enqueueAppRegistration, enqueueAppDeletion
  <2>2. QED
    BY <1>6, <2>1
<1>7. ASSUME NEW t \in Task, markInstancePRMerged(t)
      PROVE  Frames
  <2>1. UNCHANGED <<worldVars, repoSideVars, clusterSideVars, approval>> /\ task' = [task EXCEPT ![t] = Idle]
    BY <1>7 DEF markInstancePRMerged
  <2>2. QED
    BY <1>7, <2>1
<1>8. ASSUME NEW t \in Task, TaskFails(t)
      PROVE  Frames
  BY <1>8 DEF TaskFails
<1>9. ASSUME NEW t \in Task, NEW a \in Approval, HandleDecided(t, a)
      PROVE  Frames
  <2>1. UNCHANGED <<worldVars, instance, repoSideVars, merges, clusterSideVars>>
    BY <1>9 DEF HandleDecided
  <2>2. UNCHANGED task \/ task' = [task EXCEPT ![t] = ResumeTask(a)]
    BY <1>9 DEF HandleDecided
  <2>3. QED
    BY <1>9, <2>1, <2>2
<1>10. ASSUME NEW t \in Task, NEW p \in PullRequest, FinalizePRMerge(t, p)
       PROVE  Frames
  <2>1. UNCHANGED <<worldVars, instance, repoSideVars, clusterSideVars, approval>>
    BY <1>10 DEF FinalizePRMerge
  <2>2. QED
    BY <1>10, <2>1
<1>11. ASSUME NEW a \in Approval, DecideDeploy(a)
       PROVE  Frames
  <2>1. UNCHANGED <<worldVars, instance, repoSideVars, merges, clusterSideVars, task>>
    BY <1>11 DEF DecideDeploy
  <2>2. QED
    BY <1>11, <2>1
<1>12. ASSUME NEW p \in PullRequest, MergePR(p)
       PROVE  Frames
  <2>1. UNCHANGED <<worldVars, instance, clusterSideVars, approval, task>>
    BY <1>12 DEF MergePR
  <2>2. QED
    BY <1>12, <2>1
<1>13. ASSUME NEW i \in Inst, AgentRegisters(i) \/ AgentRemoves(i)
       PROVE  Frames
  <2>1. UNCHANGED <<worldVars, instance, repoSideVars, merges, approval, task>>
    BY <1>13 DEF AgentRegisters, AgentRemoves
  <2>2. QED
    BY <1>13, <2>1
<1>14. ASSUME NEW t \in Task, TaskStep(t)
       PROVE  Frames
  BY <1>3, <1>4, <1>5, <1>6, <1>7, <1>14 DEF TaskStep, RecordStep
<1>15. QED
  BY <1>1, <1>2, <1>8, <1>9, <1>10, <1>11, <1>12, <1>13, <1>14 DEF DeployNext

-----------------------------------------------------------------------------
(* Deploy: what stays *)

\* Commits, registrations, pull requests and decisions are not taken back.
ApprovalsStay ==
    \A a \in Approval : approval[a] # NoContent =>
        /\ approval'[a] # NoContent
        /\ approval'[a].inst = approval[a].inst /\ approval'[a].action = approval[a].action
        /\ approval'[a].content = approval[a].content /\ approval'[a].existing = approval[a].existing
        /\ Decided(a) => approval'[a].state \in {"approved", "handled"}
PullsStay ==
    \A p \in PullRequest : pull[p] # NoContent =>
        /\ pull'[p] # NoContent
        /\ pull'[p].inst = pull[p].inst /\ pull'[p].content = pull[p].content
        /\ pull[p].merged => pull'[p].merged
QueueStays == \A i \in Inst : registration[i] # "absent" => registration'[i] # "absent"
Grows == gated' = gated /\ committed \subseteq committed' /\ QueueStays /\ PullsStay /\ ApprovalsStay

\* What is known of a task.
LEMMA TaskRecord ==
  ASSUME TasksTyped, TasksOK, NEW t \in Task, task[t] # Idle
  PROVE  /\ task[t] \in DeployRequest /\ task[t].inst \in Inst /\ RequestOK(task[t])
         /\ Write(t) => task[t].content \in Content /\ task[t].pr \in PullRequest \cup {NoPR} /\ WriteOK(task[t])
         /\ task[t].op = "finalize" => task[t].pr \in PullRequest /\ FinalizeOK(task[t])
         /\ task[t].op # "finalize" => task[t].approval \in Approval \cup {NoApproval}
BY DEF TasksOK, RequestOK, DeployRequest, Write, WriteOp

\* How the approvals change: a request is added, or one moves to another state.
ApprovalMoves ==
    \/ UNCHANGED approval
    \/ \E r : \E a \in Approval : /\ approval[a] = NoContent /\ AcceptedAsk(r)
                                  /\ approval' = [approval EXCEPT ![a] = r]
    \/ \E a \in Approval, state \in {"approved", "rejected", "handled"} :
          /\ approval[a] # NoContent /\ (Decided(a) => state = "handled")
          /\ approval' = [approval EXCEPT ![a].state = state]

\* The steps that change them do no more than that.
LEMMA ApprovalsMove ==
  ASSUME StateTyped, TasksTyped, TasksOK, ApprovalFrame
  PROVE  ApprovalMoves
<1>1. ASSUME NEW t \in Task, Accepts(t)
      PROVE  ApprovalMoves
  <2>1. PICK k, r : AcceptedRequest(k) /\ AcceptedAsk(r) /\ Gate(t, k, r)
    BY <1>1 DEF Accepts
  <2>2. UNCHANGED approval \/ \E a \in NextId(approval) : approval' = [approval EXCEPT ![a] = r]
    BY <2>1 DEF Gate
  <2>3. \A a \in NextId(approval) : a \in Approval /\ approval[a] = NoContent
    BY NextIdIsFree DEF StateTyped
  <2>4. QED
    BY <2>1, <2>2, <2>3 DEF ApprovalMoves
<1>2. ASSUME NEW t \in Task, RecordStep(t)
      PROVE  ApprovalMoves
  <2>1. task[t] # Idle
    BY <1>2 DEF RecordStep, CreateInstance, RecordChange, EraseInstance, At
  <2>2. UNCHANGED approval \/ Acknowledged(t)
    BY <1>2 DEF RecordStep, CreateInstance, RecordChange, EraseInstance
  <2>3. CASE task[t].op # "finalize" /\ task[t].approval # NoApproval
    <3>1. task[t].approval \in Approval /\ Decided(task[t].approval)
      BY <2>1, <2>3, TaskRecord DEF RequestOK
    <3>2. QED
      BY <2>2, <2>3, <3>1 DEF Acknowledged, ApprovalMoves, Decided
  <2>4. QED
    BY <2>2, <2>3 DEF Acknowledged, ApprovalMoves
<1>3. ASSUME NEW t \in Task, NEW a \in Approval, HandleDecided(t, a)
      PROVE  ApprovalMoves
  BY <1>3 DEF HandleDecided, ApprovalMoves, Decided
<1>4. ASSUME NEW a \in Approval, DecideDeploy(a)
      PROVE  ApprovalMoves
  BY <1>4 DEF DecideDeploy, ApprovalMoves, Decided
<1>5. QED
  BY <1>1, <1>2, <1>3, <1>4 DEF ApprovalFrame, ApprovalMoves

\* Approvals stay well typed, updates keep asking about what exists, and no
\* decision is taken back.
LEMMA ApprovalsKept ==
  ASSUME StateTyped, UpdatesExist, ApprovalMoves
  PROVE  /\ approval' \in [Approval -> ApprovalRow \cup {NoContent}]
         /\ ApprovalsStay /\ UpdatesExist'
<1>1. CASE UNCHANGED approval
  BY <1>1 DEF StateTyped, ApprovalsStay, UpdatesExist, Decided
<1>2. ASSUME NEW a \in Approval, NEW r, approval[a] = NoContent, AcceptedAsk(r),
             approval' = [approval EXCEPT ![a] = r]
      PROVE  /\ approval' \in [Approval -> ApprovalRow \cup {NoContent}]
             /\ ApprovalsStay /\ UpdatesExist'
  BY <1>2 DEF StateTyped, ApprovalsStay, UpdatesExist, Decided, AcceptedAsk
<1>3. ASSUME NEW a \in Approval, NEW state \in {"approved", "rejected", "handled"}, approval[a] # NoContent,
             Decided(a) => state = "handled", approval' = [approval EXCEPT ![a].state = state]
      PROVE  /\ approval' \in [Approval -> ApprovalRow \cup {NoContent}]
             /\ ApprovalsStay /\ UpdatesExist'
  <2> DEFINE r == [approval[a] EXCEPT !.state = state]
  <2>1. approval[a] \in ApprovalRow
    BY <1>3 DEF StateTyped
  <2>2. r \in ApprovalRow /\ r # NoContent
    BY <1>3, <2>1, AbsentAssumption DEF ApprovalRow
  <2>3. /\ r.inst = approval[a].inst /\ r.action = approval[a].action /\ r.content = approval[a].content
        /\ r.state = state
    BY <2>1 DEF ApprovalRow
  <2>4. r.existing = approval[a].existing
    BY <2>1 DEF ApprovalRow
  <2>5. approval' = [approval EXCEPT ![a] = r]
    BY <1>3
  <2> HIDE DEF r
  <2>6. approval' \in [Approval -> ApprovalRow \cup {NoContent}]
    BY <2>2, <2>5 DEF StateTyped
  <2>7. approval'[a] = r /\ \A b \in Approval : b # a => approval'[b] = approval[b]
    BY <2>5 DEF StateTyped
  <2>8. ApprovalsStay
    BY <1>3, <2>2, <2>3, <2>4, <2>7 DEF ApprovalsStay, Decided
  <2>9. UpdatesExist'
    BY <1>3, <2>3, <2>4, <2>7 DEF UpdatesExist
  <2>10. QED
    BY <2>6, <2>8, <2>9
<1>4. QED
  BY <1>1, <1>2, <1>3 DEF ApprovalMoves

\* Pull requests stay well typed, and are closed by a merge at most.
LEMMA PullsKept ==
  ASSUME StateTyped, TasksTyped, TasksOK, PullFrame
  PROVE  pull' \in [PullRequest -> PullRow \cup {NoContent}] /\ PullsStay
<1>1. CASE UNCHANGED pull
  BY <1>1 DEF StateTyped, PullsStay
<1>2. ASSUME NEW t \in Task, OpenPR(t)
      PROVE  pull' \in [PullRequest -> PullRow \cup {NoContent}] /\ PullsStay
  <2>1. task[t] # Idle /\ Write(t)
    BY <1>2 DEF OpenPR, At
  <2>2. PICK p \in NextId(pull) : pull' = [pull EXCEPT ![p] = [inst |-> task[t].inst, content |-> task[t].content,
                                                            merged |-> FALSE]]
    BY <1>2 DEF OpenPR
  <2>3. p \in PullRequest /\ pull[p] = NoContent
    BY NextIdIsFree DEF StateTyped
  <2>4. [inst |-> task[t].inst, content |-> task[t].content, merged |-> FALSE] \in PullRow
    BY <2>1, TaskRecord DEF PullRow
  <2>5. QED
    BY <2>2, <2>3, <2>4 DEF StateTyped, PullsStay
<1>3. ASSUME NEW p \in PullRequest, MergePR(p)
      PROVE  pull' \in [PullRequest -> PullRow \cup {NoContent}] /\ PullsStay
  <2> DEFINE r == [pull[p] EXCEPT !.merged = TRUE]
  <2>1. pull[p] \in PullRow
    BY <1>3 DEF StateTyped, MergePR
  <2>2. r \in PullRow /\ r # NoContent
    BY <2>1, AbsentAssumption DEF PullRow
  <2>3. r.inst = pull[p].inst /\ r.content = pull[p].content
    BY <2>1 DEF PullRow
  <2>4. r.merged
    BY <2>1 DEF PullRow
  <2>5. pull' = [pull EXCEPT ![p] = r]
    BY <1>3 DEF MergePR
  <2> HIDE DEF r
  <2>6. QED
    BY <2>2, <2>3, <2>4, <2>5 DEF StateTyped, PullsStay
<1>4. QED
  BY <1>1, <1>2, <1>3 DEF PullFrame

\* Commands, applications and what they stand for stay well typed; a
\* registration that was queued stays queued or done.
LEMMA QueueKept ==
  ASSUME StateTyped, TasksTyped, TasksOK, QueueFrame
  PROVE  /\ registration' \in [Inst -> CommandStatus] /\ removal' \in [Inst -> CommandStatus]
         /\ app' \subseteq Inst /\ QueueStays
<1>1. CASE UNCHANGED clusterSideVars
  BY <1>1 DEF clusterSideVars, StateTyped, QueueStays
<1>2. ASSUME NEW t \in Task, enqueueAppRegistration(t)
      PROVE  /\ registration' \in [Inst -> CommandStatus] /\ QueueStays /\ UNCHANGED <<removal, app>>
  BY <1>2 DEF enqueueAppRegistration, EnqueueOnce, StateTyped, QueueStays, CommandStatus
<1>3. ASSUME NEW t \in Task, enqueueAppDeletion(t)
      PROVE  /\ removal' \in [Inst -> CommandStatus] /\ UNCHANGED <<registration, app>>
  BY <1>3 DEF enqueueAppDeletion, EnqueueOnce, StateTyped, CommandStatus
<1>4. ASSUME NEW i \in Inst, AgentRegisters(i)
      PROVE  /\ registration' \in [Inst -> CommandStatus] /\ app' \subseteq Inst /\ QueueStays /\ UNCHANGED removal
  BY <1>4 DEF AgentRegisters, StateTyped, QueueStays, CommandStatus
<1>5. ASSUME NEW i \in Inst, AgentRemoves(i)
      PROVE  /\ removal' \in [Inst -> CommandStatus] /\ app' \subseteq Inst /\ UNCHANGED registration
  BY <1>5 DEF AgentRemoves, StateTyped, CommandStatus
<1>6. QED
  BY <1>1, <1>2, <1>3, <1>4, <1>5 DEF QueueFrame, StateTyped, QueueStays

\* The rows that a task or a finalization writes: a new one, one with another
\* version or spec and the task's pull request, none, or one that waits no more.
RowWritten(i, r) ==
    \/ r = NoContent
    \/ /\ r \in InstanceRow
       /\ \/ r.pr = NoPR /\ registration[i] # "absent"
          \/ r.pr # NoPR /\ pull[r.pr] # NoContent /\ pull[r.pr].inst = i

\* No other row is written.
LEMMA RowsWritten ==
  ASSUME StateTyped, TasksTyped, TasksOK, InstanceFrame
  PROVE  UNCHANGED instance \/ \E r : \E i \in Inst : RowWritten(i, r) /\ instance' = [instance EXCEPT ![i] = r]
<1> DEFINE Goal == UNCHANGED instance \/ \E r : \E i \in Inst : RowWritten(i, r) /\ instance' = [instance EXCEPT ![i] = r]
<1>1. ASSUME NEW t \in Task, CreateInstance(t)
      PROVE  Goal
  <2> DEFINE k == task[t]
             r == [version |-> k.content.version, spec |-> k.content.spec, pr |-> k.pr]
  <2>1. task[t] # Idle /\ Write(t) /\ k.pc = "record"
    BY <1>1 DEF CreateInstance, At, Write
  <2>2. /\ k.inst \in Inst /\ k.content \in Content /\ k.pr \in PullRequest \cup {NoPR} /\ WriteOK(k)
    BY <2>1, TaskRecord
  <2>3. r \in InstanceRow /\ r.pr = k.pr
    BY <2>2 DEF InstanceRow, Content
  <2>4. UNCHANGED instance \/ instance' = [instance EXCEPT ![k.inst] = r]
    BY <1>1 DEF CreateInstance
  <2>5. RowWritten(k.inst, r)
    BY <2>1, <2>2, <2>3 DEF RowWritten, WriteOK
  <2>6. QED
    BY <2>2, <2>4, <2>5
<1>2. ASSUME NEW t \in Task, RecordChange(t)
      PROVE  Goal
  <2> DEFINE k == task[t]
             r == [instance[k.inst] EXCEPT !.version = k.content.version, !.pr = k.pr]
             q == [instance[k.inst] EXCEPT !.spec = k.content.spec, !.pr = k.pr]
  <2>1. task[t] # Idle /\ Write(t) /\ k.pc = "record"
    BY <1>2 DEF RecordChange, At, Write
  <2>2. /\ k.inst \in Inst /\ k.content \in Content /\ k.pr \in PullRequest \cup {NoPR} /\ WriteOK(k)
    BY <2>1, TaskRecord
  <2>3. \/ UNCHANGED instance
        \/ /\ k.inst \in Deployed
           /\ instance' = [instance EXCEPT ![k.inst] = r] \/ instance' = [instance EXCEPT ![k.inst] = q]
    BY <1>2 DEF RecordChange, MarkDeployed, MarkSpecUpdated
  <2>4. CASE k.inst \in Deployed
    <3>1. instance[k.inst] \in InstanceRow
      BY <2>4 DEF Deployed, StateTyped
    <3>2. r \in InstanceRow /\ r.pr = k.pr /\ q \in InstanceRow /\ q.pr = k.pr
      BY <2>2, <3>1 DEF InstanceRow, Content
    <3>3. RowWritten(k.inst, r) /\ RowWritten(k.inst, q)
      BY <2>1, <2>2, <3>2 DEF RowWritten, WriteOK
    <3>4. QED
      BY <2>2, <2>3, <3>3
  <2>5. QED
    BY <2>3, <2>4
<1>3. ASSUME NEW t \in Task, EraseInstance(t)
      PROVE  Goal
  <2>1. UNCHANGED instance \/ instance' = [instance EXCEPT ![task[t].inst] = NoContent]
    BY <1>3 DEF EraseInstance
  <2>2. task[t].inst \in Inst
    BY <1>3, TaskRecord DEF EraseInstance, At
  <2>3. QED
    BY <2>1, <2>2 DEF RowWritten
<1>4. ASSUME NEW t \in Task, markInstancePRMerged(t)
      PROVE  Goal
  <2> DEFINE k == task[t]
             r == [instance[k.inst] EXCEPT !.pr = NoPR]
  <2>1. task[t] # Idle /\ k.op = "finalize" /\ k.pc = "record"
    BY <1>4 DEF markInstancePRMerged, At
  <2>2. k.inst \in Inst /\ FinalizeOK(k)
    BY <2>1, TaskRecord
  <2>3. CASE k.inst \in Deployed
    <3>1. instance[k.inst] \in InstanceRow
      BY <2>3 DEF Deployed, StateTyped
    <3>2. r \in InstanceRow /\ r.pr = NoPR
      BY <3>1 DEF InstanceRow
    <3>3. RowWritten(k.inst, r)
      BY <2>1, <2>2, <3>2 DEF RowWritten, FinalizeOK
    <3>4. instance' = [instance EXCEPT ![k.inst] = r]
      BY <1>4, <2>3 DEF markInstancePRMerged
    <3>5. QED
      BY <2>2, <3>3, <3>4
  <2>4. QED
    BY <1>4, <2>3 DEF markInstancePRMerged
<1>5. QED
  BY <1>1, <1>2, <1>3, <1>4 DEF InstanceFrame, RecordStep

\* Instance rows name a pull request opened for them, or are registered.
LEMMA RowsKept ==
  ASSUME StateTyped, TasksTyped, TasksOK, RowsHavePulls, RegistrationQueued, InstanceFrame, PullsStay, QueueStays
  PROVE  /\ instance' \in [Inst -> InstanceRow \cup {NoContent}]
         /\ RowsHavePulls' /\ RegistrationQueued'
<1>1. \A i \in Inst : instance[i] = NoContent \/ instance[i] \in InstanceRow
  BY DEF StateTyped
<1>2. \A i \in Inst : instance[i] # NoContent => RowWritten(i, instance[i])
  BY <1>1 DEF RowWritten, RowsHavePulls, RegistrationQueued, Deployed
<1>3. \A i \in Inst : instance'[i] = NoContent \/ RowWritten(i, instance'[i])
  <2>1. CASE UNCHANGED instance
    BY <1>2, <2>1
  <2>2. ASSUME NEW i \in Inst, NEW r, RowWritten(i, r), instance' = [instance EXCEPT ![i] = r]
        PROVE  \A j \in Inst : instance'[j] = NoContent \/ RowWritten(j, instance'[j])
    <3>1. instance'[i] = r /\ \A j \in Inst : j # i => instance'[j] = instance[j]
      BY <2>2 DEF StateTyped
    <3>2. QED
      BY <1>2, <2>2, <3>1
  <2>3. QED
    BY <2>1, <2>2, RowsWritten
<1>4. \A i \in Inst : instance'[i] # NoContent =>
          /\ instance'[i] \in InstanceRow
          /\ \/ instance'[i].pr = NoPR /\ registration'[i] # "absent"
             \/ instance'[i].pr # NoPR /\ pull'[instance'[i].pr] # NoContent /\ pull'[instance'[i].pr].inst = i
  <2> SUFFICES ASSUME NEW i \in Inst, NEW r, r = instance'[i], r # NoContent
               PROVE  /\ r \in InstanceRow
                      /\ \/ r.pr = NoPR /\ registration'[i] # "absent"
                         \/ r.pr # NoPR /\ pull'[r.pr] # NoContent /\ pull'[r.pr].inst = i
    OBVIOUS
  <2>1. RowWritten(i, r) /\ r \in InstanceRow
    BY <1>3 DEF RowWritten
  <2>2. r.pr \in PullRequest \cup {NoPR}
    BY <2>1 DEF InstanceRow
  <2>3. QED
    BY <2>1, <2>2 DEF RowWritten, PullsStay, QueueStays
<1>5. instance' \in [Inst -> InstanceRow \cup {NoContent}]
  <2>1. instance' = [i \in Inst |-> instance'[i]]
    BY RowsWritten DEF StateTyped
  <2>2. QED
    BY <1>4, <2>1
<1>6. RowsHavePulls'
  BY <1>4 DEF RowsHavePulls, Deployed
<1>7. RegistrationQueued'
  BY <1>4 DEF RegistrationQueued, Deployed
<1>8. QED
  BY <1>5, <1>6, <1>7

\* Manifests stay well typed, and history is not rewritten.
LEMMA FilesKept ==
  ASSUME StateTyped, TasksTyped, TasksOK, FilesFrame
  PROVE  /\ files' \in [Inst -> Content \cup {NoContent}]
         /\ committed' \subseteq Inst /\ committed \subseteq committed'
<1>1. CASE UNCHANGED <<files, committed>>
  BY <1>1 DEF StateTyped
<1>2. ASSUME NEW t \in Task, CommitFiles(t)
      PROVE  /\ files' \in [Inst -> Content \cup {NoContent}]
             /\ committed' \subseteq Inst /\ committed \subseteq committed'
  BY <1>2, TaskRecord DEF CommitFiles, At, StateTyped
<1>3. ASSUME NEW t \in Task, DeleteFiles(t)
      PROVE  /\ files' \in [Inst -> Content \cup {NoContent}] /\ UNCHANGED committed
  BY <1>3, TaskRecord DEF DeleteFiles, At, StateTyped
<1>4. ASSUME NEW p \in PullRequest, MergePR(p)
      PROVE  /\ files' \in [Inst -> Content \cup {NoContent}]
             /\ committed' \subseteq Inst /\ committed \subseteq committed'
  BY <1>4 DEF MergePR, StateTyped, PullRow
<1>5. QED
  BY <1>1, <1>2, <1>3, <1>4 DEF FilesFrame, StateTyped
\* Only a merged pull request is announced.
LEMMA MergesKept ==
  ASSUME StateTyped, TasksTyped, TasksOK, AnnouncedIsMerged, MergesFrame, PullsStay,
         pull' \in [PullRequest -> PullRow \cup {NoContent}]
  PROVE  merges' \subseteq PullRequest /\ AnnouncedIsMerged'
<1>1. CASE merges' \subseteq merges
  BY <1>1 DEF StateTyped, AnnouncedIsMerged, PullsStay
<1>2. ASSUME NEW p \in PullRequest, MergePR(p)
      PROVE  merges' \subseteq PullRequest /\ AnnouncedIsMerged'
  <2>1. merges' \subseteq merges \cup {p}
    BY <1>2 DEF MergePR
  <2>2. pull'[p] # NoContent
    BY <1>2 DEF PullsStay, MergePR
  <2>3. pull'[p].merged
    BY <1>2 DEF MergePR, StateTyped, PullRow
  <2>4. QED
    BY <2>1, <2>2, <2>3 DEF StateTyped, AnnouncedIsMerged, PullsStay
<1>3. QED
  BY <1>1, <1>2 DEF MergesFrame, markInstancePRMerged, FinalizePRMerge

-----------------------------------------------------------------------------
(* Deploy: the tasks *)

\* What was approved stays approved.
LEMMA ApprovedStays ==
  ASSUME ApprovalsStay, NEW i, NEW content, Approved(i, content)
  PROVE  Approved(i, content)'
BY DEF Approved, Decided, ApprovalsStay

\* What a task relies on stays.
LEMMA RequestStays ==
  ASSUME Grows, NEW k, RequestOK(k)
  PROVE  RequestOK(k)'
<1>1. k \in DeployRequest
  BY DEF RequestOK
<1>2. ASSUME k.op \in WriteOp
      PROVE  WriteOK(k)'
  <2>1. WriteOK(k) /\ k.inst \in Inst /\ k.pr \in PullRequest \cup {NoPR}
    BY <1>1, <1>2 DEF RequestOK, DeployRequest, WriteOp
  <2>2. gated' => Approved(k.inst, k.content)'
    BY <2>1, ApprovedStays DEF WriteOK, Grows
  <2>3. QED
    BY <2>1, <2>2 DEF WriteOK, Grows, QueueStays, PullsStay
<1>3. ASSUME k.op = "finalize"
      PROVE  FinalizeOK(k)'
  BY <1>1, <1>3 DEF RequestOK, FinalizeOK, DeployRequest, Grows, QueueStays
<1>4. ASSUME k.op # "finalize", k.approval # NoApproval
      PROVE  Decided(k.approval)'
  BY <1>1, <1>4 DEF RequestOK, Decided, DeployRequest, Grows, ApprovalsStay
<1>5. QED
  BY <1>1, <1>2, <1>3, <1>4 DEF RequestOK

\* The task of a decided request writes what was approved.
LEMMA ResumedTask ==
  ASSUME StateTyped, UpdatesExist, NEW t \in Task, NEW a \in Approval, HandleDecided(t, a)
  PROVE  RequestOK(ResumeTask(a))
<1> DEFINE r == approval[a]
           i == r.inst
           c == ResumeContent(a)
<1>1. r \in ApprovalRow /\ Decided(a) /\ (r.existing => i \in Deployed)
  BY DEF HandleDecided, StateTyped, Decided
<1>2. i \in Inst /\ r.content \in Content /\ r.action \in {"deploy", "update", "delete"}
  BY <1>1 DEF ApprovalRow
<1>3. CASE r.action = "delete"
  <2>1. ResumeTask(a) = Removing(i, a)
    BY <1>3 DEF ResumeTask
  <2>2. Removing(i, a) \in DeployRequest
    BY <1>2, RequestsTyped
  <2>3. QED
    BY <1>1, <2>1, <2>2 DEF RequestOK, Removing, WriteOp
<1>4. ASSUME r.action # "delete", c \in Content, Approved(i, c)
      PROVE  RequestOK(ResumeTask(a))
  <2>1. PICK op \in WriteOp : ResumeTask(a) = Writing(op, i, c, a)
    BY <1>2, <1>4 DEF ResumeTask, WriteOp
  <2>2. Writing(op, i, c, a) \in DeployRequest
    BY <1>2, <1>4, RequestsTyped
  <2>3. QED
    BY <1>1, <1>4, <2>1, <2>2 DEF RequestOK, Writing, WriteOp, WriteOK
<1>5. CASE r.action = "update"
  <2>1. i \in Deployed
    BY <1>1, <1>5 DEF UpdatesExist, Decided
  <2>2. ContentOf(i) \in Content
    BY <1>2, <2>1, RowContent DEF Deployed, StateTyped, ContentOf
  <2>3. c \in Content /\ c.spec = r.content.spec
    BY <1>2, <1>5, <2>2 DEF ResumeContent, Content
  <2>4. Approved(i, c)
    BY <1>1, <1>5, <2>3 DEF Approved
  <2>5. QED
    BY <1>4, <1>5, <2>3, <2>4
<1>6. CASE r.action = "deploy"
  <2>1. c = r.content
    BY <1>6 DEF ResumeContent
  <2>2. Approved(i, c)
    BY <1>1, <2>1 DEF Approved
  <2>3. QED
    BY <1>2, <1>4, <1>6, <2>1, <2>2
<1>7. QED
  BY <1>2, <1>3, <1>5, <1>6

\* A finalization is of an instance that is on the base branch.
LEMMA FinalizedTask ==
  ASSUME StateTyped, RowsHavePulls, MergedIsCommitted, AnnouncedIsMerged,
         NEW p \in merges, NEW i \in FindInstanceByPRURL(p)
  PROVE  RequestOK([op |-> "finalize", inst |-> i, pr |-> p, pc |-> "enqueue"])
<1> DEFINE k == [op |-> "finalize", inst |-> i, pr |-> p, pc |-> "enqueue"]
<1>1. p \in PullRequest /\ i \in Inst /\ i \in Deployed /\ instance[i].pr = p
  BY DEF StateTyped, FindInstanceByPRURL, Deployed
<1>2. pull[p] # NoContent /\ pull[p].merged /\ pull[p].inst = i
  BY <1>1, DeployAssumption DEF RowsHavePulls, AnnouncedIsMerged
<1>3. i \in committed
  BY <1>1, <1>2 DEF MergedIsCommitted
<1>4. k \in DeployRequest /\ k.op = "finalize" /\ k.pc = "enqueue" /\ k.inst = i
  BY <1>1 DEF DeployRequest
<1>5. QED
  BY <1>3, <1>4 DEF RequestOK, FinalizeOK, WriteOp

\* A task at its next step.
LEMMA TaskMovesOn ==
  ASSUME StateTyped, TasksTyped, TasksOK, Grows, NEW t \in Task,
         \/ CommitFiles(t) \/ OpenPR(t) \/ DeleteFiles(t)
         \/ enqueueAppRegistration(t) \/ enqueueAppDeletion(t)
  PROVE  \E k : task' = [task EXCEPT ![t] = k] /\ RequestOK(k)'
<1> DEFINE Goal == \E k : task' = [task EXCEPT ![t] = k] /\ RequestOK(k)'
<1>1. task[t] # Idle /\ task[t] \in DeployRequest /\ RequestOK(task[t])
  BY TaskRecord DEF CommitFiles, OpenPR, DeleteFiles, enqueueAppRegistration, enqueueAppDeletion, At
<1>2. PICK o : o = task[t]
  OBVIOUS
<1>3. RequestOK(o)' /\ o \in DeployRequest
  BY <1>1, <1>2, RequestStays
<1>4. CASE CommitFiles(t)
  <2>1. PICK changed \in BOOLEAN : task' = [task EXCEPT ![t] = [o EXCEPT !.pc = "enqueue", !.changed = changed]]
    BY <1>2, <1>4 DEF CommitFiles
  <2>2. o.op \in WriteOp /\ o.inst \in committed' /\ o.pc = "git"
    BY <1>2, <1>4 DEF CommitFiles, Write, WriteOp, At
  <2>3. PICK k : k = [o EXCEPT !.pc = "enqueue", !.changed = changed]
    OBVIOUS
  <2>4. /\ k \in DeployRequest /\ k.op = o.op /\ k.inst = o.inst /\ k.content = o.content
        /\ k.approval = o.approval /\ k.pr = o.pr /\ k.pc = "enqueue"
    BY <1>3, <2>2, <2>3 DEF DeployRequest, WriteOp
  <2>5. WriteOK(o)' /\ (o.approval # NoApproval => Decided(o.approval)')
    BY <1>3, <2>2 DEF RequestOK, WriteOp
  <2>6. gated' => Approved(k.inst, k.content)'
    BY <2>4, <2>5 DEF WriteOK
  <2>7. WriteOK(k)'
    BY <2>2, <2>4, <2>5, <2>6 DEF WriteOK
  <2>8. RequestOK(k)'
    BY <2>2, <2>4, <2>5, <2>7 DEF RequestOK, WriteOp
  <2>9. QED
    BY <2>1, <2>3, <2>8
<1>5. CASE OpenPR(t)
  <2>1. PICK p \in NextId(pull) :
           /\ pull' = [pull EXCEPT ![p] = [inst |-> task[t].inst, content |-> task[t].content, merged |-> FALSE]]
           /\ task' = [task EXCEPT ![t] = [@ EXCEPT !.pc = "record", !.pr = p]]
    BY <1>5 DEF OpenPR
  <2>2. p \in PullRequest
    BY <2>1, NextIdIsFree DEF StateTyped
  <2>3. PICK k : k = [o EXCEPT !.pc = "record", !.pr = p]
    OBVIOUS
  <2>4. o.op \in WriteOp
    BY <1>2, <1>5 DEF OpenPR, Write, WriteOp
  <2>5. /\ k \in DeployRequest /\ k.op = o.op /\ k.inst = o.inst /\ k.content = o.content
        /\ k.approval = o.approval /\ k.pr = p /\ k.pc = "record" /\ o.inst \in Inst /\ o.content \in Content
    BY <1>3, <2>2, <2>3, <2>4 DEF DeployRequest, WriteOp
  <2>6. pull'[p] = [inst |-> o.inst, content |-> o.content, merged |-> FALSE]
    BY <1>2, <2>1, <2>2 DEF StateTyped
  <2>7. pull'[p] # NoContent /\ pull'[p].inst = o.inst
    <3>1. [inst |-> o.inst, content |-> o.content, merged |-> FALSE] \in PullRow
      BY <2>5 DEF PullRow
    <3>2. pull'[p] # NoContent
      BY <2>6, <3>1, AbsentAssumption
    <3>3. pull'[p].inst = o.inst
      BY <2>6
    <3>4. QED
      BY <3>2, <3>3
  <2>8. WriteOK(o)' /\ (o.approval # NoApproval => Decided(o.approval)')
    BY <1>3, <2>4 DEF RequestOK, WriteOp
  <2>9. gated' => Approved(k.inst, k.content)'
    BY <2>5, <2>8 DEF WriteOK
  <2>10. WriteOK(k)'
    BY <2>2, <2>5, <2>7, <2>9, DeployAssumption DEF WriteOK
  <2>11. RequestOK(k)'
    BY <2>4, <2>5, <2>8, <2>10 DEF RequestOK, WriteOp
  <2>12. QED
    BY <1>2, <2>1, <2>3, <2>11
<1>6. CASE DeleteFiles(t) \/ enqueueAppDeletion(t)
  <2>1. PICK pc \in {"enqueue", "record"} : task' = [task EXCEPT ![t] = [o EXCEPT !.pc = pc]]
    BY <1>2, <1>6 DEF DeleteFiles, enqueueAppDeletion
  <2>2. o.op = "delete"
    BY <1>2, <1>6 DEF DeleteFiles, enqueueAppDeletion
  <2>3. PICK k : k = [o EXCEPT !.pc = pc]
    OBVIOUS
  <2>4. k \in DeployRequest /\ k.op = "delete" /\ k.approval = o.approval
    BY <1>3, <2>1, <2>2, <2>3 DEF DeployRequest
  <2>5. RequestOK(k)'
    BY <1>3, <2>2, <2>4 DEF RequestOK, WriteOp
  <2>6. QED
    BY <2>1, <2>3, <2>5
<1>7. CASE enqueueAppRegistration(t)
  <2>1. task' = [task EXCEPT ![t] = [o EXCEPT !.pc = "record"]] /\ o.op # "delete" /\ o.pc = "enqueue"
    BY <1>2, <1>7 DEF enqueueAppRegistration, At
  <2>2. o.inst \in Inst /\ registration'[o.inst] # "absent"
    BY <1>2, <1>3, <1>7 DEF enqueueAppRegistration, EnqueueOnce, StateTyped, DeployRequest
  <2>3. PICK k : k = [o EXCEPT !.pc = "record"]
    OBVIOUS
  <2>4. CASE o.op = "finalize"
    <3>1. k \in DeployRequest /\ k.op = "finalize" /\ k.inst = o.inst /\ k.pc = "record"
      BY <1>3, <2>3, <2>4 DEF DeployRequest
    <3>2. RequestOK(k)'
      BY <1>3, <2>2, <2>4, <3>1 DEF RequestOK, FinalizeOK, WriteOp
    <3>3. QED
      BY <2>1, <2>3, <3>2
  <2>5. CASE o.op # "finalize"
    <3>1. o.op \in WriteOp
      BY <1>3, <2>1, <2>5 DEF DeployRequest, WriteOp
    <3>2. /\ k \in DeployRequest /\ k.op = o.op /\ k.inst = o.inst /\ k.content = o.content
          /\ k.approval = o.approval /\ k.pr = o.pr /\ k.pc = "record"
      BY <1>3, <2>3, <3>1 DEF DeployRequest, WriteOp
    <3>3. WriteOK(o)' /\ (o.approval # NoApproval => Decided(o.approval)')
      BY <1>3, <3>1 DEF RequestOK, WriteOp
    <3>4. gated' => Approved(k.inst, k.content)'
      BY <3>2, <3>3 DEF WriteOK
    <3>5. WriteOK(k)'
      BY <2>2, <3>2, <3>3, <3>4 DEF WriteOK
    <3>6. RequestOK(k)'
      BY <3>1, <3>2, <3>3, <3>5 DEF RequestOK, WriteOp
    <3>7. QED
      BY <2>1, <2>3, <3>6
  <2>6. QED
    BY <2>4, <2>5
<1>8. QED
  BY <1>4, <1>5, <1>6, <1>7

\* Tasks stay well typed, and rely on what is there.
LEMMA TasksKept ==
  ASSUME StateTyped, TasksTyped, TasksOK, UpdatesExist, RowsHavePulls, MergedIsCommitted, AnnouncedIsMerged,
         Grows, TaskFrame
  PROVE  TasksTyped' /\ TasksOK'
<1>1. \/ UNCHANGED task
      \/ \E k : \E t \in Task : task' = [task EXCEPT ![t] = k] /\ (k = Idle \/ RequestOK(k)')
  <2>1. ASSUME NEW t \in Task, NEW k, Ungated(k, t)
        PROVE  RequestOK(k)'
    <3>1. /\ ~gated /\ k \in DeployRequest /\ k.op # "finalize" /\ k.pc = "git" /\ k.approval = NoApproval
          /\ k.op \in WriteOp => k.pr = NoPR
      BY <2>1 DEF Ungated, AcceptedRequest
    <3>2. RequestOK(k)
      BY <3>1 DEF RequestOK, WriteOK
    <3>3. QED
      BY <3>2, RequestStays
  <2>2. ASSUME NEW t \in Task, NEW a \in Approval, HandleDecided(t, a),
               NEW k, k = ResumeTask(a)
        PROVE  RequestOK(k)'
    <3>1. RequestOK(k)
      BY <2>2, ResumedTask
    <3>2. QED
      BY <3>1, RequestStays
  <2>3. ASSUME NEW t \in Task, NEW p \in PullRequest, FinalizePRMerge(t, p)
        PROVE  UNCHANGED task \/ \E k : task' = [task EXCEPT ![t] = k] /\ RequestOK(k)'
    <3>1. CASE UNCHANGED task
      BY <3>1
    <3>2. CASE ~UNCHANGED task
      <4>1. PICK i \in FindInstanceByPRURL(p) :
               task' = [task EXCEPT ![t] = [op |-> "finalize", inst |-> i, pr |-> p, pc |-> "enqueue"]]
        BY <2>3, <3>2 DEF FinalizePRMerge
      <4>2. PICK k : k = [op |-> "finalize", inst |-> i, pr |-> p, pc |-> "enqueue"]
        OBVIOUS
      <4>3. p \in merges
        BY <2>3 DEF FinalizePRMerge
      <4>4. RequestOK(k)
        BY <4>2, <4>3, FinalizedTask
      <4>5. RequestOK(k)'
        BY <4>4, RequestStays
      <4>6. QED
        BY <4>1, <4>2, <4>5
    <3>3. QED
      BY <3>1, <3>2
  <2>4. ASSUME NEW t \in Task, NEW a \in Approval, HandleDecided(t, a), task' = [task EXCEPT ![t] = ResumeTask(a)]
        PROVE  \E k : task' = [task EXCEPT ![t] = k] /\ RequestOK(k)'
    <3>1. PICK k : k = ResumeTask(a)
      OBVIOUS
    <3>2. QED
      BY <2>2, <2>4, <3>1
  <2>5. ASSUME NEW t \in Task, NEW k, Ungated(k, t)
        PROVE  task' = [task EXCEPT ![t] = k] /\ RequestOK(k)'
    BY <2>1, <2>5 DEF Ungated
  <2>6. QED
    BY <2>3, <2>4, <2>5, TaskMovesOn DEF TaskFrame
<1>2. CASE UNCHANGED task
  <2>1. ASSUME NEW t \in Task, NEW k, k = task[t], k # Idle
        PROVE  RequestOK(k)'
    BY <2>1, RequestStays DEF TasksOK
  <2>2. ASSUME NEW t \in Task, task'[t] # Idle
        PROVE  RequestOK(task[t])'
    <3>1. PICK k : k = task[t]
      OBVIOUS
    <3>2. RequestOK(k)' /\ task'[t] = k
      BY <1>2, <2>1, <2>2, <3>1
    <3>3. QED
      BY <3>2
  <2>3. QED
    BY <1>2, <2>2 DEF TasksOK, TasksTyped
<1>3. ASSUME NEW t \in Task, NEW k, task' = [task EXCEPT ![t] = k], k = Idle \/ RequestOK(k)'
      PROVE  TasksTyped' /\ TasksOK'
  <2>1. k \in DeployRequest \cup {Idle}
    BY <1>3 DEF RequestOK
  <2>2. task'[t] = k /\ \A u \in Task : u # t => task'[u] = task[u]
    BY <1>3 DEF TasksTyped
  <2>3. ASSUME NEW u \in Task, task'[u] # Idle
        PROVE  RequestOK(task[u])'
    <3>1. PICK q : q = task'[u]
      OBVIOUS
    <3>2. CASE u = t
      BY <1>3, <2>2, <2>3, <3>1, <3>2
    <3>3. CASE u # t
      <4>1. RequestOK(q)
        BY <2>2, <2>3, <3>1, <3>3 DEF TasksOK
      <4>2. RequestOK(q)'
        BY <4>1, RequestStays
      <4>3. QED
        BY <3>1, <4>2
    <3>4. QED
      BY <3>2, <3>3
  <2>4. TasksTyped'
    BY <1>3, <2>1 DEF TasksTyped
  <2>5. QED
    BY <2>3, <2>4 DEF TasksOK
<1>4. QED
  BY <1>1, <1>2, <1>3

-----------------------------------------------------------------------------
(* Deploy: approvals before manifests, manifests before registrations *)

\* Every pull request asks for what was approved.
LEMMA PullsApprovedKept ==
  ASSUME StateTyped, TasksTyped, TasksOK, PullsApproved, Grows, PullFrame
  PROVE  PullsApproved'
<1> SUFFICES ASSUME gated, NEW p \in PullRequest, pull'[p] # NoContent,
                    NEW i, i = pull'[p].inst, NEW c, c = pull'[p].content
             PROVE  Approved(i, c)'
  BY DEF PullsApproved, Grows
<1>1. CASE pull[p] # NoContent
  <2>1. Approved(i, c)
    BY <1>1 DEF PullsApproved, Grows, PullsStay
  <2>2. QED
    BY <2>1, ApprovedStays DEF Grows
<1>2. CASE pull[p] = NoContent
  <2>1. PICK t \in Task : OpenPR(t)
    BY <1>2 DEF PullFrame, MergePR, StateTyped
  <2>2. i = task[t].inst /\ c = task[t].content
    BY <1>2, <2>1 DEF OpenPR, StateTyped
  <2>3. Approved(i, c)
    BY <2>1, <2>2, TaskRecord DEF OpenPR, At, WriteOK
  <2>4. QED
    BY <2>3, ApprovedStays DEF Grows
<1>3. QED
  BY <1>1, <1>2

\* A merge puts the manifests on the base branch.
LEMMA MergedKept ==
  ASSUME StateTyped, TasksTyped, TasksOK, MergedIsCommitted, Grows, PullFrame
  PROVE  MergedIsCommitted'
<1> SUFFICES ASSUME NEW p \in PullRequest, pull'[p] # NoContent, pull'[p].merged
             PROVE  pull'[p].inst \in committed'
  BY DEF MergedIsCommitted
<1>1. CASE UNCHANGED pull
  BY <1>1 DEF MergedIsCommitted, Grows
<1>2. ASSUME NEW t \in Task, OpenPR(t)
      PROVE  pull'[p].inst \in committed'
  <2>1. PICK q \in NextId(pull) : pull' = [pull EXCEPT ![q] = [inst |-> task[t].inst, content |-> task[t].content,
                                                            merged |-> FALSE]]
    BY <1>2 DEF OpenPR
  <2>2. q \in PullRequest
    BY NextIdIsFree DEF StateTyped
  <2>3. p # q
    <3>1. SUFFICES ASSUME p = q PROVE FALSE
      OBVIOUS
    <3>2. ~pull'[p].merged
      BY <2>1, <2>2, <3>1 DEF StateTyped
    <3>3. QED
      BY <3>2
  <2>4. pull'[p] = pull[p]
    BY <2>1, <2>2, <2>3 DEF StateTyped
  <2>5. QED
    BY <2>4 DEF MergedIsCommitted, Grows
<1>3. ASSUME NEW q \in PullRequest, MergePR(q)
      PROVE  pull'[p].inst \in committed'
  <2>1. CASE p = q
    BY <1>3, <2>1 DEF MergePR, Grows, PullsStay
  <2>2. CASE p # q
    <3>1. pull'[p] = pull[p]
      BY <1>3, <2>2 DEF MergePR, StateTyped
    <3>2. QED
      BY <3>1 DEF MergedIsCommitted, Grows
  <2>3. QED
    BY <2>1, <2>2
<1>4. QED
  BY <1>1, <1>2, <1>3 DEF PullFrame

\* What reaches the base branch was approved.
LEMMA WrittenKept ==
  ASSUME StateTyped, TasksTyped, TasksOK, PullsApproved, WrittenIsApproved, Grows, FilesFrame
  PROVE  WrittenIsApproved'
<1>1. ASSUME gated, NEW i \in Inst, files[i] # NoContent
      PROVE  Approved(i, files[i])
  BY <1>1 DEF WrittenIsApproved, Approved, Decided
<1>2. ASSUME gated, NEW i \in Inst, NEW c, c = files'[i], c # NoContent
      PROVE  Approved(i, c)
  <2>1. CASE UNCHANGED <<files, committed>>
    BY <1>1, <1>2, <2>1
  <2>2. ASSUME NEW t \in Task, CommitFiles(t)
        PROVE  Approved(i, c)
    <3>1. files' = [files EXCEPT ![task[t].inst] = task[t].content] /\ Approved(task[t].inst, task[t].content)
      BY <1>2, <2>2, TaskRecord DEF CommitFiles, At, WriteOK
    <3>2. QED
      BY <1>1, <1>2, <3>1 DEF StateTyped
  <2>3. ASSUME NEW t \in Task, DeleteFiles(t)
        PROVE  Approved(i, c)
    <3>1. files' = [files EXCEPT ![task[t].inst] = NoContent]
      BY <2>3 DEF DeleteFiles
    <3>2. QED
      BY <1>1, <1>2, <3>1 DEF StateTyped
  <2>4. ASSUME NEW p \in PullRequest, MergePR(p)
        PROVE  Approved(i, c)
    <3>1. files' = [files EXCEPT ![pull[p].inst] = pull[p].content] /\ Approved(pull[p].inst, pull[p].content)
      BY <1>2, <2>4 DEF MergePR, PullsApproved
    <3>2. QED
      BY <1>1, <1>2, <3>1 DEF StateTyped
  <2>5. QED
    BY <2>1, <2>2, <2>3, <2>4 DEF FilesFrame
<1>3. ASSUME gated, NEW i \in Inst, files'[i] # NoContent
      PROVE  Approved(i, files[i])'
  <2>1. PICK c : c = files'[i]
    OBVIOUS
  <2>2. Approved(i, c)'
    BY <1>2, <1>3, <2>1, ApprovedStays DEF Grows
  <2>3. QED
    BY <2>1, <2>2
<1>4. QED
  BY <1>3 DEF WrittenIsApproved, Approved, Decided, Grows

\* What the agent is asked to register is committed.
LEMMA RegisteredKept ==
  ASSUME StateTyped, TasksTyped, TasksOK, RegisteredIsCommitted, Grows, QueueFrame
  PROVE  RegisteredIsCommitted'
<1> SUFFICES ASSUME NEW i \in Inst, registration'[i] # "absent", registration[i] = "absent"
             PROVE  i \in committed'
  BY DEF RegisteredIsCommitted, Grows
<1>1. ASSUME NEW t \in Task, enqueueAppRegistration(t)
      PROVE  i \in committed'
  <2>1. task[t].inst = i /\ task[t] # Idle /\ task[t].pc = "enqueue" /\ task[t].op # "delete"
    BY <1>1 DEF enqueueAppRegistration, EnqueueOnce, StateTyped, At
  <2>2. Write(t) \/ task[t].op = "finalize"
    BY <2>1, TaskRecord DEF Write, DeployRequest
  <2>3. QED
    BY <2>1, <2>2, TaskRecord DEF WriteOK, FinalizeOK, Grows
<1>2. UNCHANGED registration \/ \E t \in Task : enqueueAppRegistration(t)
  BY DEF QueueFrame, clusterSideVars, enqueueAppDeletion, AgentRegisters, AgentRemoves, StateTyped
<1>3. QED
  BY <1>1, <1>2

\* The bounds of the model.
LEMMA BoundsKept ==
  ASSUME BoundsTyped, [DeployNext]_deployVars
  PROVE  BoundsTyped'
<1>1. \/ UNCHANGED <<asked, faults>>
      \/ asked < MaxDeployRequests /\ asked' = asked + 1 /\ UNCHANGED faults
      \/ faults < MaxFaults /\ faults' = faults + 1 /\ UNCHANGED asked
  <2>1. ASSUME NEW t \in Task, DeployRoutes(t)
        PROVE  asked < MaxDeployRequests /\ asked' = asked + 1 /\ UNCHANGED faults
    BY <2>1 DEF DeployRoutes, httpDeploy, httpUpgrade, httpUpdateInstance, httpDeleteInstance, httpRollback,
       DeployItem, UpgradeInstance, Rollback, revert, UpdateSpec, DeleteInstance, Gate
  <2>2. ASSUME NEW t \in Task, TaskStep(t)
        PROVE  UNCHANGED <<asked, faults>>
    BY <2>2 DEF TaskStep, CommitFiles, OpenPR, enqueueAppRegistration, CreateInstance, RecordChange, DeleteFiles,
       enqueueAppDeletion, EraseInstance, markInstancePRMerged
  <2>3. ASSUME NEW t \in Task, TaskFails(t)
        PROVE  faults < MaxFaults /\ faults' = faults + 1 /\ UNCHANGED asked
    BY <2>3 DEF TaskFails
  <2>4. ASSUME NEW t \in Task, NEW a \in Approval, HandleDecided(t, a)
        PROVE  UNCHANGED asked /\ (UNCHANGED faults \/ (faults < MaxFaults /\ faults' = faults + 1))
    <3>1. UNCHANGED asked
      BY <2>4 DEF HandleDecided
    <3>2. UNCHANGED faults \/ (faults < MaxFaults /\ faults' = faults + 1)
      BY <2>4 DEF HandleDecided
    <3>3. QED
      BY <3>1, <3>2
  <2>5. QED
    BY <2>1, <2>2, <2>3, <2>4 DEF DeployNext, deployVars, FinalizePRMerge, DecideDeploy, MergePR, AgentRegisters,
       AgentRemoves
<1>2. QED
  BY <1>1, DeployAssumption DEF BoundsTyped

\* An application goes only where its removal was asked for.
LEMMA AppsKept ==
  ASSUME StateTyped, AppsStay, [DeployNext]_deployVars
  PROVE  AppsStay'
<1>1. CASE UNCHANGED clusterSideVars
  BY <1>1 DEF AppsStay, clusterSideVars
<1>2. ASSUME NEW i \in Inst, AgentRegisters(i) PROVE AppsStay'
  BY <1>2 DEF AppsStay, AgentRegisters, StateTyped
<1>3. ASSUME NEW i \in Inst, AgentRemoves(i) PROVE AppsStay'
  BY <1>3 DEF AppsStay, AgentRemoves, StateTyped
<1>4. ASSUME NEW t \in Task, enqueueAppRegistration(t) PROVE AppsStay'
  BY <1>4 DEF AppsStay, enqueueAppRegistration, EnqueueOnce, StateTyped
<1>5. ASSUME NEW t \in Task, enqueueAppDeletion(t) PROVE AppsStay'
  BY <1>5 DEF AppsStay, enqueueAppDeletion, EnqueueOnce, StateTyped
<1>6. ASSUME NEW t \in Task, DeployRoutes(t) PROVE UNCHANGED clusterSideVars
  BY <1>6 DEF DeployRoutes, httpDeploy, httpUpgrade, httpUpdateInstance, httpDeleteInstance, httpRollback,
     DeployItem, UpgradeInstance, Rollback, revert, UpdateSpec, DeleteInstance, Gate
<1>7. ASSUME NEW t \in Task, TaskStep(t), ~enqueueAppRegistration(t), ~enqueueAppDeletion(t)
      PROVE  UNCHANGED clusterSideVars
  BY <1>7 DEF TaskStep, CommitFiles, OpenPR, CreateInstance, RecordChange, DeleteFiles, EraseInstance, markInstancePRMerged
<1>8. QED
  BY <1>1, <1>2, <1>3, <1>4, <1>5, <1>6, <1>7 DEF DeployNext, deployVars, TaskFails, HandleDecided, FinalizePRMerge,
     DecideDeploy, MergePR

-----------------------------------------------------------------------------
(* Deploy: the theorems *)

\* What the invariant says of a state.
LEMMA DeployInvGives == ASSUME DeployInv PROVE DeployTypeOK /\ RegisteredIsCommitted /\ RecordedIsRegistered
<1>1. DeployTypeOK
  BY DEF DeployInv, StateTyped, TasksTyped, BoundsTyped, DeployTypeOK
<1>2. RecordedIsRegistered
  BY DEF DeployInv, StateTyped, CommandStatus, RegistrationQueued, AppsStay, RecordedIsRegistered, Deployed
<1>3. QED
  BY <1>1, <1>2 DEF DeployInv

\* The first state satisfies the invariant.
LEMMA DeployInitInv == DeployInit => DeployInv
BY DeployAssumption DEF DeployInit, DeployInv, StateTyped, TasksTyped, BoundsTyped, TasksOK, UpdatesExist, RowsHavePulls,
   PullsApproved, MergedIsCommitted, AnnouncedIsMerged, WrittenIsApproved, RegisteredIsCommitted,
   RegistrationQueued, AppsStay, Deployed, CommandStatus

\* Every step preserves it.
LEMMA DeployNextInv == DeployInv /\ [DeployNext]_deployVars => DeployInv'
<1> SUFFICES ASSUME DeployInv, [DeployNext]_deployVars PROVE DeployInv'
  OBVIOUS
<1> USE DEF DeployInv
<1>1. Frames
  BY StepFrames
<1>2. /\ approval' \in [Approval -> ApprovalRow \cup {NoContent}]
      /\ ApprovalsStay /\ UpdatesExist'
  BY <1>1, ApprovalsMove, ApprovalsKept DEF Frames
<1>3. pull' \in [PullRequest -> PullRow \cup {NoContent}] /\ PullsStay
  BY <1>1, PullsKept DEF Frames
<1>4. /\ registration' \in [Inst -> CommandStatus] /\ removal' \in [Inst -> CommandStatus]
      /\ app' \subseteq Inst /\ QueueStays
  BY <1>1, QueueKept DEF Frames
<1>5. /\ files' \in [Inst -> Content \cup {NoContent}]
      /\ committed' \subseteq Inst /\ committed \subseteq committed'
  BY <1>1, FilesKept DEF Frames
<1>6. gated' = gated /\ commitPolicy' = commitPolicy
  BY <1>1 DEF Frames, worldVars
<1>7. Grows
  BY <1>2, <1>3, <1>4, <1>5, <1>6 DEF Grows
<1>8. /\ instance' \in [Inst -> InstanceRow \cup {NoContent}]
      /\ RowsHavePulls' /\ RegistrationQueued'
  BY <1>1, <1>3, <1>4, RowsKept DEF Frames
<1>9. merges' \subseteq PullRequest /\ AnnouncedIsMerged'
  BY <1>1, <1>3, MergesKept DEF Frames
<1>10. TasksTyped' /\ TasksOK'
  BY <1>1, <1>7, TasksKept DEF Frames
<1>11. StateTyped'
  BY <1>2, <1>3, <1>4, <1>5, <1>6, <1>8, <1>9 DEF StateTyped
<1>12. PullsApproved' /\ MergedIsCommitted' /\ WrittenIsApproved' /\ RegisteredIsCommitted' /\ BoundsTyped'
  BY <1>1, <1>7, PullsApprovedKept, MergedKept, WrittenKept, RegisteredKept, BoundsKept DEF Frames
<1>13. AppsStay'
  BY AppsKept
<1>14. QED
  BY <1>2, <1>8, <1>9, <1>10, <1>11, <1>12, <1>13

\* What a task still has to do is backed by what was done: an approval behind a
\* gate, the manifests before the registration, the registration before the row
\* (ResumeHandler, applyWithEvent, FinalizePRMerge).
THEOREM DeployInvariant == DeploySpec => []DeployInv
<1>1. DeployInit => DeployInv
  BY DeployInitInv
<1>2. DeployInv /\ [DeployNext]_deployVars => DeployInv'
  BY DeployNextInv
<1>3. QED
  BY <1>1, <1>2, PTL DEF DeploySpec

\* Every reachable state of the deployment is well typed.
THEOREM DeployTypeCorrect == DeploySpec => []DeployTypeOK
<1>1. DeployInv => DeployTypeOK
  BY DEF DeployInv, StateTyped, TasksTyped, BoundsTyped, DeployTypeOK
<1>2. QED
  BY <1>1, DeployInvariant, PTL

\* Behind a gate nothing reaches the base branch that was not approved for its
\* instance, whatever is redelivered, resumed or merged late.
THEOREM NothingUnapproved == DeploySpec => []WrittenIsApproved
<1>1. DeployInv => WrittenIsApproved
  BY DEF DeployInv
<1>2. QED
  BY <1>1, DeployInvariant, PTL

\* The agent is asked to register an application after its manifests reached
\* the base branch, and the application of a recorded row that waits for no merge is on
\* the cluster or about to be registered, unless a removal was asked for.
THEOREM RegistrationInOrder == DeploySpec => [](RegisteredIsCommitted /\ RecordedIsRegistered)
<1>1. DeployInv => RegisteredIsCommitted /\ RecordedIsRegistered
  BY DeployInvGives
<1>2. QED
  BY <1>1, DeployInvariant, PTL

-----------------------------------------------------------------------------
(* GitRepos *)

\* The hook of a slug holds the secret of the provisioning that last patched it: while that runs, the
\* one it carries, and after it, unless it failed, the one in the vault.  A row is provisioned by one
\* call at a time.
HooksOK(calls, hooks, stored, failed) ==
    /\ \A p, q \in calls : p.id = q.id => p = q
    /\ \A p \in calls : hooks[p.slug].by = p.id => hooks[p.slug].secret = p.secret
    /\ \A r \in RepoId, s \in Slug :
          hooks[s].by = r /\ stored[r].slug = s /\ r \notin failed /\ (\A p \in calls : p.id # r)
          => hooks[s].secret = stored[r].secret
\* Those that hold their lock.
Running == {p \in provisions : p.secret # 0}
ReposInv == ReposTypeOK /\ HooksOK(Running, hook, vault, interrupted)

Rows == [RepoId -> GitRepoRow \cup {NoRepo}]
Vaults == [RepoId -> [secret : 0 .. MaxSecrets, slug : Slug \cup {NoRepo}]]

LEMMA ReposInvInit == ASSUME ReposInit PROVE ReposInv
<1>1. NoSecret \in [secret : 0 .. MaxSecrets, slug : Slug \cup {NoRepo}] /\ NoHook \in [secret : 0 .. MaxSecrets, by : RepoId \cup {NoRepo}]
  BY GitReposAssumption DEF NoSecret, NoHook
<1>2. ReposTypeOK
  BY <1>1, GitReposAssumption DEF ReposInit, ReposTypeOK
<1>3. HooksOK(Running, hook, vault, interrupted)
  BY GitReposAssumption DEF ReposInit, Running, HooksOK, NoSecret, NoHook
<1>4. QED
  BY <1>2, <1>3 DEF ReposInv

\* Rows that are erased or written anew hold no secret: the hooks stand as they did.
LEMMA HooksStand ==
  ASSUME NEW calls, NEW hooks, NEW stored, NEW stored2, NEW failed, HooksOK(calls, hooks, stored, failed),
         \A r \in RepoId : stored2[r] = stored[r] \/ stored2[r] = NoSecret
  PROVE  HooksOK(calls, hooks, stored2, failed)
<1>1. ASSUME NEW r \in RepoId, NEW s \in Slug, stored2[r].slug = s PROVE stored2[r] = stored[r]
  BY <1>1, GitReposAssumption DEF NoSecret
<1>2. QED
  BY <1>1 DEF HooksOK

LEMMA UpsertFacts ==
  ASSUME ReposTypeOK, NEW id \in RepoId, NEW row \in GitRepoRow
  PROVE  /\ UpsertedId(id, row) \in RepoId
         /\ UpsertGitRepo(id, row) \in Rows /\ UpsertedVault(id, row) \in Vaults
         /\ \A r \in RepoId : UpsertedVault(id, row)[r] = vault[r] \/ UpsertedVault(id, row)[r] = NoSecret
<1>1. gitRepo \in Rows /\ vault \in Vaults /\ NoSecret \in [secret : 0 .. MaxSecrets, slug : Slug \cup {NoRepo}]
  BY GitReposAssumption DEF ReposTypeOK, Rows, Vaults, NoSecret
<1>2. UpsertedId(id, row) \in RepoId
  BY DEF UpsertedId, Named, Registered
<1>3. Named(row.name) # {} => gitRepo[UpsertedId(id, row)] \in GitRepoRow
  <2>1. SUFFICES ASSUME Named(row.name) # {} PROVE gitRepo[UpsertedId(id, row)] \in GitRepoRow
    OBVIOUS
  <2>2. UpsertedId(id, row) \in Named(row.name)
    BY <2>1 DEF UpsertedId
  <2>3. QED
    BY <1>1, <2>2 DEF Named, Registered, Rows
<1>4. UpsertGitRepo(id, row) \in Rows
  <2>1. Named(row.name) # {} => [row EXCEPT !.isDefault = gitRepo[UpsertedId(id, row)].isDefault] \in GitRepoRow
    BY <1>3 DEF GitRepoRow
  <2>2. QED
    BY <1>1, <1>2, <2>1 DEF UpsertGitRepo, Rows
<1>5. UpsertedVault(id, row) \in Vaults /\ \A r \in RepoId : UpsertedVault(id, row)[r] = vault[r] \/ UpsertedVault(id, row)[r] = NoSecret
  BY <1>1 DEF UpsertedVault, Vaults
<1>6. QED
  BY <1>2, <1>4, <1>5

LEMMA EraseFacts ==
  ASSUME ReposTypeOK, NEW id \in RepoId, EraseRepo(id)
  PROVE  /\ gitRepo' \in Rows /\ vault' \in Vaults
         /\ \A r \in RepoId : vault'[r] = vault[r] \/ vault'[r] = NoSecret
BY GitReposAssumption DEF EraseRepo, ReposTypeOK, Rows, Vaults, NoSecret

\* Rows change, hooks and provisionings do not.
LEMMA RowsChange ==
  ASSUME ReposInv, gitRepo' \in Rows, vault' \in Vaults, \A r \in RepoId : vault'[r] = vault[r] \/ vault'[r] = NoSecret,
         UNCHANGED <<hook, secrets, provisions, interrupted>>, attaching' \subseteq RepoId,
         deletions' \subseteq [id : RepoId, checked : BOOLEAN],
         updates' \subseteq [id : RepoId, row : GitRepoRow, promote : BOOLEAN], requests' \in 0 .. MaxRepoRequests
  PROVE  ReposInv'
<1>1. ReposTypeOK'
  BY DEF ReposInv, ReposTypeOK, Rows, Vaults
<1>2. HooksOK(Running', hook', vault', interrupted')
  BY HooksStand DEF ReposInv, Running
<1>3. QED
  BY <1>1, <1>2 DEF ReposInv

LEMMA BeginTyped == ASSUME ReposInv, Begin PROVE requests' \in 0 .. MaxRepoRequests
BY GitReposAssumption DEF Begin, ReposInv, ReposTypeOK

LEMMA ReposTypes ==
  ASSUME ReposInv
  PROVE  /\ gitRepo \in Rows /\ vault \in Vaults /\ attaching \subseteq RepoId
         /\ deletions \subseteq [id : RepoId, checked : BOOLEAN]
         /\ updates \subseteq [id : RepoId, row : GitRepoRow, promote : BOOLEAN]
         /\ requests \in 0 .. MaxRepoRequests /\ ReposTypeOK
         /\ \A r \in Registered : r \in RepoId /\ gitRepo[r] \in GitRepoRow
BY DEF ReposInv, ReposTypeOK, Rows, Vaults, Registered

LEMMA registerRepoKeepsInv ==
  ASSUME ReposInv, NEW in \in RepoInput, NEW attach \in BOOLEAN, registerRepo(in, attach) PROVE ReposInv'
<1>1. PICK id \in RepoId :
        /\ gitRepo' = UpsertGitRepo(id, in) /\ vault' = UpsertedVault(id, in)
        /\ attaching' \in {attaching, attaching \cup {UpsertedId(id, in)}}
  BY DEF registerRepo
<1>2. /\ UNCHANGED <<hook, secrets, provisions, interrupted, deletions, updates>> /\ Begin /\ in \in GitRepoRow
  BY DEF registerRepo, RepoInput
<1>3. /\ UpsertedId(id, in) \in RepoId
      /\ gitRepo' \in Rows /\ vault' \in Vaults /\ \A r \in RepoId : vault'[r] = vault[r] \/ vault'[r] = NoSecret
  BY <1>1, <1>2, UpsertFacts, ReposTypes
<1>4. attaching' \subseteq RepoId
  BY <1>1, <1>3, ReposTypes
<1>5. QED
  BY <1>2, <1>3, <1>4, ReposTypes, BeginTyped, RowsChange

LEMMA AttachRootAppKeepsInv == ASSUME ReposInv, NEW id \in RepoId, AttachRootApp(id) PROVE ReposInv'
<1>1. UNCHANGED <<hook, secrets, provisions, interrupted, deletions, updates, requests>> /\ attaching' \subseteq RepoId
  BY ReposTypes DEF AttachRootApp
<1>2. gitRepo' \in Rows /\ vault' \in Vaults /\ \A r \in RepoId : vault'[r] = vault[r] \/ vault'[r] = NoSecret
  BY ReposTypes, EraseFacts DEF AttachRootApp
<1>3. QED
  BY <1>1, <1>2, ReposTypes, RowsChange

\* A provisioning that has read its row holds no lock yet.
LEMMA ProvisionLoadsKeepsInv == ASSUME ReposInv, NEW id \in RepoId, ProvisionLoads(id) PROVE ReposInv'
<1> DEFINE p == [id |-> id, slug |-> gitRepo[id].repo, secret |-> 0]
<1>1. /\ provisions' = provisions \cup {p} /\ Begin /\ id \in Registered
      /\ UNCHANGED <<gitRepo, vault, hook, secrets, interrupted, attaching, deletions, updates>>
  BY DEF ProvisionLoads
<1>2. gitRepo[id].repo \in Slug
  BY <1>1, ReposTypes DEF GitRepoRow
<1>3. p \in [id : RepoId, slug : Slug, secret : 0 .. MaxSecrets] /\ p.secret = 0
  BY <1>2, GitReposAssumption
<1> HIDE DEF p
<1>4. ReposTypeOK'
  BY <1>1, <1>3, BeginTyped DEF ReposInv, ReposTypeOK
<1>5. Running' = Running
  BY <1>1, <1>3 DEF Running
<1>6. QED
  BY <1>1, <1>4, <1>5 DEF ReposInv

\* A new secret in the hook of the slug that was read, carried by the only provisioning of the
\* row that holds its lock.
LEMMA provisionLockedKeepsInv == ASSUME ReposInv, NEW o \in provisions, provisionLocked(o) PROVE ReposInv'
<1> DEFINE p == [o EXCEPT !.secret = secrets']
           id == o.id
<1>1. /\ o.secret = 0 /\ (\A q \in Running : q.id # id) /\ secrets' = secrets + 1 /\ secrets < MaxSecrets
      /\ provisions' = (provisions \ {o}) \cup {p}
      /\ hook' = [hook EXCEPT ![o.slug] = [secret |-> secrets', by |-> id]]
      /\ UNCHANGED <<gitRepo, vault, interrupted, attaching, deletions, updates, requests>>
  BY DEF provisionLocked, Locked, Running
<1>2. secrets' \in 1 .. MaxSecrets
  BY <1>1, GitReposAssumption DEF ReposInv, ReposTypeOK
<1>3. /\ hook \in [Slug -> [secret : 0 .. MaxSecrets, by : RepoId \cup {NoRepo}]]
      /\ provisions \subseteq [id : RepoId, slug : Slug, secret : 0 .. MaxSecrets]
      /\ Running \subseteq provisions
  BY DEF ReposInv, ReposTypeOK, Running
<1>4. /\ o \in [id : RepoId, slug : Slug, secret : 0 .. MaxSecrets] /\ id \in RepoId /\ o.slug \in Slug
      /\ p \in [id : RepoId, slug : Slug, secret : 0 .. MaxSecrets] /\ p.id = id /\ p.slug = o.slug /\ p.secret = secrets'
  BY <1>2, <1>3
<1> HIDE DEF p, id
<1>5. Running' = Running \cup {p}
  BY <1>1, <1>2, <1>4 DEF Running
<1>6. ReposTypeOK'
  <2>1. hook' \in [Slug -> [secret : 0 .. MaxSecrets, by : RepoId \cup {NoRepo}]]
    BY <1>1, <1>2, <1>3, <1>4
  <2>2. QED
    BY <1>1, <1>2, <1>3, <1>4, <2>1 DEF ReposInv, ReposTypeOK
<1>7. HooksOK(Running', hook', vault', interrupted')
  <2>1. HooksOK(Running, hook, vault, interrupted)
    BY DEF ReposInv
  <2>2. /\ hook'[p.slug].by = id /\ hook'[p.slug].secret = p.secret
        /\ \A s \in Slug : s # p.slug => hook'[s] = hook[s]
    BY <1>1, <1>3, <1>4
  <2>3. \A q \in Running' : q = p \/ (q \in Running /\ q.id # id /\ q.slug \in Slug)
    BY <1>1, <1>3, <1>5
  <2>4. \A q, u \in Running' : q.id = u.id => q = u
    BY <1>4, <2>1, <2>3 DEF HooksOK
  <2>5. \A q \in Running' : hook'[q.slug].by = q.id => hook'[q.slug].secret = q.secret
    BY <1>4, <2>1, <2>2, <2>3 DEF HooksOK
  <2>6. p \in Running' /\ Running \subseteq Running'
    BY <1>5
  <2>7. \A r \in RepoId, s \in Slug :
          hook'[s].by = r /\ vault[r].slug = s /\ r \notin interrupted /\ (\A q \in Running' : q.id # r)
          => hook'[s].secret = vault[r].secret
    BY <1>4, <2>1, <2>2, <2>6 DEF HooksOK
  <2>8. QED
    BY <1>1, <2>4, <2>5, <2>7 DEF HooksOK
<1>8. QED
  BY <1>6, <1>7 DEF ReposInv

LEMMA PutSecretKeepsInv == ASSUME ReposInv, NEW p \in provisions, PutSecret(p) PROVE ReposInv'
<1>1. /\ p.secret # 0 /\ provisions' = provisions \ {p} /\ UNCHANGED <<gitRepo, hook, secrets, attaching, deletions, updates, requests>>
      /\ \/ /\ vault' = [vault EXCEPT ![p.id] = [secret |-> p.secret, slug |-> p.slug]]
            /\ interrupted' = interrupted \ {p.id}
         \/ vault' = vault /\ interrupted' = interrupted \cup {p.id}
  BY DEF PutSecret
<1>2. p.id \in RepoId /\ p.slug \in Slug /\ p.secret \in 0 .. MaxSecrets
  BY DEF ReposInv, ReposTypeOK
<1>3. vault \in Vaults /\ vault' \in Vaults
  BY <1>1, <1>2, ReposTypes DEF Vaults
<1>4. ReposTypeOK'
  BY <1>1, <1>2, <1>3 DEF ReposInv, ReposTypeOK, Vaults
<1>5. HooksOK(Running', hook, vault', interrupted')
  <2>1. HooksOK(Running, hook, vault, interrupted) /\ Running' = Running \ {p} /\ p \in Running
    BY <1>1 DEF ReposInv, Running
  <2>2. \A q \in Running : q \in Running' \/ q = p
    BY <2>1
  <2>3. \A r \in RepoId : r # p.id => vault'[r] = vault[r] /\ (r \in interrupted' <=> r \in interrupted)
    BY <1>1, <1>2, <1>3 DEF Vaults
  <2>4. p.id \notin interrupted' => vault'[p.id].secret = p.secret /\ vault'[p.id].slug = p.slug
    BY <1>1, <1>2, <1>3 DEF Vaults
  <2>5. \A r \in RepoId, s \in Slug :
          hook[s].by = r /\ vault'[r].slug = s /\ r \notin interrupted' /\ (\A q \in Running' : q.id # r)
          => hook[s].secret = vault'[r].secret
    BY <2>1, <2>2, <2>3, <2>4 DEF HooksOK
  <2>6. QED
    BY <1>1, <2>1, <2>5 DEF HooksOK
<1>6. QED
  BY <1>1, <1>4, <1>5 DEF ReposInv

LEMMA UpdateRepoLoadKeepsInv ==
  ASSUME ReposInv, NEW id \in RepoId, NEW promote \in BOOLEAN, UpdateRepoLoad(id, promote) PROVE ReposInv'
<1>1. /\ id \in Registered /\ updates' = updates \cup {[id |-> id, promote |-> promote, row |-> gitRepo[id]]}
      /\ UNCHANGED <<gitRepo, vault, hook, secrets, provisions, interrupted, attaching, deletions>> /\ Begin
  BY DEF UpdateRepoLoad
<1>2. updates' \subseteq [id : RepoId, row : GitRepoRow, promote : BOOLEAN]
  BY <1>1, ReposTypes
<1>3. QED
  BY <1>1, <1>2, ReposTypes, BeginTyped, RowsChange

LEMMA UpdateRepoKeepsInv == ASSUME ReposInv, NEW o \in updates, UpdateRepo(o) PROVE ReposInv'
<1> DEFINE rows == UpsertGitRepo(o.id, o.row)
<1>1. /\ updates' = updates \ {o}
      /\ UNCHANGED <<hook, secrets, provisions, interrupted, attaching, deletions, requests>>
      /\ \/ gitRepo' \in {rows, SetDefaultGitRepo(rows, o.id)} /\ vault' = UpsertedVault(o.id, o.row)
         \/ gitRepo' = gitRepo /\ vault' = vault
  BY DEF UpdateRepo
<1>2. o.id \in RepoId /\ o.row \in GitRepoRow
  BY ReposTypes
<1>3. /\ rows \in Rows /\ UpsertedVault(o.id, o.row) \in Vaults
      /\ \A r \in RepoId : UpsertedVault(o.id, o.row)[r] = vault[r] \/ UpsertedVault(o.id, o.row)[r] = NoSecret
  BY <1>2, UpsertFacts, ReposTypes
<1> HIDE DEF rows
<1>4. SetDefaultGitRepo(rows, o.id) \in Rows
  <2>1. \A r \in RepoId : rows[r] # NoRepo => [rows[r] EXCEPT !.isDefault = (r = o.id)] \in GitRepoRow
    BY <1>3 DEF Rows, GitRepoRow
  <2>2. QED
    BY <2>1 DEF SetDefaultGitRepo, Rows
<1>5. gitRepo' \in Rows /\ vault' \in Vaults /\ \A r \in RepoId : vault'[r] = vault[r] \/ vault'[r] = NoSecret
  BY <1>1, <1>3, <1>4, ReposTypes
<1>6. QED
  BY <1>1, <1>5, ReposTypes, RowsChange

LEMMA DeletionsKeepInv ==
  ASSUME ReposInv, \/ \E id \in RepoId : Unregister(id)
                   \/ \E d \in deletions : DeleteGitRepoRead(d) \/ DeleteGitRepo(d)
  PROVE  ReposInv'
<1>1. ASSUME NEW id \in RepoId, Unregister(id) PROVE ReposInv'
  <2>1. /\ deletions' = deletions \cup {[id |-> id, checked |-> FALSE]} /\ Begin
        /\ UNCHANGED <<gitRepo, vault, hook, secrets, provisions, interrupted, attaching, updates>>
    BY <1>1 DEF Unregister
  <2>2. deletions' \subseteq [id : RepoId, checked : BOOLEAN]
    <3>1. [id |-> id, checked |-> FALSE] \in [id : RepoId, checked : BOOLEAN]
      OBVIOUS
    <3>2. QED
      BY <2>1, <3>1, ReposTypes
  <2>3. QED
    BY <2>1, <2>2, ReposTypes, BeginTyped, RowsChange
<1>2. ASSUME NEW d \in deletions, DeleteGitRepoRead(d) PROVE ReposInv'
  <2>1. /\ deletions' \in {deletions \ {d}, (deletions \ {d}) \cup {[d EXCEPT !.checked = TRUE]}}
        /\ UNCHANGED <<gitRepo, vault, hook, secrets, provisions, interrupted, attaching, updates, requests>>
    BY <1>2 DEF DeleteGitRepoRead
  <2>2. [d EXCEPT !.checked = TRUE] \in [id : RepoId, checked : BOOLEAN]
    <3>1. d \in [id : RepoId, checked : BOOLEAN]
      BY ReposTypes
    <3>2. QED
      BY <3>1
  <2>3. deletions' \subseteq [id : RepoId, checked : BOOLEAN]
    BY <2>1, <2>2, ReposTypes
  <2>4. QED
    BY <2>1, <2>3, ReposTypes, RowsChange
<1>3. ASSUME NEW d \in deletions, DeleteGitRepo(d) PROVE ReposInv'
  <2>2. d.id \in RepoId /\ deletions' \subseteq [id : RepoId, checked : BOOLEAN]
    BY <1>3, ReposTypes DEF DeleteGitRepo
  <2>3. gitRepo' \in Rows /\ vault' \in Vaults /\ \A r \in RepoId : vault'[r] = vault[r] \/ vault'[r] = NoSecret
    BY <1>3, <2>2, ReposTypes, EraseFacts DEF DeleteGitRepo
  <2>4. UNCHANGED <<hook, secrets, provisions, interrupted, attaching, updates, requests>>
    BY <1>3 DEF DeleteGitRepo
  <2>5. QED
    BY <2>2, <2>3, <2>4, ReposTypes, RowsChange
<1>4. QED
  BY <1>1, <1>2, <1>3

LEMMA syncDefaultKeepsInv == ASSUME ReposInv, NEW slug \in Slug, syncDefaultRepoFromConfig(slug) PROVE ReposInv'
<1>1. UNCHANGED <<hook, secrets, provisions, interrupted, attaching, deletions, updates>> /\ Begin
  BY DEF syncDefaultRepoFromConfig
<1>2. CASE gitRepo' = [r \in RepoId |-> IF r \in Default THEN [gitRepo[r] EXCEPT !.repo = slug] ELSE gitRepo[r]] /\ vault' = vault
  <2>1. \A r \in Default : [gitRepo[r] EXCEPT !.repo = slug] \in GitRepoRow
    BY ReposTypes DEF Default, GitRepoRow
  <2>2. gitRepo' \in Rows
    BY <1>2, <2>1, ReposTypes DEF Rows
  <2>3. QED
    BY <1>1, <1>2, <2>2, ReposTypes, BeginTyped, RowsChange
<1>3. ASSUME NEW id \in RepoId,
             gitRepo' = UpsertGitRepo(id, [name |-> BaselineName, repo |-> slug, scope |-> "platform", isDefault |-> TRUE]),
             vault' = UpsertedVault(id, [name |-> BaselineName, repo |-> slug, scope |-> "platform", isDefault |-> TRUE])
      PROVE  ReposInv'
  <2> DEFINE row == [name |-> BaselineName, repo |-> slug, scope |-> "platform", isDefault |-> TRUE]
  <2>1. row \in GitRepoRow
    BY GitReposAssumption DEF GitRepoRow
  <2>2. gitRepo' = UpsertGitRepo(id, row) /\ vault' = UpsertedVault(id, row)
    BY <1>3
  <2> HIDE DEF row
  <2>3. gitRepo' \in Rows /\ vault' \in Vaults /\ \A r \in RepoId : vault'[r] = vault[r] \/ vault'[r] = NoSecret
    BY <2>1, <2>2, UpsertFacts, ReposTypes
  <2>4. QED
    BY <1>1, <2>3, ReposTypes, BeginTyped, RowsChange
<1>4. QED
  BY <1>2, <1>3 DEF syncDefaultRepoFromConfig

LEMMA ReposInvStep == ASSUME ReposInv, [ReposNext]_repoVars PROVE ReposInv'
<1>1. CASE UNCHANGED repoVars
  BY <1>1 DEF repoVars, ReposInv, ReposTypeOK, Running
<1>2. CASE RepoRoutes
  <2>1. PICK u \in User : \/ httpRegisterRepo(u) \/ httpUpdateRepo(u) \/ httpUnregisterRepo(u)
                          \/ httpEnsureWebhook(u) \/ httpSetGitConfig(u)
    BY <1>2 DEF RepoRoutes
  <2>2. CASE httpRegisterRepo(u)
    BY <2>2, registerRepoKeepsInv DEF httpRegisterRepo
  <2>3. CASE httpUpdateRepo(u)
    BY <2>3, UpdateRepoLoadKeepsInv DEF httpUpdateRepo, Registered
  <2>4. CASE httpUnregisterRepo(u)
    BY <2>4, DeletionsKeepInv DEF httpUnregisterRepo
  <2>5. CASE httpEnsureWebhook(u)
    BY <2>5, ProvisionLoadsKeepsInv DEF httpEnsureWebhook, EnsureRepoWebhook
  <2>6. CASE httpSetGitConfig(u)
    BY <2>6, syncDefaultKeepsInv DEF httpSetGitConfig
  <2>7. QED
    BY <2>1, <2>2, <2>3, <2>4, <2>5, <2>6
<1>3. CASE RegisterTeamRepo
  BY <1>3, registerRepoKeepsInv DEF RegisterTeamRepo
<1>4. CASE ReconcileWebhooks
  BY <1>4, ProvisionLoadsKeepsInv DEF ReconcileWebhooks, ListGitReposWithoutWebhook, Registered
<1>5. CASE \E id \in RepoId : AttachRootApp(id)
  BY <1>5, AttachRootAppKeepsInv
<1>6. CASE \E d \in deletions : DeleteGitRepoRead(d) \/ DeleteGitRepo(d)
  BY <1>6, DeletionsKeepInv
<1>7. CASE \E p \in provisions : provisionLocked(p) \/ PutSecret(p)
  BY <1>7, PutSecretKeepsInv, provisionLockedKeepsInv
<1>8. CASE \E o \in updates : UpdateRepo(o)
  BY <1>8, UpdateRepoKeepsInv
<1>9. QED
  BY <1>1, <1>2, <1>3, <1>4, <1>5, <1>6, <1>7, <1>8 DEF ReposNext

\* What the run checks of repositories follows.
LEMMA ReposInvGives == ASSUME ReposInv PROVE ReposTypeOK /\ SecretsAgree
BY DEF ReposInv, HooksOK, SecretsAgree, Registered, Running, Locked

-----------------------------------------------------------------------------
(* Addons *)

\* A call that read a row, or claimed one, holds it as long as it runs.
HasRow(r) == r.pc \in {"write", "register", "record", "merge", "fleet"}
RowOps == {"adopt", "update", "prune"}
ManagedStates == {"managed", "update_failed"}
Unwritten == {"discovered", "adopting"}
ManifestOK(f) == f # NoManifest => f.path \in AddonPath /\ f.app \in AddonId /\ f.version \in AddonVersion
FilesOK(tree) == tree \in [AddonPath -> Manifest] /\ \A p \in AddonPath : ManifestOK(tree[p])
WrittenTo(i, gits) == i \in AddonId /\ gits[i] # NoManifest

\* The steps of each kind of call, and what its row has.
AddonShapeOK(r, gits) ==
    /\ r.pc = "idle" => r = IdleAddonCall
    /\ r.pc \in {"write", "register", "record"} => r.op \in RowOps
    /\ r.pc \in {"merge", "ingest", "fleet"} => r.op = r.pc
    /\ r.op = "fleet" => r.key = "*"
    /\ HasRow(r) => r.row.id \in AddonId /\ r.row.app \in AddonId
    /\ r.pc \in {"write", "register", "record", "fleet"} => r.row.state = "managed" /\ r.row.version \in AddonVersion
    /\ r.pc \in {"register", "record", "merge"} => WrittenTo(r.row.id, gits)
    /\ HasRow(r) /\ (r.op # "adopt" \/ r.pc \in {"register", "record"}) => WrittenTo(r.row.app, gits)
    /\ r.op = "adopt" /\ HasRow(r) => r.row.app = r.row.id
    /\ r.pc = "ingest" => r.row = NoRow

AddonRowOK(r, gits) ==
    /\ r.state = "absent" => r = NoRow
    /\ r.state # "absent" => r.id \in AddonId
    /\ r.state \in Unwritten => r.app = NoAddon /\ ~r.pr
    /\ r.state \in ManagedStates => WrittenTo(r.app, gits) /\ r.version \in AddonVersion

\* Every id belongs to one row of the table, whoever holds it.
Owned(own, rows, calls, regs) ==
    /\ \A k \in AddonKey : rows[k].state # "absent" => own[rows[k].id] = k /\ (rows[k].app \in AddonId => own[rows[k].app] = k)
    /\ \A c \in AddonCall : HasRow(calls[c]) => own[calls[c].row.id] = calls[c].key /\ own[calls[c].row.app] = calls[c].key
    /\ \A i \in AddonId : regs[i] # NoRegistration => regs[i].key = own[i]
OwnedByOne(rows, calls, regs) == \E own \in [AddonId -> AddonKey] : Owned(own, rows, calls, regs)

\* What is about to be recorded without a pull request is registered.
AddonQueued(r, regs) ==
    /\ r.pc = "record" /\ ~r.row.pr => regs[r.row.id] # NoRegistration
    /\ r.pc = "merge" /\ r.key # "*" => regs[r.row.id] # NoRegistration
    /\ r.pc \in {"write", "register"} => ~r.row.pr

\* The application of an adoption is in no other row and call until it is recorded, and the id of a
\* row that no call has written is in no call but the adoption that claimed it.
ClaimsAlone(rows, calls) ==
    /\ \A c \in AddonCall : HasRow(calls[c]) /\ calls[c].op = "adopt" =>
          /\ \A k \in AddonKey : rows[k].app # calls[c].row.id
          /\ \A d \in AddonCall : d # c /\ HasRow(calls[d]) => calls[d].row.app # calls[c].row.id
    /\ \A k \in AddonKey : rows[k].state \in Unwritten =>
          /\ \A j \in AddonKey : rows[j].app # rows[k].id
          /\ \A c \in AddonCall : HasRow(calls[c]) /\ rows[k].id \in {calls[c].row.id, calls[c].row.app} =>
                calls[c].op = "adopt" /\ rows[k].state = "adopting"

\* The application of an id is in a row, or in a call that read it under another id.
TakenOver(i, rows, calls) ==
    \/ \E k \in AddonKey : rows[k].app = i
    \/ \E c \in AddonCall : HasRow(calls[c]) /\ calls[c].row.app = i /\ calls[c].row.id # i
OwnRegistered(rows, calls, regs) ==
    \A k \in AddonCluster : rows[k].state \in ManagedStates /\ ~rows[k].pr =>
        /\ \E i \in AddonId : regs[i].key = k
        /\ TakenOver(rows[k].id, rows, calls) => regs[rows[k].id] # NoRegistration

AddonFits(rows, calls, gits, regs) ==
    /\ rows \in [AddonKey -> ClusterAddon] /\ calls \in [AddonCall -> AddonCallRow]
    /\ gits \in [AddonId -> Manifest] /\ regs \in [AddonId -> Registration]
    /\ \A k \in AddonKey : AddonRowOK(rows[k], gits)
    /\ \A c \in AddonCall : AddonShapeOK(calls[c], gits) /\ AddonQueued(calls[c], regs)
    /\ \A i \in AddonId : regs[i] # NoRegistration => gits[i] # NoManifest
    /\ \A i \in AddonId : ManifestOK(gits[i])
    /\ OwnedByOne(rows, calls, regs) /\ ClaimsAlone(rows, calls) /\ OwnRegistered(rows, calls, regs)
AddonInv == AddonTypeOK /\ AddonFits(addon, addonCall, manifest, registered) /\ FilesOK(gitFile)

LEMMA AddonPaths == \A k \in AddonKey : pathOf(k) \in AddonPath
BY AddonAssumption DEF AddonKey, pathOf, AddonPath, Mode

LEMMA AddonConstants ==
  /\ NoRow \in ClusterAddon /\ NoRow.state = "absent" /\ NoRow.id = NoAddon /\ NoRow.app = NoAddon /\ NoRow.pr = FALSE /\ NoRow.prune = FALSE
  /\ NoRow.version = NoAddon
  /\ NoManifest \in Manifest /\ NoManifest.version = NoAddon /\ NoManifest.merged = FALSE
  /\ NoRegistration \in Registration /\ NoRegistration.key = NoAddon
  /\ IdleAddonCall \in AddonCallRow /\ IdleAddonCall.pc = "idle" /\ IdleAddonCall.key = "*" /\ IdleAddonCall.row = NoRow
  /\ NoAddon \notin AddonId /\ NoAddon \notin AddonVersion /\ NoAddon \notin AddonKey
<1>1. /\ NoRow \in ClusterAddon /\ NoRow.state = "absent" /\ NoRow.id = NoAddon /\ NoRow.app = NoAddon /\ NoRow.pr = FALSE /\ NoRow.prune = FALSE
      /\ NoRow.version = NoAddon
  BY DEF NoRow, ClusterAddon
<1>2. NoManifest \in Manifest /\ NoManifest.version = NoAddon /\ NoManifest.merged = FALSE
  BY DEF NoManifest, Manifest
<1>3. NoRegistration \in Registration /\ NoRegistration.key = NoAddon
  BY DEF NoRegistration, Registration
<1>4. "*" \in AddonKey
  BY DEF AddonKey
<1>5. IdleAddonCall \in AddonCallRow /\ IdleAddonCall.pc = "idle" /\ IdleAddonCall.key = "*" /\ IdleAddonCall.row = NoRow
  BY <1>1, <1>4 DEF IdleAddonCall, AddonCallRow
<1>6. NoAddon \notin AddonId /\ NoAddon \notin AddonVersion /\ NoAddon \notin AddonKey
  BY AddonAssumption DEF AddonKey
<1>7. QED
  BY <1>1, <1>2, <1>3, <1>5, <1>6

LEMMA IdleAddonFacts == \A gits, regs : ~HasRow(IdleAddonCall) /\ AddonShapeOK(IdleAddonCall, gits) /\ AddonQueued(IdleAddonCall, regs)
BY AddonConstants DEF HasRow, AddonShapeOK, AddonQueued, RowOps, IdleAddonCall

LEMMA AddonInvInit == ASSUME AddonInit PROVE AddonInv
<1>1. AddonTypeOK
  <2>1. addon \in [AddonKey -> ClusterAddon] /\ manifest \in [AddonId -> Manifest] /\ gitFile \in [AddonPath -> Manifest] /\ registered \in [AddonId -> Registration]
        /\ addonCall \in [AddonCall -> AddonCallRow]
    BY AddonConstants DEF AddonInit
  <2>2. addonAsked \in 0 .. MaxAddonRequests /\ addonFaults \in 0 .. MaxAddonFaults
    BY AddonAssumption DEF AddonInit
  <2>3. upClusters \subseteq AddonCluster /\ fleetEvents \in BOOLEAN
    BY DEF AddonInit
  <2>4. QED
    BY <2>1, <2>2, <2>3 DEF AddonTypeOK
<1>2. /\ \A k \in AddonKey : addon[k] = NoRow
      /\ \A c \in AddonCall : addonCall[c] = IdleAddonCall
      /\ \A i \in AddonId : registered[i] = NoRegistration /\ manifest[i] = NoManifest
      /\ \A p \in AddonPath : gitFile[p] = NoManifest
  BY DEF AddonInit
<1>3. \A k \in AddonKey : AddonRowOK(addon[k], manifest)
  BY <1>2, AddonConstants DEF AddonRowOK, Unwritten, ManagedStates
<1>4. OwnedByOne(addon, addonCall, registered)
  <2>1. [i \in AddonId |-> "*"] \in [AddonId -> AddonKey]
    BY DEF AddonKey
  <2>2. Owned([i \in AddonId |-> "*"], addon, addonCall, registered)
    BY <1>2, AddonConstants, IdleAddonFacts DEF Owned
  <2>3. QED
    BY <2>1, <2>2 DEF OwnedByOne
<1>5. ClaimsAlone(addon, addonCall)
  BY <1>2, AddonConstants, IdleAddonFacts DEF ClaimsAlone, Unwritten
<1>6. OwnRegistered(addon, addonCall, registered)
  BY <1>2, AddonConstants DEF OwnRegistered, ManagedStates, AddonKey
<1>7. FilesOK(gitFile) /\ \A i \in AddonId : ManifestOK(manifest[i])
  BY <1>1, <1>2 DEF FilesOK, ManifestOK, AddonTypeOK
<1>8. QED
  BY <1>1, <1>2, <1>3, <1>4, <1>5, <1>6, <1>7, IdleAddonFacts DEF AddonInv, AddonFits, AddonTypeOK

-----------------------------------------------------------------------------
(* Addons: how rows, calls, manifests and registrations may change *)

\* A call ends, whatever it did.
LEMMA AddonCallEnds ==
  ASSUME NEW rows, NEW calls, NEW gits, NEW regs, AddonFits(rows, calls, gits, regs), NEW c \in AddonCall
  PROVE  AddonFits(rows, [calls EXCEPT ![c] = IdleAddonCall], gits, regs)
<1> DEFINE calls2 == [calls EXCEPT ![c] = IdleAddonCall]
<1>1. /\ calls2 \in [AddonCall -> AddonCallRow] /\ calls2[c] = IdleAddonCall /\ \A d \in AddonCall : d # c => calls2[d] = calls[d]
      /\ ~HasRow(calls2[c])
  BY AddonConstants, IdleAddonFacts DEF AddonFits
<1> HIDE DEF calls2
<1>2. \A d \in AddonCall : AddonShapeOK(calls2[d], gits) /\ AddonQueued(calls2[d], regs)
  BY <1>1, IdleAddonFacts DEF AddonFits
<1>3. OwnedByOne(rows, calls2, regs)
  <2>1. PICK own \in [AddonId -> AddonKey] : Owned(own, rows, calls, regs)
    BY DEF AddonFits, OwnedByOne
  <2>2. Owned(own, rows, calls2, regs)
    BY <1>1, <2>1 DEF Owned
  <2>3. QED
    BY <2>2 DEF OwnedByOne
<1>4. ClaimsAlone(rows, calls2)
  BY <1>1 DEF AddonFits, ClaimsAlone
<1>5. OwnRegistered(rows, calls2, regs)
  <2>1. \A i : TakenOver(i, rows, calls2) => TakenOver(i, rows, calls)
    BY <1>1 DEF TakenOver
  <2>2. QED
    BY <2>1 DEF AddonFits, OwnRegistered
<1>6. QED
  BY <1>1, <1>2, <1>3, <1>4, <1>5 DEF AddonFits, calls2

\* Rows are deleted, each alone or all that were sighted.
LEMMA AddonRowsGo ==
  ASSUME NEW rows, NEW calls, NEW gits, NEW regs, AddonFits(rows, calls, gits, regs), NEW rows2 \in [AddonKey -> ClusterAddon],
         \A k \in AddonKey : rows2[k] = rows[k] \/ rows2[k] = NoRow
  PROVE  AddonFits(rows2, calls, gits, regs)
<1>1. \A k \in AddonKey : AddonRowOK(rows2[k], gits)
  BY AddonConstants DEF AddonFits, AddonRowOK, Unwritten, ManagedStates
<1>2. OwnedByOne(rows2, calls, regs)
  <2>1. PICK own \in [AddonId -> AddonKey] : Owned(own, rows, calls, regs)
    BY DEF AddonFits, OwnedByOne
  <2>2. Owned(own, rows2, calls, regs)
    BY <2>1, AddonConstants DEF Owned
  <2>3. QED
    BY <2>2 DEF OwnedByOne
<1>3. \A k \in AddonKey : rows2[k].state = "absent" \/ (rows2[k] = rows[k] /\ rows[k].id \in AddonId)
  BY AddonConstants DEF AddonFits, AddonRowOK
<1>4. \A i \in AddonId, k \in AddonKey : rows2[k].app = i => rows[k].app = i
  BY AddonConstants
<1>5. ClaimsAlone(rows2, calls)
  <2>1. \A c \in AddonCall : HasRow(calls[c]) => calls[c].row.id \in AddonId
    BY DEF AddonFits, AddonShapeOK
  <2>2. QED
    BY <1>3, <1>4, <2>1 DEF AddonFits, ClaimsAlone, Unwritten
<1>6. OwnRegistered(rows2, calls, regs)
  <2>1. \A i \in AddonId : TakenOver(i, rows2, calls) => TakenOver(i, rows, calls)
    BY <1>4 DEF TakenOver
  <2>2. ASSUME NEW k \in AddonCluster, rows2[k].state \in ManagedStates, ~rows2[k].pr
        PROVE  (\E i \in AddonId : regs[i].key = k) /\ (TakenOver(rows2[k].id, rows2, calls) => regs[rows2[k].id] # NoRegistration)
    <3>1. k \in AddonKey /\ rows2[k] = rows[k] /\ rows[k].id \in AddonId
      BY <1>3, <2>2 DEF AddonKey, ManagedStates
    <3>2. QED
      BY <2>1, <2>2, <3>1 DEF AddonFits, OwnRegistered
  <2>3. QED
    BY <2>2 DEF OwnRegistered
<1>7. QED
  BY <1>1, <1>2, <1>5, <1>6 DEF AddonFits

\* A manifest is written.
LEMMA AddonFileWritten ==
  ASSUME NEW rows, NEW calls, NEW gits, NEW regs, AddonFits(rows, calls, gits, regs), NEW i \in AddonId,
         NEW f \in Manifest, f # NoManifest, ManifestOK(f)
  PROVE  AddonFits(rows, calls, [gits EXCEPT ![i] = f], regs) /\ f # NoManifest
<1> DEFINE gits2 == [gits EXCEPT ![i] = f]
<1>1. /\ gits2 \in [AddonId -> Manifest] /\ gits2[i] = f /\ \A j \in AddonId : j # i => gits2[j] = gits[j]
      /\ f # NoManifest
  BY AddonConstants DEF AddonFits
<1> HIDE DEF gits2
<1>2. \A j : WrittenTo(j, gits) => WrittenTo(j, gits2)
  BY <1>1 DEF WrittenTo
<1>3. \A k \in AddonKey : AddonRowOK(rows[k], gits2)
  BY <1>2 DEF AddonFits, AddonRowOK
<1>4. \A c \in AddonCall : AddonShapeOK(calls[c], gits2)
  BY <1>2 DEF AddonFits, AddonShapeOK
<1>5. QED
  BY <1>1, <1>3, <1>4 DEF AddonFits, gits2

Enqueued(regs, i, k, a, v) == [regs EXCEPT ![i] = IF @ = NoRegistration THEN [key |-> k, app |-> a, version |-> v] ELSE @]

\* A registration is queued for a cluster by a call that has its row; one that is known is dropped.
LEMMA AddonRegisters ==
  ASSUME NEW rows, NEW calls, NEW gits, NEW regs, AddonFits(rows, calls, gits, regs),
         NEW i \in AddonId, NEW k \in AddonKey, NEW a \in AddonId, NEW v \in AddonVersion, gits[i] # NoManifest,
         \/ \E c \in AddonCall : HasRow(calls[c]) /\ calls[c].row.id = i /\ calls[c].key = k
         \/ rows[k].state # "absent" /\ rows[k].id = i,
         NEW regs2, regs2 = Enqueued(regs, i, k, a, v)
  PROVE  AddonFits(rows, calls, gits, regs2) /\ regs2[i] # NoRegistration
<1>1. [key |-> k, app |-> a, version |-> v] \in Registration /\ [key |-> k, app |-> a, version |-> v] # NoRegistration
  <2>1. [key |-> k, app |-> a, version |-> v].key = k /\ [key |-> k, app |-> a, version |-> v] \in Registration
    BY DEF Registration
  <2>2. QED
    BY <2>1, AddonConstants
<1>2. /\ regs2 \in [AddonId -> Registration] /\ regs2[i] # NoRegistration /\ \A j \in AddonId : regs[j] # NoRegistration => regs2[j] = regs[j]
      /\ \A j \in AddonId : j # i => regs2[j] = regs[j]
      /\ regs[i] = NoRegistration => regs2[i].key = k
  BY <1>1 DEF AddonFits, Enqueued
<1>3. \A c \in AddonCall : AddonQueued(calls[c], regs2)
  <2>1. \A c \in AddonCall : HasRow(calls[c]) => calls[c].row.id \in AddonId
    BY DEF AddonFits, AddonShapeOK
  <2>2. QED
    BY <1>2, <2>1 DEF AddonFits, AddonQueued, HasRow
<1>4. OwnedByOne(rows, calls, regs2)
  <2>1. PICK own \in [AddonId -> AddonKey] : Owned(own, rows, calls, regs)
    BY DEF AddonFits, OwnedByOne
  <2>2. own[i] = k
    BY <2>1 DEF Owned
  <2>3. Owned(own, rows, calls, regs2)
    BY <1>2, <2>1, <2>2 DEF Owned
  <2>4. QED
    BY <2>3 DEF OwnedByOne
<1>5. OwnRegistered(rows, calls, regs2)
  <2>1. ASSUME NEW j \in AddonCluster, rows[j].state \in ManagedStates, ~rows[j].pr
        PROVE  (\E x \in AddonId : regs2[x].key = j) /\ (TakenOver(rows[j].id, rows, calls) => regs2[rows[j].id] # NoRegistration)
    <3>1. j \in AddonKey /\ rows[j].id \in AddonId
      BY <2>1 DEF AddonFits, AddonRowOK, AddonKey, ManagedStates
    <3>2. PICK x \in AddonId : regs[x].key = j
      BY <2>1 DEF AddonFits, OwnRegistered
    <3>3. regs[x] # NoRegistration
      BY <3>1, <3>2, AddonConstants
    <3>4. QED
      BY <1>2, <2>1, <3>1, <3>2, <3>3 DEF AddonFits, OwnRegistered
  <2>2. QED
    BY <2>1 DEF OwnRegistered
<1>6. \A j \in AddonId : regs2[j] # NoRegistration => gits[j] # NoManifest
  BY <1>2 DEF AddonFits
<1>7. QED
  BY <1>2, <1>3, <1>4, <1>5, <1>6 DEF AddonFits

\* A call goes on with the row it has.
LEMMA AddonCallGoes ==
  ASSUME NEW rows, NEW calls, NEW gits, NEW regs, AddonFits(rows, calls, gits, regs), NEW c \in AddonCall, NEW r \in AddonCallRow,
         HasRow(calls[c]), r.key = calls[c].key, r.op = calls[c].op, r.row.id = calls[c].row.id, r.row.app = calls[c].row.app,
         AddonShapeOK(r, gits), AddonQueued(r, regs), HasRow(r)
  PROVE  AddonFits(rows, [calls EXCEPT ![c] = r], gits, regs)
<1> DEFINE calls2 == [calls EXCEPT ![c] = r]
<1>1. calls2 \in [AddonCall -> AddonCallRow] /\ calls2[c] = r /\ \A d \in AddonCall : d # c => calls2[d] = calls[d]
  BY DEF AddonFits
<1> HIDE DEF calls2
<1>2. \A d \in AddonCall : AddonShapeOK(calls2[d], gits) /\ AddonQueued(calls2[d], regs)
  BY <1>1 DEF AddonFits
<1>a. \A d \in AddonCall : /\ HasRow(calls2[d]) <=> HasRow(calls[d])
                           /\ HasRow(calls[d]) => /\ calls2[d].key = calls[d].key /\ calls2[d].op = calls[d].op
                                                  /\ calls2[d].row.id = calls[d].row.id /\ calls2[d].row.app = calls[d].row.app
  BY <1>1
<1>3. OwnedByOne(rows, calls2, regs)
  <2>1. PICK own \in [AddonId -> AddonKey] : Owned(own, rows, calls, regs)
    BY DEF AddonFits, OwnedByOne
  <2>2. Owned(own, rows, calls2, regs)
    BY <1>a, <2>1 DEF Owned
  <2>3. QED
    BY <2>2 DEF OwnedByOne
<1>4. ClaimsAlone(rows, calls2)
  BY <1>a DEF AddonFits, ClaimsAlone
<1>5. OwnRegistered(rows, calls2, regs)
  <2>1. \A i : TakenOver(i, rows, calls2) => TakenOver(i, rows, calls)
    BY <1>a DEF TakenOver
  <2>2. QED
    BY <2>1 DEF AddonFits, OwnRegistered
<1>6. QED
  BY <1>1, <1>2, <1>3, <1>4, <1>5 DEF AddonFits, calls2

\* A call begins with a row it read.
LEMMA AddonCallReads ==
  ASSUME NEW rows, NEW calls, NEW gits, NEW regs, AddonFits(rows, calls, gits, regs), NEW c \in AddonCall, NEW r \in AddonCallRow,
         ~HasRow(calls[c]), NEW k \in AddonKey, rows[k].state \in ManagedStates,
         r.key = k, r.op # "adopt", r.row.id = rows[k].id, r.row.app = rows[k].app, AddonShapeOK(r, gits), AddonQueued(r, regs)
  PROVE  AddonFits(rows, [calls EXCEPT ![c] = r], gits, regs)
<1> DEFINE calls2 == [calls EXCEPT ![c] = r]
<1>1. calls2 \in [AddonCall -> AddonCallRow] /\ calls2[c] = r /\ \A d \in AddonCall : d # c => calls2[d] = calls[d]
  BY DEF AddonFits
<1> HIDE DEF calls2
<1>2. \A d \in AddonCall : AddonShapeOK(calls2[d], gits) /\ AddonQueued(calls2[d], regs)
  BY <1>1 DEF AddonFits
<1>3. /\ rows[k].id \in AddonId /\ rows[k].app \in AddonId /\ rows[k].state # "absent" /\ rows[k].state \notin Unwritten
      /\ \A j \in AddonKey : rows[j].state \in Unwritten => rows[j].id \in AddonId /\ rows[j].state # "absent"
  BY DEF AddonFits, AddonRowOK, ManagedStates, Unwritten, WrittenTo
<1>4. PICK own \in [AddonId -> AddonKey] : Owned(own, rows, calls, regs)
  BY DEF AddonFits, OwnedByOne
<1>5. own[rows[k].id] = k /\ own[rows[k].app] = k
  BY <1>3, <1>4 DEF Owned
<1>6. OwnedByOne(rows, calls2, regs)
  <2>1. Owned(own, rows, calls2, regs)
    BY <1>1, <1>4, <1>5 DEF Owned
  <2>2. QED
    BY <2>1 DEF OwnedByOne
<1>7. ClaimsAlone(rows, calls2)
  <2>1. ASSUME NEW d \in AddonCall, HasRow(calls2[d]), calls2[d].op = "adopt"
        PROVE  /\ \A j \in AddonKey : rows[j].app # calls2[d].row.id
               /\ \A e \in AddonCall : e # d /\ HasRow(calls2[e]) => calls2[e].row.app # calls2[d].row.id
    <3>1. d # c /\ calls2[d] = calls[d]
      BY <1>1, <2>1
    <3>2. QED
      BY <1>1, <2>1, <3>1 DEF AddonFits, ClaimsAlone
  <2>2. ASSUME NEW j \in AddonKey, rows[j].state \in Unwritten
        PROVE  /\ \A l \in AddonKey : rows[l].app # rows[j].id
               /\ \A d \in AddonCall : HasRow(calls2[d]) /\ rows[j].id \in {calls2[d].row.id, calls2[d].row.app} =>
                      calls2[d].op = "adopt" /\ rows[j].state = "adopting"
    <3>1. rows[j].id # rows[k].id /\ rows[j].id # rows[k].app
      BY <1>3, <1>4, <1>5, <2>2 DEF Owned
    <3>2. QED
      BY <1>1, <2>2, <3>1 DEF AddonFits, ClaimsAlone
  <2>3. QED
    BY <2>1, <2>2 DEF ClaimsAlone
<1>8. OwnRegistered(rows, calls2, regs)
  <2>1. \A i : TakenOver(i, rows, calls2) => TakenOver(i, rows, calls)
    BY <1>1 DEF TakenOver
  <2>2. QED
    BY <2>1 DEF AddonFits, OwnRegistered
<1>9. QED
  BY <1>1, <1>2, <1>6, <1>7, <1>8 DEF AddonFits, calls2

\* A sighting is about to be stored.
LEMMA AddonCallBegins ==
  ASSUME NEW rows, NEW calls, NEW gits, NEW regs, AddonFits(rows, calls, gits, regs), NEW c \in AddonCall, NEW r \in AddonCallRow,
         ~HasRow(calls[c]), ~HasRow(r), AddonShapeOK(r, gits), AddonQueued(r, regs)
  PROVE  AddonFits(rows, [calls EXCEPT ![c] = r], gits, regs)
<1> DEFINE calls2 == [calls EXCEPT ![c] = r]
<1>1. calls2 \in [AddonCall -> AddonCallRow] /\ calls2[c] = r /\ \A d \in AddonCall : d # c => calls2[d] = calls[d]
  BY DEF AddonFits
<1> HIDE DEF calls2
<1>2. \A d \in AddonCall : AddonShapeOK(calls2[d], gits) /\ AddonQueued(calls2[d], regs) /\ (HasRow(calls2[d]) => calls2[d] = calls[d] /\ HasRow(calls[d]))
  BY <1>1 DEF AddonFits
<1>3. OwnedByOne(rows, calls2, regs)
  <2>1. PICK own \in [AddonId -> AddonKey] : Owned(own, rows, calls, regs)
    BY DEF AddonFits, OwnedByOne
  <2>2. Owned(own, rows, calls2, regs)
    BY <1>2, <2>1 DEF Owned
  <2>3. QED
    BY <2>2 DEF OwnedByOne
<1>4. ClaimsAlone(rows, calls2)
  BY <1>2 DEF AddonFits, ClaimsAlone
<1>5. OwnRegistered(rows, calls2, regs)
  <2>1. \A i : TakenOver(i, rows, calls2) => TakenOver(i, rows, calls)
    BY <1>2 DEF TakenOver
  <2>2. QED
    BY <2>1 DEF AddonFits, OwnRegistered
<1>6. QED
  BY <1>1, <1>2, <1>3, <1>4, <1>5 DEF AddonFits, calls2

\* No row has the application of the id, and no call holds it: it may be given to the key.
FreeFor(i, k, rows, calls, regs) ==
    /\ \E own \in [AddonId -> AddonKey] : Owned(own, rows, calls, regs) /\ own[i] = k
    /\ \A j \in AddonKey : rows[j].app # i
    /\ \A c \in AddonCall : HasRow(calls[c]) => calls[c].row.id # i /\ calls[c].row.app # i

LEMMA FreshIsFree ==
  ASSUME NEW rows, NEW calls, NEW gits, NEW regs, AddonFits(rows, calls, gits, regs), NEW i \in AddonId, NEW k \in AddonKey,
         \A j \in AddonKey : rows[j].id # i, \A c \in AddonCall : calls[c].row.id # i, gits[i] = NoManifest
  PROVE  FreeFor(i, k, rows, calls, regs)
<1>1. \A j \in AddonKey : rows[j].app # i
  BY AddonConstants DEF AddonFits, AddonRowOK, ClusterAddon, Unwritten, ManagedStates, WrittenTo
<1>2. \A c \in AddonCall : HasRow(calls[c]) => calls[c].row.id # i /\ calls[c].row.app # i
  BY DEF AddonFits, AddonShapeOK, WrittenTo, HasRow, RowOps
<1>3. PICK own \in [AddonId -> AddonKey] : Owned(own, rows, calls, regs)
  BY DEF AddonFits, OwnedByOne
<1> DEFINE own2 == [own EXCEPT ![i] = k]
<1>4. own2 \in [AddonId -> AddonKey] /\ own2[i] = k /\ \A j \in AddonId : j # i => own2[j] = own[j]
  OBVIOUS
<1>5. /\ \A j \in AddonKey : rows[j].state # "absent" => rows[j].id \in AddonId
      /\ \A c \in AddonCall : HasRow(calls[c]) => calls[c].row.id \in AddonId /\ calls[c].row.app \in AddonId
      /\ regs[i] = NoRegistration
  BY DEF AddonFits, AddonRowOK, AddonShapeOK
<1> HIDE DEF own2
<1>6. Owned(own2, rows, calls, regs)
  BY <1>1, <1>2, <1>3, <1>4, <1>5 DEF Owned
<1>7. QED
  BY <1>1, <1>2, <1>4, <1>6 DEF FreeFor

\* The id of a row no call has written is free, when no adoption of the key runs.
LEMMA UnwrittenIsFree ==
  ASSUME NEW rows, NEW calls, NEW gits, NEW regs, AddonFits(rows, calls, gits, regs), NEW k \in AddonKey,
         rows[k].state \in Unwritten,
         rows[k].state = "adopting" => ~\E c \in AddonCall : HasRow(calls[c]) /\ calls[c].op = "adopt" /\ calls[c].key = k
  PROVE  FreeFor(rows[k].id, k, rows, calls, regs)
<1>1. PICK own \in [AddonId -> AddonKey] : Owned(own, rows, calls, regs)
  BY DEF AddonFits, OwnedByOne
<1>2. own[rows[k].id] = k
  BY <1>1 DEF Owned, Unwritten
<1>3. \A j \in AddonKey : rows[j].app # rows[k].id
  BY DEF AddonFits, ClaimsAlone
<1>4. ASSUME NEW c \in AddonCall, HasRow(calls[c]), rows[k].id \in {calls[c].row.id, calls[c].row.app} PROVE FALSE
  <2>1. calls[c].op = "adopt" /\ rows[k].state = "adopting"
    BY <1>4 DEF AddonFits, ClaimsAlone
  <2>2. calls[c].key = k
    BY <1>1, <1>2, <1>4 DEF Owned
  <2>3. QED
    BY <1>4, <2>1, <2>2
<1>5. QED
  BY <1>1, <1>2, <1>3, <1>4 DEF FreeFor

\* A row is sighted, claimed, or released.
LEMMA AddonRowSighted ==
  ASSUME NEW rows, NEW calls, NEW gits, NEW regs, AddonFits(rows, calls, gits, regs), NEW k \in AddonKey, NEW i \in AddonId,
         FreeFor(i, k, rows, calls, regs), rows[k].state = "absent" \/ (rows[k].state \in Unwritten /\ rows[k].id = i),
         NEW row \in ClusterAddon, row.state \in Unwritten, row.id = i, row.app = NoAddon, ~row.pr
  PROVE  /\ AddonFits([rows EXCEPT ![k] = row], calls, gits, regs)
         /\ FreeFor(i, k, [rows EXCEPT ![k] = row], calls, regs)
<1> DEFINE rows2 == [rows EXCEPT ![k] = row]
<1>1. rows2 \in [AddonKey -> ClusterAddon] /\ rows2[k] = row /\ \A j \in AddonKey : j # k => rows2[j] = rows[j]
  BY DEF AddonFits
<1> HIDE DEF rows2
<1>2. row.state # "absent" /\ row.state \notin ManagedStates
  BY DEF Unwritten, ManagedStates
<1>3. \A j \in AddonKey : AddonRowOK(rows2[j], gits)
  BY <1>1, <1>2 DEF AddonFits, AddonRowOK
<1>4. PICK own \in [AddonId -> AddonKey] : Owned(own, rows, calls, regs) /\ own[i] = k
  BY DEF FreeFor
<1>5. Owned(own, rows2, calls, regs)
  BY <1>1, <1>4, AddonConstants DEF Owned
<1>6. \A j \in AddonKey : rows2[j].app # i
  BY <1>1, AddonConstants DEF FreeFor
<1>7. FreeFor(i, k, rows2, calls, regs)
  BY <1>4, <1>5, <1>6 DEF FreeFor
<1>8. \A x \in AddonId, j \in AddonKey : rows2[j].app = x => rows[j].app = x
  BY <1>1, AddonConstants
<1>9. ClaimsAlone(rows2, calls)
  <2>1. \A c \in AddonCall : HasRow(calls[c]) => calls[c].row.id \in AddonId
    BY DEF AddonFits, AddonShapeOK
  <2>2. ASSUME NEW j \in AddonKey, rows2[j].state \in Unwritten
        PROVE  /\ \A l \in AddonKey : rows2[l].app # rows2[j].id
               /\ \A d \in AddonCall : HasRow(calls[d]) /\ rows2[j].id \in {calls[d].row.id, calls[d].row.app} =>
                      calls[d].op = "adopt" /\ rows2[j].state = "adopting"
    <3>1. CASE j = k
      BY <1>1, <1>6, <3>1 DEF FreeFor
    <3>2. CASE j # k
      <4>1. rows2[j] = rows[j] /\ rows[j].id \in AddonId
        BY <1>1, <2>2, <3>2 DEF AddonFits, AddonRowOK, Unwritten
      <4>2. QED
        BY <1>8, <2>2, <4>1 DEF AddonFits, ClaimsAlone
    <3>3. QED
      BY <3>1, <3>2
  <2>3. QED
    BY <1>8, <2>1, <2>2 DEF AddonFits, ClaimsAlone
<1>10. OwnRegistered(rows2, calls, regs)
  <2>1. \A x \in AddonId : TakenOver(x, rows2, calls) => TakenOver(x, rows, calls)
    BY <1>8 DEF TakenOver
  <2>2. ASSUME NEW j \in AddonCluster, rows2[j].state \in ManagedStates, ~rows2[j].pr
        PROVE  (\E x \in AddonId : regs[x].key = j) /\ (TakenOver(rows2[j].id, rows2, calls) => regs[rows2[j].id] # NoRegistration)
    <3>1. j \in AddonKey /\ j # k
      BY <1>1, <1>2, <2>2 DEF AddonKey
    <3>2. rows2[j] = rows[j] /\ rows[j].id \in AddonId
      BY <1>1, <2>2, <3>1 DEF AddonFits, AddonRowOK, ManagedStates
    <3>3. QED
      BY <2>1, <2>2, <3>2 DEF AddonFits, OwnRegistered
  <2>3. QED
    BY <2>2 DEF OwnRegistered
<1>11. QED
  BY <1>1, <1>3, <1>5, <1>7, <1>9, <1>10 DEF AddonFits, OwnedByOne, rows2

\* An adoption begins with the row it claimed.
LEMMA AddonAdopts ==
  ASSUME NEW rows, NEW calls, NEW gits, NEW regs, AddonFits(rows, calls, gits, regs), NEW c \in AddonCall, NEW r \in AddonCallRow,
         ~HasRow(calls[c]), NEW k \in AddonKey, NEW i \in AddonId, rows[k].state = "adopting", rows[k].id = i,
         FreeFor(i, k, rows, calls, regs), HasRow(r), r.op = "adopt", r.key = k, r.row.id = i, r.row.app = i,
         AddonShapeOK(r, gits), AddonQueued(r, regs)
  PROVE  AddonFits(rows, [calls EXCEPT ![c] = r], gits, regs)
<1> DEFINE calls2 == [calls EXCEPT ![c] = r]
<1>1. calls2 \in [AddonCall -> AddonCallRow] /\ calls2[c] = r /\ \A d \in AddonCall : d # c => calls2[d] = calls[d]
  BY DEF AddonFits
<1> HIDE DEF calls2
<1>2. \A d \in AddonCall : AddonShapeOK(calls2[d], gits) /\ AddonQueued(calls2[d], regs)
  BY <1>1 DEF AddonFits
<1>3. PICK own \in [AddonId -> AddonKey] : Owned(own, rows, calls, regs) /\ own[i] = k
  BY DEF FreeFor
<1>4. Owned(own, rows, calls2, regs)
  BY <1>1, <1>3 DEF Owned
<1>5. ClaimsAlone(rows, calls2)
  <2>1. ASSUME NEW d \in AddonCall, HasRow(calls2[d]), calls2[d].op = "adopt"
        PROVE  /\ \A j \in AddonKey : rows[j].app # calls2[d].row.id
               /\ \A e \in AddonCall : e # d /\ HasRow(calls2[e]) => calls2[e].row.app # calls2[d].row.id
    <3>1. CASE d = c
      BY <1>1, <3>1 DEF FreeFor
    <3>2. CASE d # c
      <4>1. calls2[d] = calls[d] /\ calls[d].row.id # i
        BY <1>1, <2>1, <3>2 DEF FreeFor
      <4>2. QED
        BY <1>1, <2>1, <4>1, <3>2 DEF AddonFits, ClaimsAlone
    <3>3. QED
      BY <3>1, <3>2
  <2>2. ASSUME NEW j \in AddonKey, rows[j].state \in Unwritten
        PROVE  /\ \A l \in AddonKey : rows[l].app # rows[j].id
               /\ \A d \in AddonCall : HasRow(calls2[d]) /\ rows[j].id \in {calls2[d].row.id, calls2[d].row.app} =>
                      calls2[d].op = "adopt" /\ rows[j].state = "adopting"
    <3>1. rows[j].id = i => j = k
      BY <1>3, <2>2 DEF Owned, Unwritten
    <3>2. QED
      BY <1>1, <2>2, <3>1 DEF AddonFits, ClaimsAlone
  <2>3. QED
    BY <2>1, <2>2 DEF ClaimsAlone
<1>6. OwnRegistered(rows, calls2, regs)
  <2>1. \A x : TakenOver(x, rows, calls2) => TakenOver(x, rows, calls)
    BY <1>1 DEF TakenOver
  <2>2. QED
    BY <2>1 DEF AddonFits, OwnRegistered
<1>7. QED
  BY <1>1, <1>2, <1>4, <1>5, <1>6 DEF AddonFits, OwnedByOne, calls2

\* An update that failed marks its row; a merge clears the pull request of the row that is registered.
LEMMA AddonRowMarked ==
  ASSUME NEW rows, NEW calls, NEW gits, NEW regs, AddonFits(rows, calls, gits, regs), NEW k \in AddonKey, rows[k].state \in ManagedStates,
         NEW row \in ClusterAddon, row.state \in ManagedStates, row.id = rows[k].id, row.app = rows[k].app, row.version = rows[k].version,
         rows[k].pr /\ ~row.pr /\ k # "*" => regs[rows[k].id] # NoRegistration
  PROVE  AddonFits([rows EXCEPT ![k] = row], calls, gits, regs)
<1> DEFINE rows2 == [rows EXCEPT ![k] = row]
<1>1. rows2 \in [AddonKey -> ClusterAddon] /\ rows2[k] = row /\ \A j \in AddonKey : j # k => rows2[j] = rows[j]
  BY DEF AddonFits
<1> HIDE DEF rows2
<1>2. row.state # "absent" /\ row.state \notin Unwritten /\ rows[k].state # "absent" /\ rows[k].state \notin Unwritten /\ rows[k].id \in AddonId
  BY DEF Unwritten, ManagedStates, AddonFits, AddonRowOK
<1>3. \A j \in AddonKey : AddonRowOK(rows2[j], gits)
  BY <1>1, <1>2 DEF AddonFits, AddonRowOK
<1>4. PICK own \in [AddonId -> AddonKey] : Owned(own, rows, calls, regs)
  BY DEF AddonFits, OwnedByOne
<1>5. Owned(own, rows2, calls, regs) /\ own[rows[k].id] = k
  BY <1>1, <1>2, <1>4 DEF Owned
<1>6. \A j \in AddonKey : rows2[j].app = rows[j].app /\ rows2[j].id = rows[j].id /\ (rows2[j].state \in Unwritten => rows2[j].state = rows[j].state)
  BY <1>1, <1>2
<1>7. ClaimsAlone(rows2, calls)
  BY <1>6 DEF AddonFits, ClaimsAlone
<1>8. OwnRegistered(rows2, calls, regs)
  <2>1. \A x : TakenOver(x, rows2, calls) => TakenOver(x, rows, calls)
    BY <1>6 DEF TakenOver
  <2>2. ASSUME NEW j \in AddonCluster, rows2[j].state \in ManagedStates, ~rows2[j].pr
        PROVE  (\E x \in AddonId : regs[x].key = j) /\ (TakenOver(rows2[j].id, rows2, calls) => regs[rows2[j].id] # NoRegistration)
    <3>0. j \in AddonKey /\ j # "*"
      BY AddonAssumption DEF AddonKey
    <3>1. CASE j = k /\ rows[k].pr
      <4>1. regs[rows[k].id] # NoRegistration
        BY <1>1, <2>2, <3>0, <3>1
      <4>2. QED
        BY <1>2, <1>5, <1>6, <3>0, <3>1, <4>1 DEF Owned
    <3>2. CASE ~(j = k /\ rows[k].pr)
      <4>1. rows[j].state \in ManagedStates /\ ~rows[j].pr
        BY <1>1, <2>2, <3>0, <3>2
      <4>2. QED
        BY <1>6, <2>1, <3>0, <4>1 DEF AddonFits, OwnRegistered
    <3>3. QED
      BY <3>1, <3>2
  <2>3. QED
    BY <2>2 DEF OwnRegistered
<1>9. QED
  BY <1>1, <1>3, <1>5, <1>7, <1>8 DEF AddonFits, OwnedByOne, rows2

\* A call stores its row: the id of the row there is stays, and so does a pull request.
LEMMA AddonRowRecorded ==
  ASSUME NEW rows, NEW calls, NEW gits, NEW regs, AddonFits(rows, calls, gits, regs), NEW c \in AddonCall,
         calls[c].pc = "record", NEW row \in ClusterAddon,
         row.state = "managed", row.app = calls[c].row.app, row.version = calls[c].row.version,
         IF rows[calls[c].key].state = "absent" THEN row.id = calls[c].row.id /\ row.pr = calls[c].row.pr
         ELSE row.id = rows[calls[c].key].id /\ row.pr = (calls[c].row.pr \/ rows[calls[c].key].pr)
  PROVE  AddonFits([rows EXCEPT ![calls[c].key] = row], [calls EXCEPT ![c] = IdleAddonCall], gits, regs)
<1> DEFINE k == calls[c].key
           r == calls[c].row
           rows2 == [rows EXCEPT ![k] = row]
           calls2 == [calls EXCEPT ![c] = IdleAddonCall]
<1>0. k \in AddonKey /\ r \in ClusterAddon /\ r.id \in AddonId /\ r.app \in AddonId /\ HasRow(calls[c])
      /\ WrittenTo(r.app, gits) /\ r.version \in AddonVersion
  BY DEF AddonFits, AddonCallRow, AddonShapeOK, HasRow
<1>1. rows2 \in [AddonKey -> ClusterAddon] /\ rows2[k] = row /\ \A j \in AddonKey : j # k => rows2[j] = rows[j]
  BY <1>0 DEF AddonFits
<1>a. AddonFits(rows, calls2, gits, regs)
  BY AddonCallEnds
<1>b. ~HasRow(calls2[c]) /\ \A d \in AddonCall : d # c => calls2[d] = calls[d]
  BY IdleAddonFacts DEF AddonFits
<1>2. AddonFits(rows, calls2, gits, regs) /\ ~HasRow(calls2[c]) /\ \A d \in AddonCall : d # c => calls2[d] = calls[d]
  BY <1>a, <1>b
<1>3. row.state # "absent" /\ row.state \notin Unwritten /\ row.id \in AddonId
  BY <1>0 DEF Unwritten, AddonFits, AddonRowOK
<1>4. PICK own \in [AddonId -> AddonKey] : Owned(own, rows, calls, regs)
  BY DEF AddonFits, OwnedByOne
<1>5. own[r.id] = k /\ own[r.app] = k /\ own[row.id] = k
  BY <1>0, <1>4 DEF Owned
<1> HIDE DEF rows2, calls2
<1>6. \A j \in AddonKey : AddonRowOK(rows2[j], gits)
  <2>1. AddonRowOK(row, gits)
    BY <1>0, <1>3 DEF AddonRowOK
  <2>2. QED
    BY <1>1, <2>1 DEF AddonFits
<1>7. Owned(own, rows2, calls2, regs)
  BY <1>0, <1>1, <1>2, <1>4, <1>5 DEF Owned
<1>8. ClaimsAlone(rows2, calls2)
  <2>1. ASSUME NEW d \in AddonCall, HasRow(calls2[d]), calls2[d].op = "adopt"
        PROVE  /\ \A j \in AddonKey : rows2[j].app # calls2[d].row.id
               /\ \A e \in AddonCall : e # d /\ HasRow(calls2[e]) => calls2[e].row.app # calls2[d].row.id
    <3>1. d # c /\ calls2[d] = calls[d]
      BY <1>2, <2>1
    <3>2. r.app # calls2[d].row.id
      BY <1>0, <2>1, <3>1 DEF AddonFits, ClaimsAlone
    <3>3. QED
      BY <1>1, <1>2, <2>1, <3>1, <3>2 DEF AddonFits, ClaimsAlone
  <2>2. ASSUME NEW j \in AddonKey, rows2[j].state \in Unwritten
        PROVE  /\ \A l \in AddonKey : rows2[l].app # rows2[j].id
               /\ \A d \in AddonCall : HasRow(calls2[d]) /\ rows2[j].id \in {calls2[d].row.id, calls2[d].row.app} =>
                      calls2[d].op = "adopt" /\ rows2[j].state = "adopting"
    <3>1. j # k /\ rows2[j] = rows[j]
      BY <1>1, <1>3, <2>2
    <3>2. r.app # rows[j].id
      BY <1>4, <1>5, <2>2, <3>1 DEF Owned, Unwritten
    <3>3. QED
      BY <1>1, <1>2, <2>2, <3>1, <3>2 DEF AddonFits, ClaimsAlone
  <2>3. QED
    BY <2>1, <2>2 DEF ClaimsAlone
<1>9. ASSUME NEW j \in AddonCluster, rows2[j].state \in ManagedStates, ~rows2[j].pr
      PROVE  (\E x \in AddonId : regs[x].key = j) /\ (TakenOver(rows2[j].id, rows2, calls2) => regs[rows2[j].id] # NoRegistration)
  <2>0. j \in AddonKey
    BY DEF AddonKey
  <2>1. CASE j # k
    <3>1. rows2[j] = rows[j] /\ own[rows[j].id] = j /\ rows[j].id \in AddonId
      BY <1>1, <1>4, <1>9, <2>0, <2>1 DEF Owned, ManagedStates, AddonFits, AddonRowOK
    <3>2. TakenOver(rows[j].id, rows2, calls2) => TakenOver(rows[j].id, rows, calls)
      BY <1>1, <1>2, <1>5, <2>1, <3>1 DEF TakenOver
    <3>3. QED
      BY <1>9, <3>1, <3>2 DEF AddonFits, OwnRegistered
  <2>2. CASE j = k
    <3>1. ~row.pr /\ ~r.pr
      BY <1>0, <1>1, <1>9, <2>2 DEF ClusterAddon
    <3>2. regs[r.id] # NoRegistration /\ regs[r.id].key = k
      BY <1>0, <1>4, <1>5, <3>1 DEF AddonFits, AddonQueued, Owned
    <3>3. CASE row.id = r.id
      BY <1>0, <1>1, <2>2, <3>2, <3>3
    <3>4. CASE row.id # r.id
      <4>1. rows[k].state # "absent" /\ row.id = rows[k].id /\ ~rows[k].pr
        BY <1>0, <3>1, <3>4 DEF ClusterAddon, AddonFits
      <4>2. ASSUME TakenOver(row.id, rows2, calls2) PROVE regs[row.id] # NoRegistration
        <5>1. TakenOver(row.id, rows, calls)
          <6>1. CASE \E l \in AddonKey : rows2[l].app = row.id
            <7>1. PICK l \in AddonKey : rows2[l].app = row.id
              BY <6>1
            <7>2. CASE l = k
              BY <1>0, <1>1, <3>4, <7>1, <7>2 DEF TakenOver
            <7>3. CASE l # k
              BY <1>1, <7>1, <7>3 DEF TakenOver
            <7>4. QED
              BY <7>2, <7>3
          <6>2. CASE \E d \in AddonCall : HasRow(calls2[d]) /\ calls2[d].row.app = row.id /\ calls2[d].row.id # row.id
            BY <1>2, <6>2 DEF TakenOver
          <6>3. QED
            BY <4>2, <6>1, <6>2 DEF TakenOver
        <5>2. CASE rows[k].state \in ManagedStates
          BY <2>2, <4>1, <5>1, <5>2 DEF AddonFits, OwnRegistered
        <5>3. CASE rows[k].state \in Unwritten
          <6>1. PICK d \in AddonCall : HasRow(calls[d]) /\ calls[d].row.app = row.id /\ calls[d].row.id # row.id
            BY <1>0, <4>1, <5>1, <5>3 DEF AddonFits, ClaimsAlone, TakenOver
          <6>2. calls[d].op = "adopt"
            BY <1>0, <4>1, <5>3, <6>1 DEF AddonFits, ClaimsAlone
          <6>3. QED
            BY <6>1, <6>2 DEF AddonFits, AddonShapeOK
        <5>4. QED
          BY <1>0, <4>1, <5>2, <5>3 DEF AddonFits, ClusterAddon, ManagedStates, Unwritten
      <4>3. QED
        BY <1>0, <1>1, <2>2, <3>2, <4>2
    <3>5. QED
      BY <3>3, <3>4
  <2>3. QED
    BY <2>1, <2>2
<1>10. OwnRegistered(rows2, calls2, regs)
  BY <1>9 DEF OwnRegistered
<1>11. QED
  BY <1>1, <1>2, <1>6, <1>7, <1>8, <1>10 DEF AddonFits, OwnedByOne, rows2, calls2

-----------------------------------------------------------------------------
(* Addons: actions *)

\* What an action leaves alone is typed.
LEMMA AddonKeeps ==
  ASSUME AddonInv, AddonFits(addon', addonCall', manifest', registered'), FilesOK(gitFile'), upClusters' \subseteq AddonCluster,
         fleetEvents' \in BOOLEAN, addonAsked' \in 0 .. MaxAddonRequests, addonFaults' \in 0 .. MaxAddonFaults
  PROVE  AddonInv'
BY DEF AddonInv, AddonTypeOK, AddonFits, FilesOK

LEMMA AddonTyped ==
  ASSUME AddonInv
  PROVE  /\ AddonFits(addon, addonCall, manifest, registered) /\ FilesOK(gitFile)
         /\ upClusters \subseteq AddonCluster /\ fleetEvents \in BOOLEAN
         /\ addonAsked \in 0 .. MaxAddonRequests /\ addonFaults \in 0 .. MaxAddonFaults
         /\ \A k \in AddonKey : addon[k] \in ClusterAddon /\ AddonRowOK(addon[k], manifest)
         /\ \A c \in AddonCall : addonCall[c] \in AddonCallRow /\ AddonShapeOK(addonCall[c], manifest) /\ AddonQueued(addonCall[c], registered)
         /\ addon \in [AddonKey -> ClusterAddon] /\ addonCall \in [AddonCall -> AddonCallRow]
         /\ manifest \in [AddonId -> Manifest] /\ registered \in [AddonId -> Registration]
BY DEF AddonInv, AddonTypeOK, AddonFits

LEMMA AddonAuthorized == ASSUME AddonInv, addonAsked < MaxAddonRequests /\ addonAsked' = addonAsked + 1 PROVE addonAsked' \in 0 .. MaxAddonRequests
BY AddonAssumption DEF AddonInv, AddonTypeOK

\* An id that is in no row, call and manifest is fresh.
LEMMA FreshIdFree ==
  ASSUME AddonInv, AddonId \ UsedIds # {}, NEW k \in AddonKey
  PROVE  FreshId \in AddonId /\ FreeFor(FreshId, k, addon, addonCall, registered)
<1>1. FreshId \in AddonId /\ FreshId \notin UsedIds
  BY DEF FreshId
<1>2. (\A j \in AddonKey : addon[j].id # FreshId) /\ (\A c \in AddonCall : addonCall[c].row.id # FreshId) /\ manifest[FreshId] = NoManifest
  BY <1>1 DEF UsedIds
<1>3. QED
  BY <1>1, <1>2, AddonTyped, FreshIsFree

LEMMA AdoptKeepsInv ==
  ASSUME AddonInv, NEW c \in AddonCall, NEW k \in AddonKey, NEW v \in AddonVersion, Adopt(c, k, v), addonAsked' \in 0 .. MaxAddonRequests
  PROVE  AddonInv'
<1> DEFINE i == IF addon[k].state = "absent" THEN FreshId ELSE addon[k].id
           row == [addon[k] EXCEPT !.state = "adopting", !.id = i]
           ins == addon[k].state = "absent"
           r == [IdleAddonCall EXCEPT !.pc = "write", !.op = "adopt", !.key = k,
                   !.row = [NoRow EXCEPT !.state = "managed", !.id = i, !.app = i, !.version = v], !.inserted = ins]
<1>1. /\ addonCall[c].pc = "idle" /\ Claimable(k)
      /\ addon' = [addon EXCEPT ![k].state = "adopting", ![k].id = i]
      /\ addonCall' = [addonCall EXCEPT ![c] = [IdleAddonCall EXCEPT !.pc = "write", !.op = "adopt", !.key = k,
                   !.row = [NoRow EXCEPT !.state = "managed", !.id = addon'[k].id, !.app = addon'[k].id, !.version = v], !.inserted = ins]]
      /\ UNCHANGED <<manifest, gitFile, registered, upClusters, fleetEvents, addonFaults>>
  BY DEF Adopt, ClaimClusterAddonForAdoption, Call
<1>2. addon[k] \in ClusterAddon /\ AddonRowOK(addon[k], manifest) /\ addon \in [AddonKey -> ClusterAddon] /\ AddonFits(addon, addonCall, manifest, registered)
  BY AddonTyped
<1>3. i \in AddonId /\ FreeFor(i, k, addon, addonCall, registered) /\ (addon[k].state = "absent" \/ addon[k].state \in Unwritten)
  <2>1. CASE addon[k].state = "absent"
    BY <1>1, <2>1, FreshIdFree DEF Claimable
  <2>2. CASE addon[k].state = "discovered"
    BY <1>2, <2>2, UnwrittenIsFree DEF AddonRowOK, Unwritten
  <2>3. CASE addon[k].state = "adopting" /\ ~Claimant(k)
    <3>1. ~\E d \in AddonCall : HasRow(addonCall[d]) /\ addonCall[d].op = "adopt" /\ addonCall[d].key = k
      BY <2>3 DEF Claimant, HasRow
    <3>2. QED
      BY <1>2, <2>3, <3>1, UnwrittenIsFree DEF AddonRowOK, Unwritten
  <2>4. QED
    BY <1>1, <2>1, <2>2, <2>3 DEF Claimable
<1>4. row \in ClusterAddon /\ row.state = "adopting" /\ row.id = i /\ row.app = NoAddon /\ ~row.pr
  <2>1. addon[k].app = NoAddon /\ ~addon[k].pr
    BY <1>2, <1>3, AddonConstants DEF AddonRowOK
  <2>2. QED
    BY <1>2, <1>3, <2>1 DEF ClusterAddon
<1>5. addon' = [addon EXCEPT ![k] = row] /\ addon'[k].id = i
  BY <1>1, <1>2, <1>4
<1>6. addonCall' = [addonCall EXCEPT ![c] = r] /\ ins \in BOOLEAN
  BY <1>1, <1>5
<1> HIDE DEF i, row, ins
<1>7. r \in AddonCallRow /\ r.pc = "write" /\ r.op = "adopt" /\ r.key = k /\ r.row.id = i /\ r.row.app = i /\ r.row.state = "managed"
      /\ r.row.version = v /\ r.row.pr = FALSE
  <2>1. [NoRow EXCEPT !.state = "managed", !.id = i, !.app = i, !.version = v] \in ClusterAddon
    BY <1>3, AddonConstants DEF NoRow, ClusterAddon
  <2>2. QED
    BY <1>6, <2>1 DEF IdleAddonCall, AddonCallRow, NoRow
<1> HIDE DEF r
<1>8. HasRow(r) /\ AddonShapeOK(r, manifest) /\ AddonQueued(r, registered)
  BY <1>3, <1>7 DEF HasRow, AddonShapeOK, AddonQueued, RowOps
<1>9. AddonFits(addon', addonCall, manifest, registered) /\ FreeFor(i, k, addon', addonCall, registered)
  <2>1. addon[k].state = "absent" \/ (addon[k].state \in Unwritten /\ addon[k].id = i)
    BY <1>3 DEF i
  <2>2. row.state \in Unwritten
    BY <1>4 DEF Unwritten
  <2>3. QED
    BY <1>2, <1>3, <1>4, <1>5, <2>1, <2>2, AddonRowSighted
<1>10. addon'[k].state = "adopting" /\ ~HasRow(addonCall[c])
  BY <1>1, <1>2, <1>4, <1>5 DEF HasRow
<1>11. AddonFits(addon', addonCall', manifest, registered)
  BY <1>3, <1>5, <1>6, <1>7, <1>8, <1>9, <1>10, AddonAdopts
<1>12. QED
  BY <1>1, <1>11, AddonTyped, AddonKeeps

LEMMA rerenderKeepsInv ==
  ASSUME AddonInv, NEW c \in AddonCall, NEW op \in {"update", "prune"}, NEW k \in AddonKey, NEW row \in ClusterAddon, rerender(c, op, k, row),
         addon[k].state \in ManagedStates, row.id = addon[k].id, row.app = addon[k].app, row.version \in AddonVersion,
         addonAsked' \in 0 .. MaxAddonRequests
  PROVE  AddonInv'
<1> DEFINE r == [IdleAddonCall EXCEPT !.pc = "write", !.op = op, !.key = k, !.row = [row EXCEPT !.state = "managed", !.pr = FALSE]]
<1>1. /\ addonCall[c].pc = "idle" /\ addonCall' = [addonCall EXCEPT ![c] = r]
      /\ UNCHANGED <<addon, manifest, gitFile, registered, upClusters, fleetEvents, addonFaults>>
  BY DEF rerender, Call
<1>2. r \in AddonCallRow /\ r.pc = "write" /\ r.op = op /\ r.key = k /\ r.row.id = row.id /\ r.row.app = row.app /\ r.row.state = "managed"
      /\ r.row.version = row.version /\ r.row.pr = FALSE
  <2>1. [row EXCEPT !.state = "managed", !.pr = FALSE] \in ClusterAddon
    BY DEF ClusterAddon
  <2>2. QED
    BY <2>1 DEF IdleAddonCall, AddonCallRow, ClusterAddon
<1> HIDE DEF r
<1>3. addon[k].id \in AddonId /\ WrittenTo(addon[k].app, manifest)
  BY AddonTyped DEF AddonRowOK, ManagedStates
<1>4. AddonShapeOK(r, manifest) /\ AddonQueued(r, registered)
  BY <1>2, <1>3 DEF HasRow, AddonShapeOK, AddonQueued, RowOps, WrittenTo
<1>5. AddonFits(addon, addonCall', manifest, registered)
  BY <1>1, <1>2, <1>4, AddonTyped, AddonCallReads DEF HasRow
<1>6. QED
  BY <1>1, <1>5, AddonTyped, AddonKeeps

LEMMA UpdateKeepsInv ==
  ASSUME AddonInv, NEW c \in AddonCall, NEW k \in AddonKey, NEW v \in AddonVersion, Update(c, k, v), addonAsked' \in 0 .. MaxAddonRequests
  PROVE  AddonInv'
<1> DEFINE row == [addon[k] EXCEPT !.version = v]
<1>1. addon[k].state \in ManagedStates /\ rerender(c, "update", k, row)
  BY DEF Update, ManagedStates
<1>2. row \in ClusterAddon /\ row.id = addon[k].id /\ row.app = addon[k].app /\ row.version = v
  BY AddonTyped DEF ClusterAddon
<1> HIDE DEF row
<1>3. QED
  BY <1>1, <1>2, rerenderKeepsInv

LEMMA EnablePruneKeepsInv ==
  ASSUME AddonInv, NEW c \in AddonCall, NEW k \in AddonKey, EnablePrune(c, k), addonAsked' \in 0 .. MaxAddonRequests
  PROVE  AddonInv'
<1> DEFINE row == [addon[k] EXCEPT !.prune = TRUE]
<1>1. addon[k].state \in ManagedStates /\ rerender(c, "prune", k, row)
  BY DEF EnablePrune, ManagedStates
<1>2. row \in ClusterAddon /\ row.id = addon[k].id /\ row.app = addon[k].app /\ row.version = addon[k].version
  BY AddonTyped DEF ClusterAddon
<1>3. addon[k].version \in AddonVersion
  BY <1>1, AddonTyped DEF AddonRowOK
<1> HIDE DEF row
<1>4. QED
  BY <1>1, <1>2, <1>3, rerenderKeepsInv

LEMMA RenderedFacts ==
  ASSUME AddonInv, NEW c \in AddonCall, addonCall[c].pc \in {"write", "fleet"}, NEW pr \in BOOLEAN
  PROVE  /\ Rendered(addonCall[c], pr) \in Manifest /\ Rendered(addonCall[c], pr) # NoManifest /\ ManifestOK(Rendered(addonCall[c], pr))
         /\ addonCall[c].row.id \in AddonId /\ pathOf(addonCall[c].key) \in AddonPath
<1>1. addonCall[c] \in AddonCallRow /\ addonCall[c].row \in ClusterAddon /\ addonCall[c].row.version \in AddonVersion
      /\ addonCall[c].row.id \in AddonId
  BY AddonTyped DEF AddonShapeOK, AddonCallRow, HasRow
<1>2. targetsForRow(addonCall[c].key) \subseteq AddonCluster
  <2>1. addonCall[c].key \in AddonCluster \/ addonCall[c].key = "*"
    BY <1>1 DEF AddonCallRow, AddonKey
  <2>2. QED
    BY <2>1, AddonTyped DEF targetsForRow, resolveFleetTargets, Mode
<1>3. (~pr) \in BOOLEAN /\ addonCall[c].row.prune \in BOOLEAN
  BY <1>1 DEF ClusterAddon
<1>4. pathOf(addonCall[c].key) \in AddonPath
  BY <1>1, AddonPaths DEF AddonCallRow
<1>5. Rendered(addonCall[c], pr) \in Manifest
  BY <1>1, <1>2, <1>3, <1>4 DEF Rendered, Manifest
<1>6. /\ Rendered(addonCall[c], pr).version = addonCall[c].row.version /\ Rendered(addonCall[c], pr).app = addonCall[c].row.id
      /\ Rendered(addonCall[c], pr).path = pathOf(addonCall[c].key)
  BY DEF Rendered
<1>7. Rendered(addonCall[c], pr) # NoManifest
  BY <1>1, <1>6, AddonConstants
<1>8. QED
  BY <1>1, <1>4, <1>5, <1>6, <1>7 DEF ManifestOK

\* A file of the base branch, or none, is written.
LEMMA CommitOrPRKeepsFiles ==
  ASSUME AddonInv, NEW c \in AddonCall, addonCall[c].pc \in {"write", "fleet"}, NEW pr \in BOOLEAN, CommitOrPR(addonCall[c], pr)
  PROVE  FilesOK(gitFile') /\ manifest' = [manifest EXCEPT ![addonCall[c].row.id] = Rendered(addonCall[c], pr)]
<1> DEFINE f == Rendered(addonCall[c], pr)
           p == pathOf(addonCall[c].key)
<1>1. f \in Manifest /\ ManifestOK(f) /\ p \in AddonPath
  BY RenderedFacts
<1>2. gitFile' = gitFile \/ gitFile' = [gitFile EXCEPT ![p] = f]
  BY DEF CommitOrPR
<1>3. manifest' = [manifest EXCEPT ![addonCall[c].row.id] = f]
  BY DEF CommitOrPR
<1> HIDE DEF f, p
<1>4. FilesOK(gitFile')
  BY <1>1, <1>2, AddonTyped DEF FilesOK
<1>5. QED
  BY <1>3, <1>4 DEF f

LEMMA commitPerPolicyKeepsInv == ASSUME AddonInv, NEW c \in AddonCall, commitPerPolicy(c) PROVE AddonInv'
<1>1. PICK pr \in BOOLEAN :
          /\ addonCall[c].pc = "write"
          /\ CommitOrPR(addonCall[c], pr)
          /\ addonCall' = [addonCall EXCEPT ![c] = IF pr THEN [addonCall[c] EXCEPT !.pc = "record", !.row.pr = TRUE]
                                                     ELSE [addonCall[c] EXCEPT !.pc = "register"]]
          /\ UNCHANGED <<addon, registered, upClusters, fleetEvents, addonAsked, addonFaults>>
  BY AddonAssumption DEF commitPerPolicy, Call
<1> DEFINE r == IF pr THEN [addonCall[c] EXCEPT !.pc = "record", !.row.pr = TRUE] ELSE [addonCall[c] EXCEPT !.pc = "register"]
<1>2. addonCall[c] \in AddonCallRow /\ addonCall[c].row \in ClusterAddon /\ AddonShapeOK(addonCall[c], manifest) /\ AddonQueued(addonCall[c], registered)
  BY AddonTyped DEF AddonCallRow
<1>3. /\ r \in AddonCallRow /\ r.pc = (IF pr THEN "record" ELSE "register") /\ r.op = addonCall[c].op /\ r.key = addonCall[c].key
      /\ r.row.id = addonCall[c].row.id /\ r.row.app = addonCall[c].row.app /\ r.row.state = addonCall[c].row.state
      /\ r.row.version = addonCall[c].row.version /\ r.row.pr = (pr \/ addonCall[c].row.pr)
  <2>1. [addonCall[c].row EXCEPT !.pr = TRUE] \in ClusterAddon
    BY <1>2 DEF ClusterAddon
  <2>2. CASE pr
    <3>1. r = [addonCall[c] EXCEPT !.pc = "record", !.row = [addonCall[c].row EXCEPT !.pr = TRUE]]
      BY <2>2
    <3>2. r \in AddonCallRow
      BY <1>2, <2>1, <3>1 DEF AddonCallRow
    <3>3. r.row.pr = TRUE /\ r.pc = "record"
      BY <1>2, <3>1 DEF AddonCallRow, ClusterAddon
    <3>4. QED
      BY <1>2, <2>2, <3>1, <3>2, <3>3 DEF AddonCallRow, ClusterAddon
  <2>3. CASE ~pr
    <3>1. r \in AddonCallRow /\ r.row = addonCall[c].row /\ r.pc = "register" /\ r.op = addonCall[c].op /\ r.key = addonCall[c].key
      BY <1>2, <2>3 DEF AddonCallRow
    <3>2. r.row.pr = addonCall[c].row.pr /\ addonCall[c].row.pr \in BOOLEAN
      BY <1>2, <3>1 DEF ClusterAddon
    <3>3. QED
      BY <2>3, <3>1, <3>2
  <2>4. QED
    BY <2>2, <2>3
<1>4. addonCall' = [addonCall EXCEPT ![c] = r]
  BY <1>1
<1> HIDE DEF r
<1>5. /\ AddonFits(addon, addonCall, manifest', registered) /\ WrittenTo(addonCall[c].row.id, manifest')
      /\ \A j : WrittenTo(j, manifest) => WrittenTo(j, manifest')
  <2>1. Rendered(addonCall[c], pr) \in Manifest /\ Rendered(addonCall[c], pr) # NoManifest /\ ManifestOK(Rendered(addonCall[c], pr))
        /\ addonCall[c].row.id \in AddonId
    BY <1>1, RenderedFacts
  <2>0. manifest' = [manifest EXCEPT ![addonCall[c].row.id] = Rendered(addonCall[c], pr)]
    BY <1>1, CommitOrPRKeepsFiles
  <2>2. AddonFits(addon, addonCall, manifest', registered) /\ Rendered(addonCall[c], pr) # NoManifest
    BY <2>0, <2>1, AddonTyped, AddonFileWritten
  <2>3. QED
    BY <2>0, <2>1, <2>2, AddonTyped DEF WrittenTo
<1>6. HasRow(addonCall[c]) /\ HasRow(r)
  BY <1>1, <1>3 DEF HasRow
<1>7. addonCall[c].op \in RowOps /\ (addonCall[c].op = "adopt" => addonCall[c].row.app = addonCall[c].row.id)
      /\ addonCall[c].row.id \in AddonId /\ addonCall[c].row.app \in AddonId
      /\ addonCall[c].row.state = "managed" /\ addonCall[c].row.version \in AddonVersion /\ ~addonCall[c].row.pr
  BY <1>1, <1>2, <1>6 DEF AddonShapeOK, AddonQueued
<1>8. WrittenTo(r.row.id, manifest') /\ WrittenTo(r.row.app, manifest')
  <2>1. addonCall[c].op # "adopt" => WrittenTo(addonCall[c].row.app, manifest)
    BY <1>2, <1>6 DEF AddonShapeOK
  <2>2. QED
    BY <1>3, <1>5, <1>7, <2>1
<1>9. AddonShapeOK(r, manifest')
  BY <1>3, <1>7, <1>8 DEF AddonShapeOK, RowOps
<1>10. AddonQueued(r, registered)
  BY <1>3, <1>7 DEF AddonQueued
<1>11. AddonFits(addon, addonCall', manifest', registered)
  BY <1>3, <1>4, <1>5, <1>6, <1>9, <1>10, AddonCallGoes
<1>12. FilesOK(gitFile')
  BY <1>1, CommitOrPRKeepsFiles
<1>13. QED
  BY <1>1, <1>11, <1>12, AddonTyped, AddonKeeps

LEMMA enqueueRegistrationKeepsInv == ASSUME AddonInv, NEW c \in AddonCall, enqueueRegistration(c) PROVE AddonInv'
<1> DEFINE r == [addonCall[c] EXCEPT !.pc = "record"]
           i == addonCall[c].row.id
<1>1. /\ addonCall[c].pc = "register" /\ enqueue(i, addonCall[c].key, i, addonCall[c].row.version)
      /\ addonCall' = [addonCall EXCEPT ![c] = r]
      /\ UNCHANGED <<addon, manifest, gitFile, upClusters, fleetEvents, addonAsked, addonFaults>>
  BY DEF enqueueRegistration, Call
<1>2. addonCall[c] \in AddonCallRow /\ AddonShapeOK(addonCall[c], manifest) /\ AddonQueued(addonCall[c], registered) /\ HasRow(addonCall[c])
  BY <1>1, AddonTyped DEF HasRow
<1>3. r \in AddonCallRow /\ r.pc = "record" /\ r.op = addonCall[c].op /\ r.key = addonCall[c].key /\ r.row = addonCall[c].row
  BY <1>2 DEF AddonCallRow
<1> HIDE DEF r
<1>4. i \in AddonId /\ manifest[i] # NoManifest /\ addonCall[c].key \in AddonKey /\ addonCall[c].row.version \in AddonVersion
  BY <1>1, <1>2 DEF AddonShapeOK, WrittenTo, AddonCallRow
<1>5. AddonFits(addon, addonCall, manifest, registered') /\ registered'[i] # NoRegistration
  <2> DEFINE key == addonCall[c].key
             v == addonCall[c].row.version
  <2>1. registered' = Enqueued(registered, i, key, i, v)
    BY <1>1 DEF enqueue, Enqueued
  <2>2. \E d \in AddonCall : HasRow(addonCall[d]) /\ addonCall[d].row.id = i /\ addonCall[d].key = key
    BY <1>2
  <2>3. AddonFits(addon, addonCall, manifest, registered) /\ key \in AddonKey /\ v \in AddonVersion
    BY <1>4, AddonTyped
  <2> HIDE DEF key, v, i
  <2>4. QED
    BY <1>4, <2>1, <2>2, <2>3, AddonRegisters DEF i
<1>6. AddonShapeOK(r, manifest) /\ AddonQueued(r, registered') /\ HasRow(r)
  BY <1>1, <1>2, <1>3, <1>5 DEF AddonShapeOK, AddonQueued, HasRow
<1>7. AddonFits(addon, addonCall', manifest, registered')
  BY <1>1, <1>2, <1>3, <1>5, <1>6, AddonCallGoes
<1>8. QED
  BY <1>1, <1>7, AddonTyped, AddonKeeps

LEMMA RecordAddonKeepsInv == ASSUME AddonInv, NEW c \in AddonCall, RecordAddon(c) PROVE AddonInv'
<1> DEFINE r == addonCall[c].row
           k == addonCall[c].key
           id == IF addon[k].state = "absent" THEN r.id ELSE addon[k].id
           prune == IF addon[k].state = "absent" THEN r.prune ELSE r.prune \/ addon[k].prune
           pr == IF addon[k].state = "absent" THEN r.pr ELSE r.pr \/ addon[k].pr
           row == [r EXCEPT !.id = id, !.prune = prune, !.pr = pr]
           rows == [addon EXCEPT ![k] = row]
<1>1. /\ addonCall[c].pc = "record" /\ addonCall' = [addonCall EXCEPT ![c] = IdleAddonCall]
      /\ UNCHANGED <<manifest, gitFile, registered, upClusters, fleetEvents, addonAsked, addonFaults>>
      /\ \/ /\ k = "*"
            /\ addon' = AbsorbDiscoveredAddons([addon EXCEPT !["*"] =
                    IF addon["*"].state = "absent" THEN r
                    ELSE [r EXCEPT !.id = addon["*"].id, !.prune = @ \/ addon["*"].prune, !.pr = @ \/ addon["*"].pr]])
         \/ UpsertClusterAddon(k, r)
  BY DEF RecordAddon, Call
<1>2. /\ addonCall[c] \in AddonCallRow /\ r \in ClusterAddon /\ k \in AddonKey /\ addon[k] \in ClusterAddon /\ r.state = "managed"
      /\ addon \in [AddonKey -> ClusterAddon] /\ r.version \in AddonVersion
  BY <1>1, AddonTyped DEF AddonCallRow, AddonShapeOK
<1>3. r.pr \in BOOLEAN /\ r.prune \in BOOLEAN /\ addon[k].pr \in BOOLEAN /\ addon[k].prune \in BOOLEAN
  BY <1>2 DEF ClusterAddon
<1>4. prune \in BOOLEAN /\ pr \in BOOLEAN /\ id \in AddonId \cup {NoAddon}
  <2>1. id \in AddonId \cup {NoAddon}
    BY <1>2 DEF ClusterAddon
  <2>2. QED
    BY <1>3, <2>1
<1>5. (IF addon[k].state = "absent" THEN r
       ELSE [r EXCEPT !.id = addon[k].id, !.prune = @ \/ addon[k].prune, !.pr = @ \/ addon[k].pr]) = row
  <2>1. CASE addon[k].state = "absent"
    BY <1>2, <2>1 DEF ClusterAddon
  <2>2. CASE addon[k].state # "absent"
    BY <1>2, <2>2 DEF ClusterAddon
  <2>3. QED
    BY <2>1, <2>2
<1>6. addon' = rows \/ addon' = AbsorbDiscoveredAddons(rows)
  BY <1>1, <1>5 DEF UpsertClusterAddon
<1> HIDE DEF id, prune, pr
<1>7. row \in ClusterAddon /\ row.state = "managed" /\ row.app = r.app /\ row.version = r.version /\ row.id = id /\ row.pr = pr
  BY <1>2, <1>4 DEF ClusterAddon
<1> HIDE DEF row
<1>8. AddonFits(rows, addonCall', manifest, registered)
  <2>1. IF addon[k].state = "absent" THEN row.id = r.id /\ row.pr = r.pr ELSE row.id = addon[k].id /\ row.pr = (r.pr \/ addon[k].pr)
    BY <1>7 DEF id, pr
  <2>2. QED
    BY <1>1, <1>7, <2>1, AddonTyped, AddonRowRecorded
<1>9. AddonFits(addon', addonCall', manifest, registered)
  <2>1. CASE addon' = rows
    BY <1>8, <2>1
  <2>2. CASE addon' = AbsorbDiscoveredAddons(rows)
    <3>1. rows \in [AddonKey -> ClusterAddon]
      BY <1>8 DEF AddonFits
    <3>2. /\ AbsorbDiscoveredAddons(rows) \in [AddonKey -> ClusterAddon]
          /\ \A j \in AddonKey : AbsorbDiscoveredAddons(rows)[j] = rows[j] \/ AbsorbDiscoveredAddons(rows)[j] = NoRow
      BY <3>1, AddonConstants DEF AbsorbDiscoveredAddons
    <3>3. QED
      BY <1>8, <2>2, <3>2, AddonRowsGo
  <2>3. QED
    BY <1>6, <2>1, <2>2
<1>10. QED
  BY <1>1, <1>9, AddonTyped, AddonKeeps

LEMMA AddonCallFailsKeepsInv == ASSUME AddonInv, NEW c \in AddonCall, AddonCallFails(c) PROVE AddonInv'
<1> DEFINE r == addonCall[c].row
           k == addonCall[c].key
<1>1. /\ addonCall[c].pc \in {"write", "register", "record"} /\ addonCall' = [addonCall EXCEPT ![c] = IdleAddonCall]
      /\ \/ addonCall[c].op = "adopt" /\ ReleaseClusterAddonClaim(addonCall[c])
         \/ addonCall[c].op = "update" /\ markUpdateFailed(addonCall[c])
         \/ addonCall[c].op \notin {"adopt", "update"} /\ UNCHANGED addon
      /\ UNCHANGED <<manifest, gitFile, registered, upClusters, fleetEvents, addonAsked>>
  BY DEF AddonCallFails, Call
<1>2. addonFaults' \in 0 .. MaxAddonFaults
  BY AddonAssumption DEF AddonCallFails, AddonInv, AddonTypeOK
<1>3. /\ HasRow(addonCall[c]) /\ addonCall[c] \in AddonCallRow /\ AddonShapeOK(addonCall[c], manifest) /\ k \in AddonKey /\ r.id \in AddonId
      /\ addon \in [AddonKey -> ClusterAddon] /\ addon[k] \in ClusterAddon /\ AddonRowOK(addon[k], manifest)
  BY <1>1, AddonTyped DEF HasRow, AddonCallRow, AddonShapeOK
<1>4. AddonFits(addon, addonCall', manifest, registered)
  BY <1>1, AddonTyped, AddonCallEnds
<1>5. ASSUME addonCall[c].op = "adopt", ReleaseClusterAddonClaim(addonCall[c]) PROVE AddonFits(addon', addonCall', manifest, registered)
  <2>1. CASE addon[k].id # r.id \/ addon[k].state # "adopting"
    BY <1>4, <1>5, <2>1 DEF ReleaseClusterAddonClaim
  <2>2. CASE addon[k].id = r.id /\ addon[k].state = "adopting"
    <3>1. addon' = [addon EXCEPT ![k] = IF addonCall[c].inserted THEN NoRow ELSE [@ EXCEPT !.state = "discovered"]]
      BY <1>5, <2>2 DEF ReleaseClusterAddonClaim
    <3>2. CASE addonCall[c].inserted
      <4>1. addon' = [addon EXCEPT ![k] = NoRow]
        BY <3>1, <3>2
      <4>2. addon' \in [AddonKey -> ClusterAddon] /\ \A j \in AddonKey : addon'[j] = addon[j] \/ addon'[j] = NoRow
        BY <1>3, <4>1, AddonConstants
      <4>3. QED
        BY <1>4, <4>2, AddonRowsGo
    <3>3. CASE ~addonCall[c].inserted
      <4> DEFINE row == [addon[k] EXCEPT !.state = "discovered"]
      <4>1. addon' = [addon EXCEPT ![k] = row]
        BY <1>3, <3>1, <3>3
      <4>2. row \in ClusterAddon /\ row.state \in Unwritten /\ row.id = r.id /\ row.app = NoAddon /\ ~row.pr
        BY <1>3, <2>2 DEF ClusterAddon, AddonRowOK, Unwritten
      <4> HIDE DEF row
      <4>3. ~\E d \in AddonCall : HasRow(addonCall'[d]) /\ addonCall'[d].op = "adopt" /\ r.id \in {addonCall'[d].row.id, addonCall'[d].row.app}
        <5>1. \A d \in AddonCall : d # c => addonCall'[d] = addonCall[d]
          BY <1>1, AddonTyped
        <5>2. ~HasRow(addonCall'[c])
          BY <1>1, AddonTyped, IdleAddonFacts
        <5>3. \A d \in AddonCall : d # c /\ HasRow(addonCall[d]) /\ addonCall[d].op = "adopt" => addonCall[d].row.app # r.id /\ addonCall[d].row.id # r.id
          BY <1>3, <1>5, AddonTyped DEF AddonFits, ClaimsAlone, AddonShapeOK
        <5>4. QED
          BY <5>1, <5>2, <5>3
      <4>4. FreeFor(r.id, k, addon, addonCall', registered)
        <5>1. PICK own \in [AddonId -> AddonKey] : Owned(own, addon, addonCall', registered)
          BY <1>4 DEF AddonFits, OwnedByOne
        <5>2. own[r.id] = k
          BY <1>3, <2>2, <5>1 DEF Owned
        <5>3. \A j \in AddonKey : addon[j].app # r.id
          BY <1>3, <2>2, <1>4 DEF AddonFits, ClaimsAlone, Unwritten
        <5>4. \A d \in AddonCall : HasRow(addonCall'[d]) => r.id \notin {addonCall'[d].row.id, addonCall'[d].row.app}
          BY <1>3, <1>4, <2>2, <4>3 DEF AddonFits, ClaimsAlone, Unwritten
        <5>5. QED
          BY <5>1, <5>2, <5>3, <5>4 DEF FreeFor
      <4>5. addon[k].state \in Unwritten /\ addon[k].id = r.id
        BY <2>2 DEF Unwritten
      <4>6. QED
        BY <1>3, <1>4, <4>1, <4>2, <4>4, <4>5, AddonRowSighted
    <3>4. QED
      BY <3>2, <3>3
  <2>3. QED
    BY <2>1, <2>2
<1>6. ASSUME addonCall[c].op = "update", markUpdateFailed(addonCall[c]) PROVE AddonFits(addon', addonCall', manifest, registered)
  <2>1. CASE ~(addon[k].id = r.id /\ addon[k].state # "absent")
    BY <1>4, <1>6, <2>1 DEF markUpdateFailed
  <2>2. CASE addon[k].id = r.id /\ addon[k].state # "absent"
    <3> DEFINE row == [addon[k] EXCEPT !.state = "update_failed"]
    <3>1. addon' = [addon EXCEPT ![k] = row]
      BY <1>3, <1>6, <2>2 DEF markUpdateFailed
    <3>2. addon[k].state \notin Unwritten
      BY <1>3, <1>6, <2>2, AddonTyped DEF AddonFits, ClaimsAlone
    <3>3. addon[k].state \in ManagedStates
      BY <1>3, <2>2, <3>2 DEF ClusterAddon, Unwritten, ManagedStates
    <3>4. row \in ClusterAddon /\ row.state \in ManagedStates /\ row.id = addon[k].id /\ row.app = addon[k].app
          /\ row.version = addon[k].version /\ row.pr = addon[k].pr
      BY <1>3 DEF ClusterAddon, ManagedStates
    <3> HIDE DEF row
    <3>5. QED
      BY <1>3, <1>4, <3>1, <3>3, <3>4, AddonRowMarked
  <2>3. QED
    BY <2>1, <2>2
<1>7. AddonFits(addon', addonCall', manifest, registered)
  BY <1>1, <1>4, <1>5, <1>6
<1>8. QED
  BY <1>1, <1>2, <1>7, AddonTyped, AddonKeeps

LEMMA AddonCrashKeepsInv == ASSUME AddonInv, NEW c \in AddonCall, AddonCrash(c) PROVE AddonInv'
<1>1. addonFaults' \in 0 .. MaxAddonFaults
  BY AddonAssumption DEF AddonCrash, AddonInv, AddonTypeOK
<1>2. addonCall' = [addonCall EXCEPT ![c] = IdleAddonCall] /\ UNCHANGED <<addon, manifest, gitFile, registered, upClusters, fleetEvents, addonAsked>>
  BY DEF AddonCrash, Call
<1>3. AddonFits(addon, addonCall', manifest, registered)
  BY <1>2, AddonTyped, AddonCallEnds
<1>4. QED
  BY <1>1, <1>2, <1>3, AddonTyped, AddonKeeps

LEMMA DeleteAddonKeepsInv == ASSUME AddonInv, NEW k \in AddonKey, DeleteAddon(k), addonAsked' \in 0 .. MaxAddonRequests PROVE AddonInv'
<1>1. addon' = [addon EXCEPT ![k] = NoRow] /\ UNCHANGED <<manifest, gitFile, registered, addonCall, upClusters, fleetEvents, addonFaults>>
  BY DEF DeleteAddon
<1>2. addon' \in [AddonKey -> ClusterAddon] /\ \A j \in AddonKey : addon'[j] = addon[j] \/ addon'[j] = NoRow
  BY <1>1, AddonTyped, AddonConstants
<1>3. AddonFits(addon', addonCall, manifest, registered)
  BY <1>2, AddonTyped, AddonRowsGo
<1>4. QED
  BY <1>1, <1>3, AddonTyped, AddonKeeps

LEMMA IngestDiscoveryKeepsInv == ASSUME AddonInv, NEW c \in AddonCall, NEW k \in AddonKey, IngestDiscovery(c, k) PROVE AddonInv'
<1> DEFINE r == [IdleAddonCall EXCEPT !.pc = "ingest", !.op = "ingest", !.key = k]
<1>1. /\ addonCall[c].pc = "idle" /\ addonCall' = [addonCall EXCEPT ![c] = r]
      /\ UNCHANGED <<addon, manifest, gitFile, registered, upClusters, fleetEvents, addonAsked, addonFaults>>
  BY DEF IngestDiscovery, Call
<1>2. r \in AddonCallRow /\ r.pc = "ingest" /\ r.op = "ingest" /\ r.row = NoRow
  BY AddonConstants DEF IdleAddonCall, AddonCallRow
<1> HIDE DEF r
<1>3. ~HasRow(r) /\ AddonShapeOK(r, manifest) /\ AddonQueued(r, registered) /\ ~HasRow(addonCall[c])
  BY <1>1, <1>2 DEF HasRow, AddonShapeOK, AddonQueued
<1>4. AddonFits(addon, addonCall', manifest, registered)
  BY <1>1, <1>2, <1>3, AddonTyped, AddonCallBegins
<1>5. QED
  BY <1>1, <1>4, AddonTyped, AddonKeeps

LEMMA UpsertDiscoveredAddonKeepsInv == ASSUME AddonInv, NEW c \in AddonCall, UpsertDiscoveredAddon(c) PROVE AddonInv'
<1> DEFINE k == addonCall[c].key
           i == FreshId
           row == [NoRow EXCEPT !.state = "discovered", !.id = i]
<1>1. /\ addonCall[c].pc = "ingest" /\ AddonId \ UsedIds # {} /\ addonCall' = [addonCall EXCEPT ![c] = IdleAddonCall]
      /\ addon' = IF addon[k].state # "absent" THEN addon ELSE [addon EXCEPT ![k] = row]
      /\ UNCHANGED <<manifest, gitFile, registered, upClusters, fleetEvents, addonAsked, addonFaults>>
  BY DEF UpsertDiscoveredAddon, Call
<1>2. k \in AddonKey
  BY AddonTyped DEF AddonCallRow
<1>3. i \in AddonId /\ FreeFor(i, k, addon, addonCall, registered)
  BY <1>1, <1>2, FreshIdFree
<1> HIDE DEF i
<1>4. row \in ClusterAddon /\ row.state \in Unwritten /\ row.id = i /\ row.app = NoAddon /\ ~row.pr
  BY <1>3, AddonConstants DEF NoRow, ClusterAddon, Unwritten
<1> HIDE DEF row
<1>5. AddonFits(addon', addonCall, manifest, registered)
  <2>1. CASE addon[k].state # "absent"
    BY <1>1, <2>1, AddonTyped
  <2>2. CASE addon[k].state = "absent"
    BY <1>1, <1>2, <1>3, <1>4, <2>2, AddonTyped, AddonRowSighted
  <2>3. QED
    BY <2>1, <2>2
<1>6. AddonFits(addon', addonCall', manifest, registered)
  BY <1>1, <1>5, AddonCallEnds
<1>7. QED
  BY <1>1, <1>6, AddonTyped, AddonKeeps

LEMMA MergeAddonPRKeepsInv == ASSUME AddonInv, NEW i \in AddonId, MergeAddonPR(i) PROVE AddonInv'
<1> DEFINE p == manifest[i].path
<1>1. PICK g \in {manifest[i], gitFile[p]} :
        /\ manifest[i] # NoManifest /\ g # NoManifest
        /\ manifest' = [manifest EXCEPT ![i] = [g EXCEPT !.merged = TRUE]]
        /\ gitFile' = [gitFile EXCEPT ![p] = [g EXCEPT !.merged = TRUE]]
        /\ UNCHANGED <<addon, registered, addonCall, upClusters, fleetEvents, addonAsked, addonFaults>>
  BY DEF MergeAddonPR
<1>2. p \in AddonPath /\ manifest[i] \in Manifest /\ ManifestOK(manifest[i])
  BY <1>1, AddonTyped DEF AddonFits, ManifestOK
<1> HIDE DEF p
<1>3. g \in Manifest /\ g.path \in AddonPath /\ g.app \in AddonId /\ g.version \in AddonVersion
  BY <1>1, <1>2, AddonTyped DEF FilesOK, ManifestOK
<1> DEFINE f == [g EXCEPT !.merged = TRUE]
<1>4. f \in Manifest /\ f.app = g.app /\ f.path = g.path /\ f.version = g.version
  BY <1>3 DEF Manifest
<1>5. manifest' = [manifest EXCEPT ![i] = f] /\ gitFile' = [gitFile EXCEPT ![p] = f]
  BY <1>1
<1> HIDE DEF f
<1>6. ManifestOK(f) /\ f # NoManifest
  BY <1>3, <1>4, AddonConstants DEF ManifestOK
<1>7. AddonFits(addon, addonCall, manifest', registered)
  BY <1>4, <1>5, <1>6, AddonTyped, AddonFileWritten
<1>8. FilesOK(gitFile')
  BY <1>2, <1>4, <1>5, <1>6, AddonTyped DEF FilesOK
<1>9. QED
  BY <1>1, <1>7, <1>8, AddonTyped, AddonKeeps

LEMMA FinalizeAddonMergeKeepsInv == ASSUME AddonInv, NEW c \in AddonCall, NEW k \in AddonKey, FinalizeAddonMerge(c, k) PROVE AddonInv'
<1> DEFINE i == addon[k].id
           a == manifest[i].app
           v == manifest[i].version
           r == [IdleAddonCall EXCEPT !.pc = "merge", !.op = "merge", !.key = k, !.row = addon[k]]
<1>1. /\ addonCall[c].pc = "idle" /\ addon[k].pr /\ manifest[i].merged
      /\ IF targetsForRow(k) = {} THEN UNCHANGED registered ELSE enqueue(i, k, a, v)
      /\ addonCall' = [addonCall EXCEPT ![c] = r]
      /\ UNCHANGED <<addon, manifest, gitFile, upClusters, fleetEvents, addonAsked, addonFaults>>
  BY DEF FinalizeAddonMerge, Call
<1>2. addon[k] \in ClusterAddon /\ AddonRowOK(addon[k], manifest)
  BY AddonTyped
<1>3. addon[k].state \in ManagedStates /\ addon[k].state # "absent" /\ i \in AddonId /\ WrittenTo(addon[k].app, manifest)
  <2>1. addon[k].state \in ManagedStates
    BY <1>1, <1>2, AddonConstants DEF AddonRowOK, ClusterAddon, Unwritten, ManagedStates
  <2>2. QED
    BY <1>2, <2>1 DEF AddonRowOK, ManagedStates
<1>4. manifest[i] # NoManifest /\ v \in AddonVersion /\ a \in AddonId
  BY <1>1, <1>3, AddonTyped, AddonConstants DEF AddonFits, ManifestOK
<1>5. r \in AddonCallRow /\ r.pc = "merge" /\ r.op = "merge" /\ r.key = k /\ r.row = addon[k]
  BY <1>2 DEF IdleAddonCall, AddonCallRow
<1> HIDE DEF r
<1>6. AddonFits(addon, addonCall, manifest, registered') /\ (k # "*" => registered'[i] # NoRegistration)
  <2>1. CASE targetsForRow(k) = {}
    <3>1. k = "*"
      BY <2>1 DEF targetsForRow, Mode
    <3>2. QED
      BY <1>1, <2>1, <3>1, AddonTyped
  <2>2. CASE targetsForRow(k) # {}
    <3>1. registered' = Enqueued(registered, i, k, a, v)
      BY <1>1, <2>2 DEF enqueue, Enqueued
    <3> HIDE DEF a, v
    <3>2. QED
      BY <1>3, <1>4, <3>1, AddonTyped, AddonRegisters
  <2>3. QED
    BY <2>1, <2>2
<1>7. AddonShapeOK(r, manifest) /\ AddonQueued(r, registered')
  BY <1>3, <1>4, <1>5, <1>6 DEF AddonShapeOK, AddonQueued, HasRow, WrittenTo
<1>8. AddonFits(addon, addonCall', manifest, registered')
  BY <1>1, <1>3, <1>5, <1>6, <1>7, AddonCallReads DEF HasRow
<1>9. QED
  BY <1>1, <1>8, AddonTyped, AddonKeeps

\* Only the row of the merged pull request has its id.
LEMMA markPRMergedKeepsInv == ASSUME AddonInv, NEW c \in AddonCall, markPRMerged(c) PROVE AddonInv'
<1> DEFINE i == addonCall[c].row.id
           k == addonCall[c].key
           row == [addon[k] EXCEPT !.pr = FALSE]
<1>1. /\ addonCall[c].pc = "merge" /\ addonCall' = [addonCall EXCEPT ![c] = IdleAddonCall]
      /\ addon' = [j \in AddonKey |-> IF addon[j].state # "absent" /\ addon[j].id = i THEN [addon[j] EXCEPT !.pr = FALSE] ELSE addon[j]]
      /\ UNCHANGED <<manifest, gitFile, registered, upClusters, fleetEvents, addonAsked, addonFaults>>
  BY DEF markPRMerged, Call
<1>2. k \in AddonKey /\ HasRow(addonCall[c]) /\ addonCall[c].op = "merge" /\ (k # "*" => registered[i] # NoRegistration)
  BY <1>1, AddonTyped DEF AddonCallRow, HasRow, AddonShapeOK, AddonQueued
<1>3. \A j \in AddonKey : addon[j].state # "absent" /\ addon[j].id = i => j = k
  <2>1. PICK own \in [AddonId -> AddonKey] : Owned(own, addon, addonCall, registered)
    BY AddonTyped DEF AddonFits, OwnedByOne
  <2>2. QED
    BY <1>2, <2>1 DEF Owned
<1>4. AddonFits(addon', addonCall, manifest, registered)
  <2>1. CASE addon[k].state # "absent" /\ addon[k].id = i
    <3>1. addon[k] \in ClusterAddon /\ addon[k].state \in ManagedStates
      <4>1. addon[k].state \notin Unwritten
        BY <1>2, <2>1, AddonTyped DEF AddonFits, ClaimsAlone
      <4>2. QED
        BY <1>2, <2>1, <4>1, AddonTyped DEF ClusterAddon, ManagedStates, Unwritten
    <3>2. row \in ClusterAddon /\ row.state \in ManagedStates /\ row.id = addon[k].id /\ row.app = addon[k].app /\ row.version = addon[k].version
      BY <3>1 DEF ClusterAddon
    <3>3. addon' = [addon EXCEPT ![k] = row]
      BY <1>1, <1>2, <1>3, <2>1, AddonTyped
    <3> HIDE DEF row
    <3>4. QED
      BY <1>2, <2>1, <3>1, <3>2, <3>3, AddonTyped, AddonRowMarked
  <2>2. CASE ~(addon[k].state # "absent" /\ addon[k].id = i)
    <3>1. addon' = addon
      BY <1>1, <1>3, <2>2, AddonTyped
    <3>2. QED
      BY <3>1, AddonTyped
  <2>3. QED
    BY <2>1, <2>2
<1>5. AddonFits(addon', addonCall', manifest, registered)
  BY <1>1, <1>4, AddonCallEnds
<1>6. QED
  BY <1>1, <1>5, AddonTyped, AddonKeeps

LEMMA AddonClusterChangesKeepsInv == ASSUME AddonInv, NEW k \in AddonCluster, AddonClusterChanges(k) PROVE AddonInv'
<1>1. addonAsked' \in 0 .. MaxAddonRequests
  BY AddonAuthorized DEF AddonClusterChanges
<1>2. upClusters' \subseteq AddonCluster /\ fleetEvents' \in BOOLEAN /\ UNCHANGED <<addon, manifest, gitFile, registered, addonCall, addonFaults>>
  BY AddonTyped DEF AddonClusterChanges
<1>3. QED
  BY <1>1, <1>2, AddonTyped, AddonKeeps

LEMMA RerenderFleetAddonsKeepsInv == ASSUME AddonInv, NEW c \in AddonCall, RerenderFleetAddons(c) PROVE AddonInv'
<1> DEFINE r == [IdleAddonCall EXCEPT !.pc = "fleet", !.op = "fleet", !.row = addon["*"]]
<1>1. /\ fleetEvents' \in BOOLEAN /\ addonCall[c].pc = "idle" /\ UNCHANGED <<addon, manifest, gitFile, registered, upClusters, addonAsked, addonFaults>>
      /\ \/ addonCall' = [addonCall EXCEPT ![c] = IdleAddonCall]
         \/ addon["*"].state = "managed" /\ addonCall' = [addonCall EXCEPT ![c] = r]
  BY DEF RerenderFleetAddons, Call
<1>2. "*" \in AddonKey
  BY DEF AddonKey
<1>3. AddonFits(addon, addonCall', manifest, registered)
  <2>1. CASE addonCall' = [addonCall EXCEPT ![c] = IdleAddonCall]
    BY <2>1, AddonTyped, AddonCallEnds
  <2>2. CASE addon["*"].state = "managed" /\ addonCall' = [addonCall EXCEPT ![c] = r]
    <3>1. addon["*"] \in ClusterAddon /\ addon["*"].state \in ManagedStates /\ addon["*"].id \in AddonId /\ WrittenTo(addon["*"].app, manifest)
          /\ addon["*"].version \in AddonVersion
      BY <1>2, <2>2, AddonTyped DEF AddonRowOK, ManagedStates
    <3>2. r \in AddonCallRow /\ r.pc = "fleet" /\ r.op = "fleet" /\ r.key = "*" /\ r.row = addon["*"]
      BY <1>2, <3>1 DEF IdleAddonCall, AddonCallRow
    <3> HIDE DEF r
    <3>3. AddonShapeOK(r, manifest) /\ AddonQueued(r, registered)
      BY <2>2, <3>1, <3>2 DEF AddonShapeOK, AddonQueued, HasRow, WrittenTo
    <3>4. QED
      BY <1>1, <1>2, <2>2, <3>1, <3>2, <3>3, AddonTyped, AddonCallReads DEF HasRow
  <2>3. QED
    BY <1>1, <2>1, <2>2
<1>4. QED
  BY <1>1, <1>3, AddonTyped, AddonKeeps

LEMMA rerenderFleetAddonKeepsInv == ASSUME AddonInv, NEW c \in AddonCall, rerenderFleetAddon(c) PROVE AddonInv'
<1>1. /\ addonCall[c].pc = "fleet" /\ addonCall' = [addonCall EXCEPT ![c] = IdleAddonCall]
      /\ UNCHANGED <<manifest, gitFile>> \/ \E pr \in BOOLEAN : CommitOrPR(addonCall[c], pr)
      /\ UNCHANGED <<addon, registered, upClusters, fleetEvents, addonAsked, addonFaults>>
  BY AddonAssumption DEF rerenderFleetAddon, Call
<1>2. AddonFits(addon, addonCall, manifest', registered) /\ FilesOK(gitFile')
  <2>1. CASE UNCHANGED <<manifest, gitFile>>
    BY <2>1, AddonTyped
  <2>2. ASSUME NEW pr \in BOOLEAN, CommitOrPR(addonCall[c], pr) PROVE AddonFits(addon, addonCall, manifest', registered) /\ FilesOK(gitFile')
    <3>1. Rendered(addonCall[c], pr) \in Manifest /\ Rendered(addonCall[c], pr) # NoManifest /\ ManifestOK(Rendered(addonCall[c], pr))
          /\ addonCall[c].row.id \in AddonId
      BY <1>1, RenderedFacts
    <3>2. manifest' = [manifest EXCEPT ![addonCall[c].row.id] = Rendered(addonCall[c], pr)] /\ FilesOK(gitFile')
      BY <1>1, <2>2, CommitOrPRKeepsFiles
    <3>3. QED
      BY <3>1, <3>2, AddonTyped, AddonFileWritten
  <2>3. QED
    BY <1>1, <2>1, <2>2
<1>3. AddonFits(addon, addonCall', manifest', registered)
  BY <1>1, <1>2, AddonCallEnds
<1>4. QED
  BY <1>1, <1>2, <1>3, AddonTyped, AddonKeeps

LEMMA AddonInvStep == ASSUME AddonInv, [AddonNext]_addonVars PROVE AddonInv'
<1>1. CASE UNCHANGED addonVars
  BY <1>1 DEF addonVars, AddonInv, AddonTypeOK
<1>2. CASE AddonRoutes
  <2>1. PICK u \in User, c \in AddonCall, k \in AddonKey :
            httpAdopt(u, c, k) \/ httpUpdateAddon(u, c, k) \/ httpEnablePrune(u, c, k) \/ httpDeleteAddon(u, k)
    BY <1>2 DEF AddonRoutes
  <2>2. addonAsked < MaxAddonRequests /\ addonAsked' = addonAsked + 1
    BY <2>1 DEF httpAdopt, httpUpdateAddon, httpEnablePrune, httpDeleteAddon, authorizeAddon
  <2>3. addonAsked' \in 0 .. MaxAddonRequests
    BY <2>2, AddonAuthorized
  <2>4. QED
    BY <2>1, <2>3, AdoptKeepsInv, UpdateKeepsInv, EnablePruneKeepsInv, DeleteAddonKeepsInv
       DEF httpAdopt, httpUpdateAddon, httpEnablePrune, httpDeleteAddon
<1>3. ASSUME NEW c \in AddonCall, AddonStep(c) \/ AddonCallFails(c) \/ AddonCrash(c) \/ RerenderFleetAddons(c) PROVE AddonInv'
  BY <1>3, commitPerPolicyKeepsInv, enqueueRegistrationKeepsInv, RecordAddonKeepsInv, UpsertDiscoveredAddonKeepsInv, markPRMergedKeepsInv,
     rerenderFleetAddonKeepsInv, AddonCallFailsKeepsInv, AddonCrashKeepsInv, RerenderFleetAddonsKeepsInv DEF AddonStep
<1>4. ASSUME NEW c \in AddonCall, NEW k \in AddonKey, IngestDiscovery(c, k) \/ FinalizeAddonMerge(c, k) PROVE AddonInv'
  BY <1>4, IngestDiscoveryKeepsInv, FinalizeAddonMergeKeepsInv
<1>5. QED
  BY <1>1, <1>2, <1>3, <1>4, MergeAddonPRKeepsInv, AddonClusterChangesKeepsInv DEF AddonNext

\* What the run checks of add-ons follows.
LEMMA AddonInvGives == ASSUME AddonInv PROVE AddonTypeOK /\ LiveIsRegistered
<1>1. ASSUME NEW k \in AddonCluster, addon[k].state = "managed", ~addon[k].pr
      PROVE  \E i \in AddonId : registered[i].key = k /\ (addon[k].id = addon[k].app => i = addon[k].app)
  <2>1. k \in AddonKey /\ addon[k].state \in ManagedStates /\ addon[k].state # "absent" /\ addon[k].id \in AddonId
    BY <1>1, AddonTyped DEF AddonKey, AddonRowOK, ManagedStates
  <2>2. OwnRegistered(addon, addonCall, registered)
    BY AddonTyped DEF AddonFits
  <2>3. CASE addon[k].id # addon[k].app
    BY <1>1, <2>1, <2>2, <2>3 DEF OwnRegistered
  <2>4. CASE addon[k].id = addon[k].app
    <3>1. registered[addon[k].id] # NoRegistration
      BY <1>1, <2>1, <2>2, <2>4 DEF OwnRegistered, TakenOver
    <3>2. PICK own \in [AddonId -> AddonKey] : Owned(own, addon, addonCall, registered)
      BY AddonTyped DEF AddonFits, OwnedByOne
    <3>3. registered[addon[k].id].key = k
      BY <2>1, <3>1, <3>2 DEF Owned
    <3>4. QED
      BY <2>1, <2>4, <3>3
  <2>5. QED
    BY <2>3, <2>4
<1>2. QED
  BY <1>1 DEF LiveIsRegistered, AddonInv

-----------------------------------------------------------------------------
(* ExtensionHost *)

ExtCallRow ==
    [op : {"none", "Register", "Verify", "Rotate", "UnregisterBackend", "RegisterUi", "UnregisterUi"},
     pc : {"idle", "client", "tx", "undo", "handshake", "identity", "setClient", "ready", "degraded", "rotate", "disable", "delete"},
     id : ExtId \cup {NoExt}, seen : Extension, beside : BOOLEAN]
Making == {"identity", "setClient", "undo"}

\* The steps of each kind of call.
ExtShapeOK(r) ==
    /\ r.pc = "idle" \/ r.op = "none" => r = IdleExtCall
    /\ r.op = "Register" => r.pc \in {"client", "tx", "undo"}
    /\ r.op = "Verify" => r.pc \in {"handshake", "degraded", "ready"} \cup Making
    /\ r.op = "Rotate" => r.pc \in {"rotate"} \cup Making
    /\ r.op = "UnregisterBackend" => r.pc \in {"disable", "delete"}
    /\ r.op = "RegisterUi" => r.pc = "tx"
    /\ r.op = "UnregisterUi" => r.pc = "delete"
    /\ r.op \in {"Verify", "Rotate", "UnregisterBackend", "UnregisterUi"} => r.id \in ExtId

\* One row holds the name, ids are never used again, and a backend that is ready has its client.
ExtRowsOK(rows) ==
    /\ \A i \in ExtId : /\ rows[i].live => rows[i].used
                        /\ rows[i].client => rows[i].live
                        /\ rows[i].live /\ rows[i].kind = "backend" /\ rows[i].state = "ready" => rows[i].client
    /\ \A i, j \in ExtId : rows[i].live /\ rows[j].live => i = j

\* A client that was read is still the row's, as long as the row is there.
ExtSeenOK(r, rows) ==
    /\ r.id \in ExtId => rows[r.id].used
    /\ r.op = "Verify" /\ r.seen.client /\ rows[r.id].live => rows[r.id].client
    /\ r.pc = "ready" /\ rows[r.id].live => rows[r.id].client

\* A call that nothing ran beside finds the row as it read it.
ExtAloneOK(r, rows) ==
    /\ r.op = "Register" => \A i \in ExtId : ~rows[i].live
    /\ r.op \in {"Verify", "Rotate", "UnregisterBackend"} => rows[r.id].live
    /\ r.pc \in {"handshake", "disable", "delete"} \cup Making /\ r.op \in {"Verify", "Rotate", "UnregisterBackend"}
          => rows[r.id].client = r.seen.client
    /\ r.pc \in Making /\ r.op \in {"Verify", "Rotate"} => ~r.seen.client

HasClient(rows) == \E i \in ExtId : rows[i].live /\ rows[i].client
\* Without a doubt, the client of the name is on when a row has it, or a call is about to write it, and
\* off once a removal has turned it off.
KcExtOK(rows, kc, calls) ==
    /\ kc = "enabled" => HasClient(rows) \/ \E c \in ExtCall : calls[c].pc \in {"setClient", "undo"} \/ (calls[c].op = "Register" /\ calls[c].pc = "tx")
    /\ HasClient(rows) => kc = "enabled" \/ \E c \in ExtCall : calls[c].op = "UnregisterBackend" /\ calls[c].pc = "delete" /\ calls[c].seen.client
    /\ \A c \in ExtCall : calls[c].pc = "setClient" \/ (calls[c].op = "Register" /\ calls[c].pc = "tx") => kc = "enabled"
    /\ \A c \in ExtCall : calls[c].op = "UnregisterBackend" /\ calls[c].pc = "delete" /\ calls[c].seen.client /\ ~calls[c].beside => kc # "enabled"

ExtCallsOK(calls, rows) ==
    /\ \A c \in ExtCall : ExtShapeOK(calls[c]) /\ ExtSeenOK(calls[c], rows)
    /\ \A c \in ExtCall : calls[c].pc # "idle" /\ ~calls[c].beside => ExtAloneOK(calls[c], rows)
    /\ \A c, d \in ExtCall : c # d /\ calls[c].pc # "idle" /\ calls[d].pc # "idle" => calls[c].beside
ExtInv ==
    /\ ExtensionTypeOK /\ ExtRowsOK(extRow) /\ ExtCallsOK(extCall, extRow)
    /\ ~extDoubt => KcExtOK(extRow, kcExt, extCall)

LEMMA ExtInvInit == ASSUME ExtensionInit PROVE ExtInv
<1>1. /\ NoExtRow \in Extension /\ [NoExtRow EXCEPT !.live = TRUE, !.used = TRUE] \in Extension
      /\ IdleExtCall.seen = NoExtRow /\ IdleExtCall.pc = "idle" /\ IdleExtCall.op = "none" /\ IdleExtCall.id = NoExt
  BY DEF NoExtRow, Extension, ExtensionState, UiExtensionDescriptor, IdleExtCall
<1>2. IdleExtCall \in ExtCallRow
  BY <1>1 DEF IdleExtCall, ExtCallRow
<1>3. PICK old \in [ExtId -> {NoExtRow, [NoExtRow EXCEPT !.live = TRUE, !.used = TRUE]}] :
          /\ \A i, j \in ExtId : old[i].live /\ old[j].live => i = j
          /\ extRow = old
  BY DEF ExtensionInit
<1>4. extRow \in [ExtId -> Extension] /\ \A i \in ExtId : ~extRow[i].client /\ extRow[i].state = "pending" /\ (extRow[i].live => extRow[i].used)
  <2>1. /\ ~NoExtRow.client /\ NoExtRow.state = "pending" /\ ~NoExtRow.live
        /\ ~[NoExtRow EXCEPT !.live = TRUE, !.used = TRUE].client /\ [NoExtRow EXCEPT !.live = TRUE, !.used = TRUE].state = "pending"
        /\ [NoExtRow EXCEPT !.live = TRUE, !.used = TRUE].used
    BY DEF NoExtRow
  <2>2. \A i \in ExtId : extRow[i] = NoExtRow \/ extRow[i] = [NoExtRow EXCEPT !.live = TRUE, !.used = TRUE]
    BY <1>3
  <2>3. QED
    BY <1>1, <1>3, <2>1, <2>2
<1>5. ExtensionTypeOK
  <2>1. extCall \in [ExtCall -> ExtCallRow]
    BY <1>2 DEF ExtensionInit
  <2>2. extAsked \in 0 .. MaxExtRequests /\ extFaults \in 0 .. MaxExtFaults
    BY ExtensionAssumption DEF ExtensionInit
  <2>3. extDoubt \in BOOLEAN /\ kcExt \in {"none", "enabled", "disabled"}
    BY DEF ExtensionInit
  <2>4. QED
    BY <1>4, <2>1, <2>2, <2>3 DEF ExtensionTypeOK, ExtCallRow
<1>6. ExtRowsOK(extRow)
  BY <1>3, <1>4 DEF ExtRowsOK
<1>7. \A c \in ExtCall : extCall[c] = IdleExtCall
  BY DEF ExtensionInit
<1>8. ExtCallsOK(extCall, extRow)
  BY <1>1, <1>7, ExtensionAssumption DEF ExtCallsOK, ExtShapeOK, ExtSeenOK
<1>9. KcExtOK(extRow, kcExt, extCall)
  BY <1>1, <1>4, <1>7 DEF KcExtOK, HasClient, ExtensionInit
<1>10. QED
  BY <1>5, <1>6, <1>8, <1>9 DEF ExtInv

-----------------------------------------------------------------------------
(* ExtensionHost: rows *)

\* Rows go, and clients come.
ExtRowsStand(rows, rows2) ==
    \A i \in ExtId : /\ rows[i].used => rows2[i].used
                     /\ rows[i].used /\ rows2[i].live => rows[i].live /\ (rows[i].client => rows2[i].client)

LEMMA ExtTypes ==
  ASSUME ExtInv
  PROVE  /\ extRow \in [ExtId -> Extension] /\ extCall \in [ExtCall -> ExtCallRow] /\ ExtRowsOK(extRow)
         /\ \A c \in ExtCall : ExtShapeOK(extCall[c]) /\ ExtSeenOK(extCall[c], extRow) /\ extCall[c] \in ExtCallRow
         /\ \A i \in ExtId : extRow[i] \in Extension
BY DEF ExtInv, ExtensionTypeOK, ExtCallRow, ExtCallsOK

LEMMA createExtFacts ==
  ASSUME ExtInv, NEW row \in Extension, createExt(row), row.kind = "ui" \/ row.state = "pending"
  PROVE  /\ extRow' \in [ExtId -> Extension] /\ ExtRowsOK(extRow') /\ ExtRowsStand(extRow, extRow')
         /\ ~HasClient(extRow) /\ (HasClient(extRow') <=> row.client)
<1>1. PICK i \in ExtId : ~extRow[i].used /\ extRow' = [extRow EXCEPT ![i] = [row EXCEPT !.live = TRUE, !.used = TRUE]]
  BY DEF createExt
<1>2. \A j \in ExtId : ~extRow[j].live
  BY DEF createExt, getByName
<1>3. /\ [row EXCEPT !.live = TRUE, !.used = TRUE] \in Extension
      /\ extRow'[i].live /\ extRow'[i].used /\ extRow'[i].client = row.client /\ extRow'[i].kind = row.kind /\ extRow'[i].state = row.state
      /\ \A j \in ExtId : j # i => extRow'[j] = extRow[j]
  BY <1>1, ExtTypes DEF Extension
<1>4. extRow' \in [ExtId -> Extension]
  BY <1>1, <1>3, ExtTypes
<1>5. ExtRowsOK(extRow')
  BY <1>2, <1>3, ExtTypes DEF ExtRowsOK
<1>6. ExtRowsStand(extRow, extRow')
  BY <1>1, <1>2, <1>3 DEF ExtRowsStand
<1>7. ~HasClient(extRow) /\ (HasClient(extRow') <=> row.client)
  BY <1>2, <1>3 DEF HasClient
<1>8. QED
  BY <1>4, <1>5, <1>6, <1>7

LEMMA setStateFacts ==
  ASSUME ExtInv, NEW i \in ExtId, NEW s \in ExtensionState, setState(i, s), s = "ready" /\ extRow[i].live => extRow[i].client
  PROVE  /\ extRow' \in [ExtId -> Extension] /\ ExtRowsOK(extRow') /\ ExtRowsStand(extRow, extRow')
         /\ HasClient(extRow') <=> HasClient(extRow)
<1>1. /\ extRow'[i] = [extRow[i] EXCEPT !.state = IF extRow[i].live THEN s ELSE @]
      /\ \A j \in ExtId : j # i => extRow'[j] = extRow[j]
      /\ extRow' = [extRow EXCEPT ![i] = extRow'[i]]
  BY ExtTypes DEF setState
<1>2. /\ extRow'[i] \in Extension /\ extRow'[i].live = extRow[i].live /\ extRow'[i].used = extRow[i].used
      /\ extRow'[i].client = extRow[i].client /\ extRow'[i].kind = extRow[i].kind /\ (extRow[i].live => extRow'[i].state = s)
  BY <1>1, ExtTypes DEF Extension
<1>3. extRow' \in [ExtId -> Extension]
  BY <1>1, <1>2, ExtTypes
<1>4. ExtRowsOK(extRow')
  BY <1>1, <1>2, ExtTypes DEF ExtRowsOK
<1>5. QED
  BY <1>1, <1>2, <1>3, <1>4 DEF ExtRowsStand, HasClient

LEMMA setClientIDFacts ==
  ASSUME ExtInv, NEW i \in ExtId, setClientID(i)
  PROVE  /\ extRow' \in [ExtId -> Extension] /\ ExtRowsOK(extRow') /\ ExtRowsStand(extRow, extRow')
         /\ extRow'[i].live = extRow[i].live /\ extRow'[i].client = extRow[i].live /\ extRow'[i].used = extRow[i].used
         /\ \A j \in ExtId : j # i => extRow'[j] = extRow[j]
<1>1. /\ extRow'[i] = [extRow[i] EXCEPT !.client = extRow[i].live]
      /\ \A j \in ExtId : j # i => extRow'[j] = extRow[j]
      /\ extRow' = [extRow EXCEPT ![i] = extRow'[i]]
  BY ExtTypes DEF setClientID
<1>2. /\ extRow'[i] \in Extension /\ extRow'[i].live = extRow[i].live /\ extRow'[i].used = extRow[i].used
      /\ extRow'[i].client = extRow[i].live /\ extRow'[i].kind = extRow[i].kind /\ extRow'[i].state = extRow[i].state
  BY <1>1, ExtTypes DEF Extension
<1>3. extRow' \in [ExtId -> Extension]
  BY <1>1, <1>2, ExtTypes
<1>4. ExtRowsOK(extRow')
  BY <1>1, <1>2, ExtTypes DEF ExtRowsOK
<1>5. QED
  BY <1>1, <1>2, <1>3, <1>4 DEF ExtRowsStand

LEMMA setUiFacts ==
  ASSUME ExtInv, NEW i \in ExtId, NEW ui \in UiExtensionDescriptor, setUi(i, ui)
  PROVE  /\ extRow' \in [ExtId -> Extension] /\ ExtRowsOK(extRow') /\ ExtRowsStand(extRow, extRow')
         /\ HasClient(extRow') <=> HasClient(extRow)
<1>1. /\ extRow'[i] = [extRow[i] EXCEPT !.ui = IF extRow[i].live THEN ui ELSE @]
      /\ \A j \in ExtId : j # i => extRow'[j] = extRow[j]
      /\ extRow' = [extRow EXCEPT ![i] = extRow'[i]]
  BY ExtTypes DEF setUi
<1>2. /\ extRow'[i] \in Extension /\ extRow'[i].live = extRow[i].live /\ extRow'[i].used = extRow[i].used
      /\ extRow'[i].client = extRow[i].client /\ extRow'[i].kind = extRow[i].kind /\ extRow'[i].state = extRow[i].state
  BY <1>1, ExtTypes DEF Extension
<1>3. extRow' \in [ExtId -> Extension]
  BY <1>1, <1>2, ExtTypes
<1>4. ExtRowsOK(extRow')
  BY <1>1, <1>2, ExtTypes DEF ExtRowsOK
<1>5. QED
  BY <1>1, <1>2, <1>3, <1>4 DEF ExtRowsStand, HasClient

LEMMA deleteExtFacts ==
  ASSUME ExtInv, NEW i \in ExtId, deleteExt(i)
  PROVE  /\ extRow' \in [ExtId -> Extension] /\ ExtRowsOK(extRow') /\ ExtRowsStand(extRow, extRow')
         /\ ~extRow'[i].live /\ \A j \in ExtId : j # i => extRow'[j] = extRow[j]
<1>1. /\ [NoExtRow EXCEPT !.used = TRUE] \in Extension
      /\ extRow' = [extRow EXCEPT ![i] = [NoExtRow EXCEPT !.used = TRUE]]
  BY DEF deleteExt, NoExtRow, Extension, ExtensionState, UiExtensionDescriptor
<1>2. /\ extRow' \in [ExtId -> Extension] /\ ~extRow'[i].live /\ extRow'[i].used /\ ~extRow'[i].client
      /\ \A j \in ExtId : j # i => extRow'[j] = extRow[j]
  BY <1>1, ExtTypes DEF NoExtRow
<1>3. ExtRowsOK(extRow') /\ ExtRowsStand(extRow, extRow')
  BY <1>2, ExtTypes DEF ExtRowsOK, ExtRowsStand
<1>4. QED
  BY <1>2, <1>3

LEMMA SeenStands ==
  ASSUME NEW r \in ExtCallRow, NEW rows, NEW rows2, ExtShapeOK(r), ExtSeenOK(r, rows), ExtRowsStand(rows, rows2)
  PROVE  ExtSeenOK(r, rows2)
<1>1. r.op = "Verify" \/ r.pc = "ready" => r.id \in ExtId
  BY DEF ExtShapeOK, ExtCallRow, IdleExtCall, Making
<1>2. QED
  BY <1>1 DEF ExtSeenOK, ExtRowsStand

-----------------------------------------------------------------------------
(* ExtensionHost: calls *)

\* A call that runs goes on or ends, and the rows change as they may.
LEMMA ExtCallsChange ==
  ASSUME ExtInv, NEW c \in ExtCall, NEW r2 \in ExtCallRow, extCall' = [extCall EXCEPT ![c] = r2],
         extCall[c].pc # "idle", ExtRowsStand(extRow, extRow'), ExtShapeOK(r2), ExtSeenOK(r2, extRow'),
         r2.pc # "idle" => r2.beside = extCall[c].beside,
         r2.pc # "idle" /\ ~r2.beside => ExtAloneOK(r2, extRow')
  PROVE  /\ ExtCallsOK(extCall', extRow') /\ extCall' \in [ExtCall -> ExtCallRow] /\ extCall'[c] = r2
         /\ \A d \in ExtCall : d # c => extCall'[d] = extCall[d] /\ (extCall[d].pc # "idle" => extCall[d].beside)
         /\ ~extCall[c].beside => \A d \in ExtCall : d # c => extCall[d].pc = "idle"
<1>1. /\ extCall' \in [ExtCall -> ExtCallRow] /\ extCall'[c] = r2 /\ \A d \in ExtCall : d # c => extCall'[d] = extCall[d]
  BY ExtTypes
<1>2. /\ \A d, e \in ExtCall : d # e /\ extCall[d].pc # "idle" /\ extCall[e].pc # "idle" => extCall[d].beside
      /\ \A d \in ExtCall : extCall[d].beside \in BOOLEAN
  BY ExtTypes DEF ExtInv, ExtCallsOK, ExtCallRow
<1>3. /\ \A d \in ExtCall : d # c => (extCall[d].pc # "idle" => extCall[d].beside)
      /\ ~extCall[c].beside => \A d \in ExtCall : d # c => extCall[d].pc = "idle"
  BY <1>2
<1>4. \A d \in ExtCall : ExtShapeOK(extCall'[d]) /\ ExtSeenOK(extCall'[d], extRow')
  BY <1>1, ExtTypes, SeenStands
<1>5. \A d \in ExtCall : extCall'[d].pc # "idle" /\ ~extCall'[d].beside => ExtAloneOK(extCall'[d], extRow')
  BY <1>1, <1>3
<1>6. \A d, e \in ExtCall : d # e /\ extCall'[d].pc # "idle" /\ extCall'[e].pc # "idle" => extCall'[d].beside
  BY <1>1, <1>2, <1>3
<1>7. QED
  BY <1>1, <1>3, <1>4, <1>5, <1>6 DEF ExtCallsOK

LEMMA IdleExtFacts ==
  /\ IdleExtCall \in ExtCallRow /\ IdleExtCall.pc = "idle" /\ IdleExtCall.op = "none" /\ IdleExtCall.id = NoExt
  /\ ExtShapeOK(IdleExtCall) /\ \A rows : ExtSeenOK(IdleExtCall, rows)
<1>1. NoExtRow \in Extension
  BY DEF NoExtRow, Extension, ExtensionState, UiExtensionDescriptor
<1>2. IdleExtCall \in ExtCallRow /\ IdleExtCall.pc = "idle" /\ IdleExtCall.op = "none" /\ IdleExtCall.id = NoExt
  BY <1>1 DEF IdleExtCall, ExtCallRow
<1>3. QED
  BY <1>2, ExtensionAssumption DEF ExtShapeOK, ExtSeenOK

LEMMA RowsStay == ExtRowsStand(extRow, extRow)
BY DEF ExtRowsStand

\* A call that begins read the row it has, and knows of the others, as they know of it.
LEMMA BeginExtKeepsInv ==
  ASSUME ExtInv, NEW c \in ExtCall, NEW call \in ExtCallRow, BeginExt(c, call), extAsked' \in 0 .. MaxExtRequests,
         ExtShapeOK(call), call.op # "none", call.pc \notin {"ready", "setClient", "undo"}, ~(call.op = "Register" /\ call.pc = "tx"),
         ~(call.op = "UnregisterBackend" /\ call.pc = "delete"),
         call.id \in ExtId => extRow[call.id].live,
         call.op = "Verify" /\ call.seen.client => extRow[call.id].client,
         ExtAloneOK(call, extRow)
  PROVE  ExtInv'
<1> DEFINE others == {d \in ExtCall \ {c} : busy(d)}
           r2 == [call EXCEPT !.beside = others # {}]
<1>1. /\ r2 \in ExtCallRow /\ r2.pc = call.pc /\ r2.op = call.op /\ r2.id = call.id /\ r2.seen = call.seen
      /\ r2.beside = (others # {})
  BY DEF ExtCallRow
<1>2. /\ extCall' = [d \in ExtCall |-> IF d = c THEN r2 ELSE IF d \in others THEN [extCall[d] EXCEPT !.beside = TRUE] ELSE extCall[d]]
      /\ UNCHANGED <<extRow, kcExt, extDoubt, extFaults>>
  BY DEF BeginExt
<1>3. \A d \in ExtCall : d # c => (d \in others <=> extCall[d].pc # "idle")
  BY ExtTypes, IdleExtFacts DEF busy, ExtShapeOK
<1>4. \A d \in ExtCall : /\ [extCall[d] EXCEPT !.beside = TRUE] \in ExtCallRow
                         /\ [extCall[d] EXCEPT !.beside = TRUE].pc = extCall[d].pc /\ [extCall[d] EXCEPT !.beside = TRUE].op = extCall[d].op
                         /\ [extCall[d] EXCEPT !.beside = TRUE].id = extCall[d].id /\ [extCall[d] EXCEPT !.beside = TRUE].seen = extCall[d].seen
                         /\ [extCall[d] EXCEPT !.beside = TRUE].beside
  BY ExtTypes DEF ExtCallRow
<1> HIDE DEF r2, others
<1>5. /\ extCall'[c] = r2
      /\ \A d \in ExtCall : d # c =>
            /\ extCall'[d].pc = extCall[d].pc /\ extCall'[d].op = extCall[d].op /\ extCall'[d].id = extCall[d].id /\ extCall'[d].seen = extCall[d].seen
            /\ (extCall[d].pc # "idle" => extCall'[d].beside) /\ extCall'[d] \in ExtCallRow
            /\ (extCall[d].pc = "idle" => extCall'[d] = IdleExtCall)
  BY <1>2, <1>3, <1>4, ExtTypes DEF ExtShapeOK
<1>6. ExtensionTypeOK'
  <2>1. extCall' \in [ExtCall -> ExtCallRow]
    BY <1>1, <1>2, <1>5
  <2>2. QED
    BY <1>2, <2>1 DEF ExtInv, ExtensionTypeOK, ExtCallRow
<1>7. ExtCallsOK(extCall', extRow)
  <2>1. \A d \in ExtCall : ExtShapeOK(extCall'[d])
    <3>1. ExtShapeOK(r2)
      BY <1>1, IdleExtFacts DEF ExtShapeOK
    <3>2. \A d \in ExtCall : d # c => ExtShapeOK(extCall'[d])
      BY <1>5, ExtTypes, IdleExtFacts DEF ExtShapeOK
    <3>3. QED
      BY <1>5, <3>1, <3>2
  <2>2. \A d \in ExtCall : ExtSeenOK(extCall'[d], extRow)
    <3>1. ExtSeenOK(r2, extRow)
      BY <1>1, ExtTypes DEF ExtSeenOK, ExtRowsOK
    <3>2. \A d \in ExtCall : d # c => ExtSeenOK(extCall'[d], extRow)
      BY <1>5, ExtTypes DEF ExtSeenOK
    <3>3. QED
      BY <1>5, <3>1, <3>2
  <2>3. \A d \in ExtCall : extCall'[d].pc # "idle" /\ ~extCall'[d].beside => ExtAloneOK(extCall'[d], extRow)
    <3>1. ExtAloneOK(r2, extRow)
      BY <1>1 DEF ExtAloneOK
    <3>2. QED
      BY <1>5, <3>1, IdleExtFacts
  <2>4. \A d, e \in ExtCall : d # e /\ extCall'[d].pc # "idle" /\ extCall'[e].pc # "idle" => extCall'[d].beside
    BY <1>1, <1>3, <1>5
  <2>5. QED
    BY <2>1, <2>2, <2>3, <2>4 DEF ExtCallsOK
<1>8. ASSUME ~extDoubt PROVE KcExtOK(extRow, kcExt, extCall')
  <2>1. KcExtOK(extRow, kcExt, extCall)
    BY <1>8 DEF ExtInv
  <2>2. extCall[c].pc = "idle" /\ extCall[c].op = "none"
    BY IdleExtFacts DEF BeginExt, busy
  <2>3. \A d \in ExtCall : ~extCall'[d].beside => d = c \/ ~extCall[d].beside \/ extCall[d].pc = "idle"
    BY <1>5
  <2>4. kcExt = "enabled" => HasClient(extRow) \/ \E d \in ExtCall : extCall'[d].pc \in {"setClient", "undo"} \/ (extCall'[d].op = "Register" /\ extCall'[d].pc = "tx")
    BY <1>5, <2>1, <2>2 DEF KcExtOK
  <2>5. HasClient(extRow) => kcExt = "enabled" \/ \E d \in ExtCall : extCall'[d].op = "UnregisterBackend" /\ extCall'[d].pc = "delete" /\ extCall'[d].seen.client
    BY <1>5, <2>1, <2>2 DEF KcExtOK
  <2>6. \A d \in ExtCall : extCall'[d].pc = "setClient" \/ (extCall'[d].op = "Register" /\ extCall'[d].pc = "tx") => kcExt = "enabled"
    BY <1>1, <1>5, <2>1 DEF KcExtOK
  <2>7. \A d \in ExtCall : extCall'[d].op = "UnregisterBackend" /\ extCall'[d].pc = "delete" /\ extCall'[d].seen.client /\ ~extCall'[d].beside => kcExt # "enabled"
    BY <1>1, <1>5, <2>1 DEF KcExtOK
  <2>8. QED
    BY <2>4, <2>5, <2>6, <2>7 DEF KcExtOK
<1>9. QED
  BY <1>2, <1>6, <1>7, <1>8 DEF ExtInv

-----------------------------------------------------------------------------
(* ExtensionHost: the steps of calls *)

\* A step that neither moves the client nor what rows say of it, of a call that does not wait to write it.
LEMMA KcStands ==
  ASSUME ExtInv, NEW c \in ExtCall, NEW r2 \in ExtCallRow, extCall'[c] = r2,
         \A d \in ExtCall : d # c => extCall'[d] = extCall[d],
         UNCHANGED kcExt, HasClient(extRow') <=> HasClient(extRow), ~extDoubt,
         extCall[c].pc \notin {"setClient", "undo"}, ~(extCall[c].op = "Register" /\ extCall[c].pc = "tx"),
         extCall[c].op # "UnregisterBackend",
         r2.pc \notin {"setClient", "undo"}, ~(r2.op = "Register" /\ r2.pc = "tx"), r2.op # "UnregisterBackend"
  PROVE  KcExtOK(extRow', kcExt', extCall')
<1>1. KcExtOK(extRow, kcExt, extCall)
  BY DEF ExtInv
<1>2. QED
  BY <1>1 DEF KcExtOK

\* Types of a step that changes one call.
LEMMA ExtTyped ==
  ASSUME ExtInv, extCall' \in [ExtCall -> ExtCallRow], extRow' \in [ExtId -> Extension], kcExt' \in {"none", "enabled", "disabled"},
         extDoubt' \in BOOLEAN, extAsked' \in 0 .. MaxExtRequests, extFaults' \in 0 .. MaxExtFaults
  PROVE  ExtensionTypeOK'
BY DEF ExtensionTypeOK, ExtCallRow

LEMMA ExtCallTo ==
  ASSUME ExtInv, NEW c \in ExtCall, NEW pc \in {"client", "tx", "undo", "handshake", "identity", "setClient", "ready", "degraded", "rotate", "disable", "delete"},
         ExtGoto(c, pc)
  PROVE  \E r2 \in ExtCallRow :
            /\ extCall' = [extCall EXCEPT ![c] = r2] /\ extCall'[c] = r2
            /\ r2.pc = pc /\ r2.op = extCall[c].op /\ r2.id = extCall[c].id /\ r2.seen = extCall[c].seen /\ r2.beside = extCall[c].beside
<1> DEFINE r2 == [extCall[c] EXCEPT !.pc = pc]
<1>1. r2 \in ExtCallRow /\ r2.pc = pc /\ r2.op = extCall[c].op /\ r2.id = extCall[c].id /\ r2.seen = extCall[c].seen /\ r2.beside = extCall[c].beside
  BY ExtTypes DEF ExtCallRow
<1>2. extCall' = [extCall EXCEPT ![c] = r2] /\ extCall'[c] = r2
  BY ExtTypes DEF ExtGoto
<1> HIDE DEF r2
<1>3. QED
  BY <1>1, <1>2

\* A call ends.
LEMMA ExtReturns ==
  ASSUME ExtInv, NEW c \in ExtCall, ExtReturn(c), extCall[c].pc # "idle", ExtRowsStand(extRow, extRow')
  PROVE  /\ ExtCallsOK(extCall', extRow') /\ extCall' \in [ExtCall -> ExtCallRow] /\ extCall'[c] = IdleExtCall
         /\ \A d \in ExtCall : d # c => extCall'[d] = extCall[d] /\ (extCall[d].pc # "idle" => extCall[d].beside)
         /\ ~extCall[c].beside => \A d \in ExtCall : d # c => extCall[d].pc = "idle"
BY IdleExtFacts, ExtCallsChange DEF ExtReturn

LEMMA RegisterClientKeepsInv == ASSUME ExtInv, NEW c \in ExtCall, RegisterClient(c) PROVE ExtInv'
<1>1. /\ extCall[c].op = "Register" /\ extCall[c].pc = "client" /\ kcExt' = "enabled" /\ ExtGoto(c, "tx")
      /\ UNCHANGED <<extRow, extDoubt, extAsked, extFaults>>
  BY DEF RegisterClient, CreatesExtClient, ExtensionClientSpec, extBoundsSame
<1>2. PICK r2 \in ExtCallRow :
            /\ extCall' = [extCall EXCEPT ![c] = r2] /\ extCall'[c] = r2
            /\ r2.pc = "tx" /\ r2.op = extCall[c].op /\ r2.id = extCall[c].id /\ r2.seen = extCall[c].seen /\ r2.beside = extCall[c].beside
  BY <1>1, ExtCallTo
<1>3. ExtRowsStand(extRow, extRow') /\ ExtShapeOK(extCall[c]) /\ ExtSeenOK(extCall[c], extRow)
  BY <1>1, ExtTypes DEF ExtRowsStand
<1>4. ExtShapeOK(r2) /\ ExtSeenOK(r2, extRow')
  BY <1>1, <1>2, <1>3 DEF ExtShapeOK, ExtSeenOK
<1>5. ~r2.beside => ExtAloneOK(r2, extRow')
  BY <1>1, <1>2 DEF ExtInv, ExtCallsOK, ExtAloneOK
<1>6. /\ ExtCallsOK(extCall', extRow') /\ extCall' \in [ExtCall -> ExtCallRow]
      /\ \A d \in ExtCall : d # c => extCall'[d] = extCall[d] /\ (extCall[d].pc # "idle" => extCall[d].beside)
  BY <1>1, <1>2, <1>3, <1>4, <1>5, ExtCallsChange
<1>7. ExtensionTypeOK'
  BY <1>1, <1>6, ExtTyped DEF ExtInv, ExtensionTypeOK
<1>8. ASSUME ~extDoubt PROVE KcExtOK(extRow', kcExt', extCall')
  BY <1>1, <1>2, <1>6 DEF KcExtOK
<1>9. QED
  BY <1>1, <1>6, <1>7, <1>8, ExtTypes DEF ExtInv

\* Who loses the name to a row with a client leaves the client to it.
LEMMA RegisterTxKeepsInv == ASSUME ExtInv, NEW c \in ExtCall, RegisterTx(c) PROVE ExtInv'
<1>1. /\ extCall[c].op = "Register" /\ extCall[c].pc = "tx" /\ ExtReturn(c) /\ UNCHANGED <<kcExt, extAsked, extFaults>>
      /\ \/ createExt([NoExtRow EXCEPT !.client = TRUE]) /\ extDoubt' = extDoubt
         \/ \E i \in ExtId : extRow[i].live /\ extDoubt' = (extDoubt \/ ~extRow[i].client) /\ extRow' = extRow
  BY DEF RegisterTx, extBoundsSame, getByName
<1>2. extRow' \in [ExtId -> Extension] /\ ExtRowsOK(extRow') /\ ExtRowsStand(extRow, extRow') /\ extDoubt' \in BOOLEAN
      /\ (~extDoubt' => ~extDoubt /\ HasClient(extRow'))
  <2>1. CASE createExt([NoExtRow EXCEPT !.client = TRUE]) /\ extDoubt' = extDoubt
    <3>1. /\ [NoExtRow EXCEPT !.client = TRUE] \in Extension /\ [NoExtRow EXCEPT !.client = TRUE].client
          /\ [NoExtRow EXCEPT !.client = TRUE].state = "pending"
      BY DEF NoExtRow, Extension, ExtensionState, UiExtensionDescriptor
    <3>2. QED
      BY <2>1, <3>1, createExtFacts DEF ExtInv, ExtensionTypeOK
  <2>2. CASE \E i \in ExtId : extRow[i].live /\ extDoubt' = (extDoubt \/ ~extRow[i].client) /\ extRow' = extRow
    <3>1. \A i \in ExtId : extRow[i].client \in BOOLEAN
      BY ExtTypes DEF Extension
    <3>2. QED
      BY <2>2, <3>1, ExtTypes DEF ExtInv, ExtensionTypeOK, ExtRowsStand, HasClient
  <2>3. QED
    BY <1>1, <2>1, <2>2
<1>3. /\ ExtCallsOK(extCall', extRow') /\ extCall' \in [ExtCall -> ExtCallRow] /\ extCall'[c] = IdleExtCall
      /\ \A d \in ExtCall : d # c => extCall'[d] = extCall[d]
  BY <1>1, <1>2, ExtReturns
<1>4. ExtensionTypeOK'
  BY <1>1, <1>2, <1>3, ExtTyped DEF ExtInv, ExtensionTypeOK
<1>5. ASSUME ~extDoubt' PROVE KcExtOK(extRow', kcExt', extCall')
  <2>1. KcExtOK(extRow, kcExt, extCall) /\ HasClient(extRow') /\ kcExt = "enabled"
    BY <1>1, <1>2, <1>5 DEF ExtInv, KcExtOK
  <2>2. QED
    BY <1>1, <1>3, <2>1, IdleExtFacts DEF KcExtOK
<1>6. QED
  BY <1>2, <1>3, <1>4, <1>5 DEF ExtInv

LEMMA LiveAlone ==
  ASSUME ExtInv, NEW c \in ExtCall, extCall[c].pc # "idle", ~extCall[c].beside
  PROVE  /\ ExtAloneOK(extCall[c], extRow)
         /\ \A i \in ExtId : extRow[i].live /\ ~extRow[i].client => ~HasClient(extRow)
         /\ (\A i \in ExtId : ~extRow[i].live) => ~HasClient(extRow)
BY ExtTypes DEF ExtInv, ExtCallsOK, HasClient, ExtRowsOK

\* A creation is undone: alone, unless there is a doubt, so that no row has the client.
LEMMA RegisterUndoKeepsInv == ASSUME ExtInv, NEW c \in ExtCall, RegisterUndo(c) PROVE ExtInv'
<1>1. /\ extCall[c].pc = "undo" /\ kcExt' \in {"none", "disabled"} /\ extDoubt' = (extDoubt \/ extCall[c].beside)
      /\ ExtReturn(c) /\ UNCHANGED <<extRow, extAsked, extFaults>>
  BY DEF RegisterUndo, DisablesExtClient, Doubtful, extBoundsSame
<1>2. /\ ExtCallsOK(extCall', extRow') /\ extCall' \in [ExtCall -> ExtCallRow] /\ extCall'[c] = IdleExtCall
      /\ \A d \in ExtCall : d # c => extCall'[d] = extCall[d]
      /\ ~extCall[c].beside => \A d \in ExtCall : d # c => extCall[d].pc = "idle"
  BY <1>1, ExtReturns, RowsStay
<1>3. extDoubt' \in BOOLEAN /\ (~extDoubt' => ~extCall[c].beside)
  BY <1>1, ExtTypes DEF ExtInv, ExtensionTypeOK, ExtCallRow
<1>4. ExtensionTypeOK'
  BY <1>1, <1>2, <1>3, ExtTyped DEF ExtInv, ExtensionTypeOK
<1>5. ASSUME ~extDoubt' PROVE KcExtOK(extRow', kcExt', extCall')
  <2>1. ~extCall[c].beside /\ ExtShapeOK(extCall[c]) /\ ExtAloneOK(extCall[c], extRow) /\ extCall[c] \in ExtCallRow
    BY <1>1, <1>3, <1>5, LiveAlone, ExtTypes
  <2>2. ~HasClient(extRow)
    <3>1. CASE extCall[c].op = "Register"
      BY <1>1, <2>1, <3>1, LiveAlone DEF ExtAloneOK
    <3>2. CASE extCall[c].op # "Register"
      <4>1. extCall[c].op \in {"Verify", "Rotate"} /\ extCall[c].id \in ExtId
        BY <1>1, <2>1, <3>2, IdleExtFacts DEF ExtShapeOK, ExtCallRow
      <4>2. extRow[extCall[c].id].live /\ ~extRow[extCall[c].id].client
        BY <1>1, <2>1, <4>1 DEF ExtAloneOK, Making
      <4>3. QED
        BY <1>1, <2>1, <4>1, <4>2, LiveAlone
    <3>3. QED
      BY <3>1, <3>2
  <2>3. \A d \in ExtCall : extCall'[d].pc = "idle"
    BY <1>2, <2>1, IdleExtFacts
  <2>4. QED
    BY <1>1, <2>2, <2>3 DEF KcExtOK
<1>6. QED
  BY <1>1, <1>2, <1>4, <1>5, ExtTypes DEF ExtInv

\* A step of a call that only moves on.
LEMMA ExtMovesOn ==
  ASSUME ExtInv, NEW c \in ExtCall, NEW pc \in {"degraded", "ready", "identity"},
         extCall[c].pc = "handshake", ExtGoto(c, pc),
         pc = "ready" => extCall[c].seen.client, pc = "identity" => ~extCall[c].seen.client,
         UNCHANGED <<extRow, kcExt, extDoubt, extAsked, extFaults>>
  PROVE  ExtInv'
<1>1. PICK r2 \in ExtCallRow :
            /\ extCall' = [extCall EXCEPT ![c] = r2] /\ extCall'[c] = r2
            /\ r2.pc = pc /\ r2.op = extCall[c].op /\ r2.id = extCall[c].id /\ r2.seen = extCall[c].seen /\ r2.beside = extCall[c].beside
  BY ExtCallTo
<1>2. ExtRowsStand(extRow, extRow') /\ ExtShapeOK(extCall[c]) /\ ExtSeenOK(extCall[c], extRow) /\ extCall[c] \in ExtCallRow
  BY ExtTypes DEF ExtRowsStand
<1>3. extCall[c].op = "Verify"
  BY <1>2, IdleExtFacts DEF ExtShapeOK, ExtCallRow, Making
<1>4. ExtShapeOK(r2) /\ ExtSeenOK(r2, extRow')
  BY <1>1, <1>2, <1>3 DEF ExtShapeOK, ExtSeenOK, Making
<1>5. ~r2.beside => ExtAloneOK(r2, extRow')
  <2>1. ~extCall[c].beside => ExtAloneOK(extCall[c], extRow)
    BY LiveAlone
  <2>2. QED
    BY <1>1, <1>3, <2>1 DEF ExtAloneOK, Making
<1>6. /\ ExtCallsOK(extCall', extRow') /\ extCall' \in [ExtCall -> ExtCallRow]
      /\ \A d \in ExtCall : d # c => extCall'[d] = extCall[d]
  BY <1>1, <1>2, <1>4, <1>5, ExtCallsChange
<1>7. ExtensionTypeOK'
  BY <1>6, ExtTyped DEF ExtInv, ExtensionTypeOK
<1>8. ASSUME ~extDoubt PROVE KcExtOK(extRow', kcExt', extCall')
  BY <1>1, <1>3, <1>6, <1>8, KcStands
<1>9. QED
  BY <1>6, <1>7, <1>8, ExtTypes DEF ExtInv

LEMMA VerifyHandshakeKeepsInv == ASSUME ExtInv, NEW c \in ExtCall, VerifyHandshake(c) PROVE ExtInv'
<1>1. extCall[c].pc = "handshake" /\ UNCHANGED <<extRow, kcExt, extDoubt, extAsked, extFaults>>
  BY DEF VerifyHandshake, extBoundsSame
<1>2. CASE ExtGoto(c, "degraded")
  BY <1>1, <1>2, ExtMovesOn
<1>3. CASE ExtGoto(c, "ready") /\ extCall[c].seen.client
  BY <1>1, <1>3, ExtMovesOn
<1>4. CASE ExtGoto(c, "identity") /\ ~extCall[c].seen.client
  BY <1>1, <1>4, ExtMovesOn
<1>5. QED
  BY <1>2, <1>3, <1>4 DEF VerifyHandshake

\* A row without a client is given one: first in Keycloak, then in the row.
LEMMA ensureIdentityCreates ==
  ASSUME ExtInv, NEW c \in ExtCall, extCall[c].pc = "identity", kcExt' = "enabled", ExtGoto(c, "setClient"),
         extDoubt' = (extDoubt \/ extCall[c].beside), UNCHANGED <<extRow, extAsked, extFaults>>
  PROVE  ExtInv'
<1>1. PICK r2 \in ExtCallRow :
            /\ extCall' = [extCall EXCEPT ![c] = r2] /\ extCall'[c] = r2
            /\ r2.pc = "setClient" /\ r2.op = extCall[c].op /\ r2.id = extCall[c].id /\ r2.seen = extCall[c].seen /\ r2.beside = extCall[c].beside
  BY ExtCallTo
<1>2. /\ ExtRowsStand(extRow, extRow') /\ ExtShapeOK(extCall[c]) /\ ExtSeenOK(extCall[c], extRow) /\ extCall[c] \in ExtCallRow
  BY ExtTypes DEF ExtRowsStand
<1>3. extCall[c].op \in {"Verify", "Rotate"}
  BY <1>2, IdleExtFacts DEF ExtShapeOK, ExtCallRow
<1>4. ExtShapeOK(r2) /\ ExtSeenOK(r2, extRow')
  BY <1>1, <1>2, <1>3 DEF ExtShapeOK, ExtSeenOK, Making
<1>5. ~r2.beside => ExtAloneOK(r2, extRow')
  <2>1. ~extCall[c].beside => ExtAloneOK(extCall[c], extRow)
    BY LiveAlone
  <2>2. QED
    BY <1>1, <1>3, <2>1 DEF ExtAloneOK, Making
<1>6. /\ ExtCallsOK(extCall', extRow') /\ extCall' \in [ExtCall -> ExtCallRow]
      /\ \A d \in ExtCall : d # c => extCall'[d] = extCall[d]
      /\ ~extCall[c].beside => \A d \in ExtCall : d # c => extCall[d].pc = "idle"
  BY <1>1, <1>2, <1>4, <1>5, ExtCallsChange
<1>7. ExtensionTypeOK'
  <2>1. extDoubt' \in BOOLEAN
    BY <1>2 DEF ExtInv, ExtensionTypeOK, ExtCallRow
  <2>2. QED
    BY <1>6, <2>1, ExtTyped DEF ExtInv, ExtensionTypeOK
<1>8. ASSUME ~extDoubt' PROVE KcExtOK(extRow', kcExt', extCall')
  BY <1>1, <1>3, <1>6, <1>8 DEF KcExtOK
<1>9. QED
  BY <1>6, <1>7, <1>8, ExtTypes DEF ExtInv

LEMMA ensureIdentityWrites ==
  ASSUME ExtInv, NEW c \in ExtCall, extCall[c].pc = "setClient", setClientID(extCall[c].id),
         ExtGoto(c, IF extCall[c].op = "Verify" THEN "ready" ELSE "rotate"),
         extDoubt' = (extDoubt \/ extCall[c].beside), UNCHANGED <<kcExt, extAsked, extFaults>>
  PROVE  ExtInv'
<1> DEFINE i == extCall[c].id
<1>1. PICK r2 \in ExtCallRow :
            /\ extCall' = [extCall EXCEPT ![c] = r2] /\ extCall'[c] = r2
            /\ r2.pc = IF extCall[c].op = "Verify" THEN "ready" ELSE "rotate"
            /\ r2.op = extCall[c].op /\ r2.id = extCall[c].id /\ r2.seen = extCall[c].seen /\ r2.beside = extCall[c].beside
  BY ExtCallTo
<1>2. /\ ExtShapeOK(extCall[c]) /\ ExtSeenOK(extCall[c], extRow) /\ extCall[c] \in ExtCallRow
  BY ExtTypes
<1>3. extCall[c].op \in {"Verify", "Rotate"} /\ i \in ExtId
  BY <1>2, IdleExtFacts DEF ExtShapeOK, ExtCallRow
<1>a. /\ extRow' \in [ExtId -> Extension] /\ ExtRowsOK(extRow') /\ ExtRowsStand(extRow, extRow')
      /\ extRow'[i].live = extRow[i].live /\ extRow'[i].client = extRow[i].live /\ extRow'[i].used = extRow[i].used
      /\ \A j \in ExtId : j # i => extRow'[j] = extRow[j]
  BY <1>3, setClientIDFacts
<1>4. ExtShapeOK(r2) /\ ExtSeenOK(r2, extRow')
  BY <1>1, <1>2, <1>3, <1>a DEF ExtShapeOK, ExtSeenOK, Making
<1>5. ~r2.beside => ExtAloneOK(r2, extRow')
  <2>1. ~extCall[c].beside => ExtAloneOK(extCall[c], extRow)
    BY LiveAlone
  <2>2. QED
    BY <1>1, <1>3, <1>a, <2>1 DEF ExtAloneOK, Making
<1>6. /\ ExtCallsOK(extCall', extRow') /\ extCall' \in [ExtCall -> ExtCallRow]
      /\ \A d \in ExtCall : d # c => extCall'[d] = extCall[d]
      /\ ~extCall[c].beside => \A d \in ExtCall : d # c => extCall[d].pc = "idle"
  BY <1>1, <1>a, <1>4, <1>5, ExtCallsChange
<1>b. extDoubt' \in BOOLEAN /\ (~extDoubt' => ~extDoubt /\ ~extCall[c].beside)
  BY <1>2 DEF ExtInv, ExtensionTypeOK, ExtCallRow
<1>7. ExtensionTypeOK'
  BY <1>6, <1>a, <1>b, ExtTyped DEF ExtInv, ExtensionTypeOK
<1>8. ASSUME ~extDoubt' PROVE KcExtOK(extRow', kcExt', extCall')
  <2>1. ~extCall[c].beside /\ KcExtOK(extRow, kcExt, extCall) /\ ExtAloneOK(extCall[c], extRow)
    BY <1>8, <1>b, LiveAlone DEF ExtInv
  <2>2. HasClient(extRow')
    BY <1>3, <1>a, <2>1 DEF HasClient, ExtAloneOK
  <2>3. kcExt' = "enabled"
    BY <2>1 DEF KcExtOK
  <2>4. \A d \in ExtCall : extCall'[d].op # "UnregisterBackend" \/ extCall'[d].pc # "delete"
    BY <1>1, <1>6, <2>1
  <2>5. QED
    BY <2>2, <2>3, <2>4 DEF KcExtOK
<1>9. QED
  BY <1>6, <1>7, <1>8, <1>a DEF ExtInv

LEMMA ensureIdentityKeepsInv == ASSUME ExtInv, NEW c \in ExtCall, ensureIdentity(c) PROVE ExtInv'
<1>1. extDoubt' = (extDoubt \/ extCall[c].beside) /\ UNCHANGED <<extAsked, extFaults>>
  BY DEF ensureIdentity, Doubtful, extBoundsSame
<1>2. CASE extCall[c].pc = "identity" /\ CreatesExtClient /\ ExtGoto(c, "setClient") /\ UNCHANGED extRow
  BY <1>1, <1>2, ensureIdentityCreates DEF CreatesExtClient, ExtensionClientSpec
<1>3. CASE /\ extCall[c].pc = "setClient" /\ setClientID(extCall[c].id) /\ UNCHANGED kcExt
           /\ ExtGoto(c, IF extCall[c].op = "Verify" THEN "ready" ELSE "rotate")
  BY <1>1, <1>3, ensureIdentityWrites
<1>4. QED
  BY <1>2, <1>3 DEF ensureIdentity

\* A call ends, and the rows say the same of the client.
LEMMA ExtEnds ==
  ASSUME ExtInv, NEW c \in ExtCall, ExtReturn(c), extCall[c].pc \notin {"idle", "setClient", "undo"}, extCall[c].op \notin {"Register", "UnregisterBackend"},
         extRow' \in [ExtId -> Extension], ExtRowsOK(extRow'), ExtRowsStand(extRow, extRow'),
         extDoubt' \in BOOLEAN, ~extDoubt' => ~extDoubt /\ (HasClient(extRow') <=> HasClient(extRow)),
         UNCHANGED <<kcExt, extAsked, extFaults>>
  PROVE  ExtInv'
<1>1. /\ ExtCallsOK(extCall', extRow') /\ extCall' \in [ExtCall -> ExtCallRow] /\ extCall'[c] = IdleExtCall
      /\ \A d \in ExtCall : d # c => extCall'[d] = extCall[d]
  BY ExtReturns
<1>2. ExtensionTypeOK'
  BY <1>1, ExtTyped DEF ExtInv, ExtensionTypeOK
<1>3. ASSUME ~extDoubt' PROVE KcExtOK(extRow', kcExt', extCall')
  BY <1>1, <1>3, IdleExtFacts, KcStands
<1>4. QED
  BY <1>1, <1>2, <1>3 DEF ExtInv

LEMMA SetStateKeepsInv == ASSUME ExtInv, NEW c \in ExtCall, SetState(c) PROVE ExtInv'
<1>1. /\ extCall[c].pc \in {"ready", "degraded"} /\ setState(extCall[c].id, extCall[c].pc) /\ ExtReturn(c)
      /\ UNCHANGED <<kcExt, extDoubt, extAsked, extFaults>>
  BY DEF SetState, extBoundsSame
<1>2. ExtShapeOK(extCall[c]) /\ ExtSeenOK(extCall[c], extRow) /\ extCall[c] \in ExtCallRow
  BY ExtTypes
<1>3. extCall[c].op = "Verify" /\ extCall[c].id \in ExtId
  BY <1>1, <1>2, IdleExtFacts DEF ExtShapeOK, ExtCallRow, Making
<1>4. extCall[c].pc = "ready" /\ extRow[extCall[c].id].live => extRow[extCall[c].id].client
  BY <1>2 DEF ExtSeenOK
<1>5. /\ extRow' \in [ExtId -> Extension] /\ ExtRowsOK(extRow') /\ ExtRowsStand(extRow, extRow')
      /\ HasClient(extRow') <=> HasClient(extRow)
  <2>1. extCall[c].pc \in ExtensionState
    BY <1>1 DEF ExtensionState
  <2>2. QED
    BY <1>1, <1>3, <1>4, <2>1, setStateFacts
<1>6. QED
  BY <1>1, <1>3, <1>5, ExtEnds DEF ExtInv, ExtensionTypeOK

LEMMA RotatesSecretKeepsInv == ASSUME ExtInv, NEW c \in ExtCall, RotatesSecret(c) PROVE ExtInv'
<1>1. /\ extCall[c].pc = "rotate" /\ ExtReturn(c) /\ UNCHANGED <<extRow, kcExt, extDoubt, extAsked, extFaults>>
  BY DEF RotatesSecret, extBoundsSame
<1>2. extCall[c].op \notin {"Register", "UnregisterBackend"}
  BY <1>1, ExtTypes DEF ExtShapeOK
<1>3. extRow' \in [ExtId -> Extension] /\ ExtRowsOK(extRow') /\ ExtRowsStand(extRow, extRow') /\ (HasClient(extRow') <=> HasClient(extRow))
  BY <1>1, ExtTypes DEF ExtRowsStand
<1>4. QED
  BY <1>1, <1>2, <1>3, ExtEnds DEF ExtInv, ExtensionTypeOK

\* The client goes before the row.
LEMMA disableIdentityKeepsInv == ASSUME ExtInv, NEW c \in ExtCall, disableIdentity(c) PROVE ExtInv'
<1>1. /\ extCall[c].pc = "disable" /\ ExtGoto(c, "delete") /\ UNCHANGED <<extRow, extAsked>>
      /\ \/ /\ kcExt' = IF extCall[c].seen.client THEN (IF kcExt = "none" THEN "none" ELSE "disabled") ELSE kcExt
            /\ extDoubt' = (extDoubt \/ extCall[c].beside) /\ extFaults' = extFaults
         \/ extFaults < MaxExtFaults /\ extFaults' = extFaults + 1 /\ extDoubt' = TRUE /\ kcExt' = kcExt
  BY DEF disableIdentity, DisablesExtClient, Doubtful, extBoundsSame
<1>2. PICK r2 \in ExtCallRow :
            /\ extCall' = [extCall EXCEPT ![c] = r2] /\ extCall'[c] = r2
            /\ r2.pc = "delete" /\ r2.op = extCall[c].op /\ r2.id = extCall[c].id /\ r2.seen = extCall[c].seen /\ r2.beside = extCall[c].beside
  BY <1>1, ExtCallTo
<1>3. /\ ExtRowsStand(extRow, extRow') /\ ExtShapeOK(extCall[c]) /\ ExtSeenOK(extCall[c], extRow) /\ extCall[c] \in ExtCallRow
  BY <1>1, ExtTypes DEF ExtRowsStand
<1>4. extCall[c].op = "UnregisterBackend" /\ extCall[c].id \in ExtId
  BY <1>1, <1>3, IdleExtFacts DEF ExtShapeOK, ExtCallRow, Making
<1>5. ExtShapeOK(r2) /\ ExtSeenOK(r2, extRow')
  BY <1>1, <1>2, <1>3, <1>4 DEF ExtShapeOK, ExtSeenOK
<1>6. ~r2.beside => ExtAloneOK(r2, extRow')
  <2>1. ~extCall[c].beside => ExtAloneOK(extCall[c], extRow)
    BY <1>1, LiveAlone
  <2>2. QED
    BY <1>1, <1>2, <1>4, <2>1 DEF ExtAloneOK, Making
<1>7. /\ ExtCallsOK(extCall', extRow') /\ extCall' \in [ExtCall -> ExtCallRow]
      /\ \A d \in ExtCall : d # c => extCall'[d] = extCall[d]
      /\ ~extCall[c].beside => \A d \in ExtCall : d # c => extCall[d].pc = "idle"
  BY <1>1, <1>2, <1>3, <1>5, <1>6, ExtCallsChange
<1>8. extDoubt' \in BOOLEAN /\ kcExt' \in {"none", "enabled", "disabled"}
  BY <1>1, <1>3 DEF ExtInv, ExtensionTypeOK, ExtCallRow
<1>9. extFaults' \in 0 .. MaxExtFaults
  BY <1>1, ExtensionAssumption DEF ExtInv, ExtensionTypeOK
<1>10. ExtensionTypeOK'
  BY <1>1, <1>7, <1>8, <1>9, ExtTyped DEF ExtInv, ExtensionTypeOK
<1>11. ASSUME ~extDoubt' PROVE KcExtOK(extRow', kcExt', extCall')
  <2>1. /\ ~extCall[c].beside /\ ~extDoubt
        /\ kcExt' = IF extCall[c].seen.client THEN (IF kcExt = "none" THEN "none" ELSE "disabled") ELSE kcExt
    BY <1>1, <1>3, <1>11 DEF ExtCallRow, ExtInv, ExtensionTypeOK
  <2>2. KcExtOK(extRow, kcExt, extCall) /\ \A d \in ExtCall : d # c => extCall'[d].pc = "idle" /\ extCall[d].pc = "idle"
    BY <1>7, <2>1 DEF ExtInv
  <2>3. kcExt' = "enabled" => HasClient(extRow)
    BY <1>1, <2>1, <2>2 DEF KcExtOK
  <2>4. HasClient(extRow) => kcExt' = "enabled" \/ extCall[c].seen.client
    BY <1>1, <2>1, <2>2 DEF KcExtOK
  <2>5. extCall[c].seen.client => kcExt' # "enabled"
    BY <2>1
  <2>6. QED
    BY <1>1, <1>2, <1>4, <2>2, <2>3, <2>4, <2>5 DEF KcExtOK
<1>12. QED
  BY <1>1, <1>7, <1>10, <1>11, ExtTypes DEF ExtInv

LEMMA UnregisterTxKeepsInv == ASSUME ExtInv, NEW c \in ExtCall, UnregisterTx(c) PROVE ExtInv'
<1> DEFINE i == extCall[c].id
<1>1. /\ extCall[c].pc = "delete" /\ extCall[c].op = "UnregisterBackend" /\ deleteExt(i) /\ ExtReturn(c)
      /\ UNCHANGED <<kcExt, extAsked, extFaults>> /\ extDoubt' = (extDoubt \/ extCall[c].beside)
  BY DEF UnregisterTx, Doubtful, extBoundsSame
<1>2. i \in ExtId /\ extCall[c] \in ExtCallRow
  BY <1>1, ExtTypes DEF ExtShapeOK
<1>3. /\ extRow' \in [ExtId -> Extension] /\ ExtRowsOK(extRow') /\ ExtRowsStand(extRow, extRow')
      /\ ~extRow'[i].live /\ \A j \in ExtId : j # i => extRow'[j] = extRow[j]
  BY <1>1, <1>2, deleteExtFacts
<1>4. /\ ExtCallsOK(extCall', extRow') /\ extCall' \in [ExtCall -> ExtCallRow] /\ extCall'[c] = IdleExtCall
      /\ \A d \in ExtCall : d # c => extCall'[d] = extCall[d]
      /\ ~extCall[c].beside => \A d \in ExtCall : d # c => extCall[d].pc = "idle"
  BY <1>1, <1>3, ExtReturns
<1>5. extDoubt' \in BOOLEAN /\ (~extDoubt' => ~extDoubt /\ ~extCall[c].beside)
  BY <1>1, <1>2 DEF ExtInv, ExtensionTypeOK, ExtCallRow
<1>6. ExtensionTypeOK'
  BY <1>1, <1>3, <1>4, <1>5, ExtTyped DEF ExtInv, ExtensionTypeOK
<1>7. ASSUME ~extDoubt' PROVE KcExtOK(extRow', kcExt', extCall')
  <2>1. ~extCall[c].beside /\ KcExtOK(extRow, kcExt, extCall) /\ ExtAloneOK(extCall[c], extRow)
    BY <1>1, <1>5, <1>7, LiveAlone DEF ExtInv
  <2>2. extRow[i].live /\ extRow[i].client = extCall[c].seen.client
    BY <1>1, <2>1 DEF ExtAloneOK
  <2>3. ~HasClient(extRow')
    BY <1>2, <1>3, <2>2, ExtTypes DEF HasClient, ExtRowsOK
  <2>4. kcExt # "enabled"
    <3>1. CASE extCall[c].seen.client
      BY <1>1, <2>1, <3>1 DEF KcExtOK
    <3>2. CASE ~extCall[c].seen.client
      <4>1. ~HasClient(extRow)
        BY <1>1, <1>2, <2>1, <2>2, <3>2, LiveAlone
      <4>2. \A d \in ExtCall : extCall[d].pc \notin {"setClient", "undo"} /\ ~(extCall[d].op = "Register" /\ extCall[d].pc = "tx")
        BY <1>1, <1>4, <2>1
      <4>3. QED
        BY <2>1, <4>1, <4>2 DEF KcExtOK
    <3>3. QED
      BY <3>1, <3>2
  <2>5. \A d \in ExtCall : extCall'[d].pc = "idle"
    BY <1>4, <2>1, IdleExtFacts
  <2>6. QED
    BY <1>1, <2>3, <2>4, <2>5 DEF KcExtOK
<1>8. QED
  BY <1>3, <1>4, <1>6, <1>7 DEF ExtInv

LEMMA RegisterUiTxKeepsInv == ASSUME ExtInv, NEW c \in ExtCall, RegisterUiTx(c) PROVE ExtInv'
<1> DEFINE i == extCall[c].id
           ui == extCall[c].seen.ui
           row == [NoExtRow EXCEPT !.kind = "ui", !.state = "ready", !.ui = ui]
<1>1. /\ extCall[c].op = "RegisterUi" /\ extCall[c].pc = "tx" /\ ExtReturn(c)
      /\ UNCHANGED <<kcExt, extDoubt, extAsked, extFaults>>
      /\ (i = NoExt /\ createExt(row)) \/ extRow' = extRow \/ (i # NoExt /\ setUi(i, ui))
  BY DEF RegisterUiTx, extBoundsSame
<1>2. ui \in UiExtensionDescriptor /\ i \in ExtId \cup {NoExt}
  BY ExtTypes DEF ExtCallRow, Extension
<1>3. row \in Extension /\ row.kind = "ui" /\ row.client = FALSE
  BY <1>2 DEF NoExtRow, Extension, ExtensionState, UiExtensionDescriptor
<1> HIDE DEF row
<1>4. /\ extRow' \in [ExtId -> Extension] /\ ExtRowsOK(extRow') /\ ExtRowsStand(extRow, extRow')
      /\ HasClient(extRow') <=> HasClient(extRow)
  <2>1. CASE createExt(row)
    BY <1>3, <2>1, createExtFacts
  <2>2. CASE extRow' = extRow
    BY <2>2, ExtTypes DEF ExtRowsStand
  <2>3. CASE i # NoExt /\ setUi(i, ui)
    BY <1>2, <2>3, setUiFacts
  <2>4. QED
    BY <1>1, <2>1, <2>2, <2>3
<1>5. QED
  BY <1>1, <1>4, ExtEnds DEF ExtInv, ExtensionTypeOK

\* The row of a UI goes, that of a backend stays.
LEMMA UnregisterUiTxKeepsInv == ASSUME ExtInv, NEW c \in ExtCall, UnregisterUiTx(c) PROVE ExtInv'
<1> DEFINE i == extCall[c].id
           gone == extCall[c].seen.kind = "ui"
<1>1. /\ extCall[c].op = "UnregisterUi" /\ ExtReturn(c) /\ UNCHANGED <<kcExt, extAsked, extFaults>>
      /\ IF gone THEN deleteExt(i) ELSE setUi(i, "none")
      /\ extDoubt' = (extDoubt \/ (gone /\ extRow[i].client))
  BY DEF UnregisterUiTx, extBoundsSame
<1>2. i \in ExtId /\ extCall[c].pc = "delete" /\ extRow[i].client \in BOOLEAN
  BY <1>1, ExtTypes DEF ExtShapeOK, Extension
<1>3. extDoubt' \in BOOLEAN /\ (~extDoubt' => ~extDoubt /\ (gone => ~extRow[i].client))
  BY <1>1, <1>2 DEF ExtInv, ExtensionTypeOK
<1>4. /\ extRow' \in [ExtId -> Extension] /\ ExtRowsOK(extRow') /\ ExtRowsStand(extRow, extRow')
      /\ ~extDoubt' => (HasClient(extRow') <=> HasClient(extRow))
  <2>1. CASE gone
    <3>1. /\ extRow' \in [ExtId -> Extension] /\ ExtRowsOK(extRow') /\ ExtRowsStand(extRow, extRow')
          /\ ~extRow'[i].live /\ \A j \in ExtId : j # i => extRow'[j] = extRow[j]
      BY <1>1, <1>2, <2>1, deleteExtFacts
    <3>2. QED
      BY <1>2, <1>3, <2>1, <3>1 DEF HasClient
  <2>2. CASE ~gone
    BY <1>1, <1>2, <2>2, setUiFacts DEF UiExtensionDescriptor
  <2>3. QED
    BY <2>1, <2>2
<1>5. QED
  BY <1>1, <1>2, <1>3, <1>4, ExtEnds

LEMMA RegisterTxFailsKeepsInv == ASSUME ExtInv, NEW c \in ExtCall, RegisterTxFails(c) PROVE ExtInv'
<1>a. /\ (extCall[c].op = "Register" /\ extCall[c].pc = "tx") \/ (extCall[c].pc = "setClient" /\ extCall[c].op \in {"Verify", "Rotate"})
      /\ extCall[c] \in ExtCallRow /\ ExtShapeOK(extCall[c]) /\ ExtSeenOK(extCall[c], extRow)
  BY ExtTypes, IdleExtFacts DEF ExtShapeOK, ExtCallRow, RegisterTxFails
<1>b. extFaults' \in 0 .. MaxExtFaults
  BY ExtensionAssumption DEF RegisterTxFails, ExtInv, ExtensionTypeOK
<1>c. ExtGoto(c, "undo") /\ UNCHANGED <<extRow, kcExt, extDoubt, extAsked>>
  BY DEF RegisterTxFails
<1>2. PICK r2 \in ExtCallRow :
            /\ extCall' = [extCall EXCEPT ![c] = r2] /\ extCall'[c] = r2
            /\ r2.pc = "undo" /\ r2.op = extCall[c].op /\ r2.id = extCall[c].id /\ r2.seen = extCall[c].seen /\ r2.beside = extCall[c].beside
  BY <1>c, ExtCallTo
<1>3. ExtShapeOK(r2) /\ ExtSeenOK(r2, extRow') /\ ExtRowsStand(extRow, extRow')
  BY <1>2, <1>a, <1>c DEF ExtShapeOK, ExtSeenOK, Making, ExtRowsStand
<1>4. ~r2.beside => ExtAloneOK(r2, extRow')
  <2>1. ~extCall[c].beside => ExtAloneOK(extCall[c], extRow)
    BY <1>a, LiveAlone
  <2>2. QED
    BY <1>2, <1>a, <1>c, <2>1 DEF ExtAloneOK, Making
<1>5. /\ ExtCallsOK(extCall', extRow') /\ extCall' \in [ExtCall -> ExtCallRow]
      /\ \A d \in ExtCall : d # c => extCall'[d] = extCall[d]
  BY <1>2, <1>3, <1>4, <1>a, ExtCallsChange
<1>6. ExtensionTypeOK'
  BY <1>5, <1>b, <1>c, ExtTyped DEF ExtInv, ExtensionTypeOK
<1>7. ASSUME ~extDoubt PROVE KcExtOK(extRow', kcExt', extCall')
  <2>1. KcExtOK(extRow, kcExt, extCall)
    BY <1>7 DEF ExtInv
  <2>2. QED
    BY <1>2, <1>5, <1>a, <1>c, <2>1 DEF KcExtOK
<1>8. QED
  BY <1>5, <1>6, <1>7, <1>c, ExtTypes DEF ExtInv

LEMMA ExtCallFailsKeepsInv == ASSUME ExtInv, NEW c \in ExtCall, ExtCallFails(c) PROVE ExtInv'
<1>1. ExtReturn(c) /\ extDoubt' = TRUE /\ UNCHANGED <<extRow, kcExt, extAsked>> /\ extCall[c].pc # "idle"
  BY ExtTypes DEF ExtCallFails, busy, ExtShapeOK
<1>2. extFaults' \in 0 .. MaxExtFaults
  BY ExtensionAssumption DEF ExtCallFails, ExtInv, ExtensionTypeOK
<1>3. ExtCallsOK(extCall', extRow') /\ extCall' \in [ExtCall -> ExtCallRow]
  BY <1>1, ExtReturns, RowsStay
<1>4. ExtensionTypeOK'
  BY <1>1, <1>2, <1>3, ExtTyped DEF ExtInv, ExtensionTypeOK
<1>5. QED
  BY <1>1, <1>3, <1>4, ExtTypes DEF ExtInv

-----------------------------------------------------------------------------
(* ExtensionHost: requests *)

LEMMA ExtAuthorized == ASSUME ExtInv, NEW u \in User, authorizeExtensions(u) PROVE extAsked' \in 0 .. MaxExtRequests
BY ExtensionAssumption DEF authorizeExtensions, ExtInv, ExtensionTypeOK

LEMMA ExtRequestKeepsInv ==
  ASSUME ExtInv, NEW c \in ExtCall, extAsked' \in 0 .. MaxExtRequests,
         \/ Register(c) \/ \E i \in ExtId : Verify(c, i) \/ RotateIdentitySecret(c, i) \/ UnregisterBackend(c, i)
         \/ \E choice \in UiExtensionDescriptor : RegisterUi(c, choice)
         \/ UnregisterUi(c)
  PROVE  ExtInv'
<1>0. NoExtRow \in Extension /\ IdleExtCall.seen = NoExtRow /\ IdleExtCall.id = NoExt
  BY DEF NoExtRow, Extension, ExtensionState, UiExtensionDescriptor, IdleExtCall
<1>1. CASE Register(c)
  <2> DEFINE call == [IdleExtCall EXCEPT !.op = "Register", !.pc = "client"]
  <2>1. call \in ExtCallRow /\ call.op = "Register" /\ call.pc = "client" /\ call.id = NoExt
    BY <1>0 DEF IdleExtCall, ExtCallRow
  <2>2. BeginExt(c, call) /\ \A i \in ExtId : ~extRow[i].live
    BY <1>1 DEF Register, getByName
  <2> HIDE DEF call
  <2>3. ExtShapeOK(call) /\ ExtAloneOK(call, extRow)
    BY <2>1, <2>2 DEF ExtShapeOK, ExtAloneOK, Making
  <2>4. QED
    BY <2>1, <2>2, <2>3, ExtensionAssumption, BeginExtKeepsInv
<1>2. ASSUME NEW i \in ExtId, Verify(c, i) PROVE ExtInv'
  <2> DEFINE call == [IdleExtCall EXCEPT !.op = "Verify", !.pc = "handshake", !.id = i, !.seen = extRow[i]]
  <2>1. call \in ExtCallRow /\ call.op = "Verify" /\ call.pc = "handshake" /\ call.id = i /\ call.seen = extRow[i]
    BY <1>0, ExtTypes DEF IdleExtCall, ExtCallRow
  <2>2. BeginExt(c, call) /\ extRow[i].live
    BY <1>2 DEF Verify, getExt
  <2> HIDE DEF call
  <2>3. ExtShapeOK(call) /\ ExtAloneOK(call, extRow)
    BY <2>1, <2>2 DEF ExtShapeOK, ExtAloneOK, Making
  <2>4. QED
    BY <2>1, <2>2, <2>3, BeginExtKeepsInv
<1>3. ASSUME NEW i \in ExtId, RotateIdentitySecret(c, i) PROVE ExtInv'
  <2> DEFINE pc == IF extRow[i].client THEN "rotate" ELSE "identity"
             call == [IdleExtCall EXCEPT !.op = "Rotate", !.pc = pc, !.id = i, !.seen = extRow[i]]
  <2>1. call \in ExtCallRow /\ call.op = "Rotate" /\ call.pc = pc /\ call.id = i /\ call.seen = extRow[i]
    BY <1>0, ExtTypes DEF IdleExtCall, ExtCallRow
  <2>2. BeginExt(c, call) /\ extRow[i].live
    BY <1>3 DEF RotateIdentitySecret, getExt
  <2> HIDE DEF call
  <2>3. ExtShapeOK(call) /\ ExtAloneOK(call, extRow)
    BY <2>1, <2>2 DEF ExtShapeOK, ExtAloneOK, Making
  <2>4. QED
    BY <2>1, <2>2, <2>3, BeginExtKeepsInv
<1>4. ASSUME NEW i \in ExtId, UnregisterBackend(c, i) PROVE ExtInv'
  <2> DEFINE call == [IdleExtCall EXCEPT !.op = "UnregisterBackend", !.pc = "disable", !.id = i, !.seen = extRow[i]]
  <2>1. call \in ExtCallRow /\ call.op = "UnregisterBackend" /\ call.pc = "disable" /\ call.id = i /\ call.seen = extRow[i]
    BY <1>0, ExtTypes DEF IdleExtCall, ExtCallRow
  <2>2. BeginExt(c, call) /\ extRow[i].live
    BY <1>4 DEF UnregisterBackend, getExt
  <2> HIDE DEF call
  <2>3. ExtShapeOK(call) /\ ExtAloneOK(call, extRow)
    BY <2>1, <2>2 DEF ExtShapeOK, ExtAloneOK, Making
  <2>4. QED
    BY <2>1, <2>2, <2>3, BeginExtKeepsInv
<1>5. ASSUME NEW call \in ExtCallRow, call.op = "RegisterUi", call.pc = "tx", call.id \in ExtId => extRow[call.id].live, BeginExt(c, call)
      PROVE  ExtInv'
  <2>1. ExtShapeOK(call) /\ ExtAloneOK(call, extRow)
    BY <1>5 DEF ExtShapeOK, ExtAloneOK, Making
  <2>2. QED
    BY <1>5, <2>1, BeginExtKeepsInv
<1>6. ASSUME NEW choice \in UiExtensionDescriptor, RegisterUi(c, choice) PROVE ExtInv'
  <2>1. descriptorFor(choice, NoExtRow) \in UiExtensionDescriptor /\ \A i \in ExtId : descriptorFor(choice, extRow[i]) \in UiExtensionDescriptor
    BY <1>0, ExtTypes DEF descriptorFor, Extension, UiExtensionDescriptor
  <2>2. CASE BeginExt(c, [IdleExtCall EXCEPT !.op = "RegisterUi", !.pc = "tx", !.seen.ui = descriptorFor(choice, NoExtRow)])
    <3> DEFINE call == [IdleExtCall EXCEPT !.op = "RegisterUi", !.pc = "tx", !.seen.ui = descriptorFor(choice, NoExtRow)]
    <3>1. call \in ExtCallRow /\ call.op = "RegisterUi" /\ call.pc = "tx" /\ call.id = NoExt
      BY <1>0, <2>1 DEF IdleExtCall, ExtCallRow, Extension
    <3>2. BeginExt(c, call)
      BY <2>2
    <3> HIDE DEF call
    <3>3. QED
      BY <1>5, <3>1, <3>2, ExtensionAssumption
  <2>3. ASSUME NEW i \in getByName,
               BeginExt(c, [IdleExtCall EXCEPT !.op = "RegisterUi", !.pc = "tx", !.id = i, !.seen = [extRow[i] EXCEPT !.ui = descriptorFor(choice, extRow[i])]])
        PROVE  ExtInv'
    <3> DEFINE call == [IdleExtCall EXCEPT !.op = "RegisterUi", !.pc = "tx", !.id = i, !.seen = [extRow[i] EXCEPT !.ui = descriptorFor(choice, extRow[i])]]
    <3>0. i \in ExtId /\ extRow[i].live /\ [extRow[i] EXCEPT !.ui = descriptorFor(choice, extRow[i])] \in Extension
      BY <2>1, <2>3, ExtTypes DEF getByName, Extension
    <3>1. call \in ExtCallRow /\ call.op = "RegisterUi" /\ call.pc = "tx" /\ call.id = i
      BY <1>0, <3>0 DEF IdleExtCall, ExtCallRow
    <3>2. BeginExt(c, call)
      BY <2>3
    <3> HIDE DEF call
    <3>3. QED
      BY <1>5, <3>0, <3>1, <3>2
  <2>4. QED
    BY <1>6, <2>2, <2>3 DEF RegisterUi
<1>7. CASE UnregisterUi(c)
  <2>1. PICK i \in GetUi : BeginExt(c, [IdleExtCall EXCEPT !.op = "UnregisterUi", !.pc = "delete", !.id = i, !.seen = extRow[i]])
    BY <1>7 DEF UnregisterUi
  <2> DEFINE call == [IdleExtCall EXCEPT !.op = "UnregisterUi", !.pc = "delete", !.id = i, !.seen = extRow[i]]
  <2>2. i \in ExtId /\ extRow[i].live
    BY DEF GetUi, getByName
  <2>3. call \in ExtCallRow /\ call.op = "UnregisterUi" /\ call.pc = "delete" /\ call.id = i /\ call.seen = extRow[i]
    BY <1>0, <2>2, ExtTypes DEF IdleExtCall, ExtCallRow
  <2>4. BeginExt(c, call)
    BY <2>1
  <2> HIDE DEF call
  <2>5. ExtShapeOK(call) /\ ExtAloneOK(call, extRow)
    BY <2>2, <2>3 DEF ExtShapeOK, ExtAloneOK, Making
  <2>6. QED
    BY <2>2, <2>3, <2>4, <2>5, BeginExtKeepsInv
<1>8. QED
  BY <1>1, <1>2, <1>3, <1>4, <1>6, <1>7

LEMMA ExtInvStep == ASSUME ExtInv, [ExtensionNext]_extensionVars PROVE ExtInv'
<1>1. CASE UNCHANGED extensionVars
  BY <1>1 DEF extensionVars, ExtInv, ExtensionTypeOK
<1>2. ASSUME NEW c \in ExtCall, ExtStep(c) \/ RegisterTxFails(c) \/ ExtCallFails(c) PROVE ExtInv'
  BY <1>2, RegisterClientKeepsInv, RegisterTxKeepsInv, RegisterUndoKeepsInv, VerifyHandshakeKeepsInv, ensureIdentityKeepsInv,
     SetStateKeepsInv, RotatesSecretKeepsInv, disableIdentityKeepsInv, UnregisterTxKeepsInv, RegisterUiTxKeepsInv,
     UnregisterUiTxKeepsInv, RegisterTxFailsKeepsInv, ExtCallFailsKeepsInv DEF ExtStep
<1>3. ASSUME NEW c \in ExtCall, NEW u \in User, ExtensionRoutes(u, c) PROVE ExtInv'
  <2>1. authorizeExtensions(u)
    BY <1>3 DEF ExtensionRoutes, register, verify, rotateIdentity, unregister, registerUi, unregisterUi
  <2>2. \/ Register(c) \/ \E i \in ExtId : Verify(c, i) \/ RotateIdentitySecret(c, i) \/ UnregisterBackend(c, i)
        \/ \E choice \in UiExtensionDescriptor : RegisterUi(c, choice)
        \/ UnregisterUi(c)
    BY <1>3 DEF ExtensionRoutes, register, verify, rotateIdentity, unregister, registerUi, unregisterUi
  <2>3. QED
    BY <2>1, <2>2, ExtAuthorized, ExtRequestKeepsInv
<1>4. QED
  BY <1>1, <1>2, <1>3 DEF ExtensionNext

\* What the run checks of extensions follows.
LEMMA ExtInvGives == ASSUME ExtInv PROVE ExtensionTypeOK /\ ReadyHasClient /\ ClientAgrees
<1>1. ExtensionTypeOK /\ ReadyHasClient
  BY DEF ExtInv, ExtRowsOK, ReadyHasClient, getByName
<1>2. ClientAgrees
  <2>1. SUFFICES ASSUME \A c \in ExtCall : ~busy(c), ~extDoubt PROVE (kcExt = "enabled") <=> \E i \in getByName : extRow[i].client
    BY DEF ClientAgrees
  <2>2. \A c \in ExtCall : extCall[c].pc = "idle" /\ extCall[c].op = "none"
    BY <2>1, IdleExtFacts DEF busy
  <2>3. KcExtOK(extRow, kcExt, extCall)
    BY <2>1 DEF ExtInv
  <2>4. (kcExt = "enabled") <=> HasClient(extRow)
    BY <2>2, <2>3 DEF KcExtOK
  <2>5. QED
    BY <2>4 DEF HasClient, getByName
<1>3. QED
  BY <1>1, <1>2

-----------------------------------------------------------------------------
(* ExtensionProxy *)

\* An exchange in progress is no older than its timeout.
ExchangesInTime == \A q \in ProxyRequest : proxyRequest[q].pc \in {"exchange", "store"} =>
    proxyRequest[q].since <= clock /\ clock <= proxyRequest[q].since + ExchangeTimeout

\* A kept token is of the user and for the audience of its key, and is forgotten before it is over
\* by more than an exchange takes.
KeptOK == \A e \in exchanged :
    e.of = SubjectOf[e.key[1]] /\ e.for = e.key[2] /\ e.expiry <= e.until + ExchangeTimeout

ProxyInv == ProxyTypeOK /\ ExchangesInTime /\ KeptOK /\ CredentialOfUser /\ TokenAlive

\* An extension's method is one it declares, or oidc-user without an audience.
LEMMA MethodPicked ==
  ASSUME NEW offered \in Manifests \cup {<<>>}
  PROVE  /\ pickAuthMethod(offered) \in DeclaredAuthMethod
         /\ pickAuthMethod(offered).audience \in Audience /\ sessionProviderFor(offered) \in Audience
<1> DEFINE methods == declaredAuthMethods(offered)
<1>1. methods \in Seq(DeclaredAuthMethod) /\ methods # <<>>
  <2>1. [method |-> "oidc-user", audience |-> "", isDefault |-> TRUE] \in DeclaredAuthMethod
    <3>1. "" \in Audience
      BY ProxyAssumption, Zenon
    <3>2. QED
      BY <3>1 DEF DeclaredAuthMethod, AuthMethod
  <2>2. CASE offered = <<>>
    <3>1. \A m \in DeclaredAuthMethod : <<m>> \in Seq(DeclaredAuthMethod) /\ <<m>> # <<>>
      OBVIOUS
    <3>2. methods = <<[method |-> "oidc-user", audience |-> "", isDefault |-> TRUE]>>
      BY <2>2, Zenon DEF declaredAuthMethods
    <3>3. QED
      BY <2>1, <3>1, <3>2, Zenon
  <2>3. CASE offered # <<>>
    BY <2>3, ProxyAssumption DEF declaredAuthMethods
  <2>4. QED
    BY <2>2, <2>3
<1> DEFINE default == {i \in DOMAIN methods : methods[i].isDefault /\ \A j \in 1 .. i - 1 : ~methods[j].isDefault}
           pick == IF default = {} THEN 1 ELSE CHOOSE i \in default : TRUE
<1>2. 1 \in DOMAIN methods
  BY <1>1
<1>3. pick \in DOMAIN methods
  <2>1. default # {} => (CHOOSE i \in default : TRUE) \in default
    OBVIOUS
  <2>2. default \subseteq DOMAIN methods
    OBVIOUS
  <2> HIDE DEF default, methods
  <2>3. QED
    BY <1>2, <2>1, <2>2
<1>4. pickAuthMethod(offered) = methods[pick]
  BY DEF pickAuthMethod
<1> HIDE DEF methods, pick
<1>5. pickAuthMethod(offered) \in DeclaredAuthMethod
  BY <1>1, <1>3, <1>4
<1>6. QED
  BY <1>5, ProxyAssumption DEF DeclaredAuthMethod, sessionProviderFor

\* What is assumed of the constants, apart from the methods and audiences.
LEMMA ProxyNumbers ==
  /\ TokenLife \subseteq Nat /\ MaxProxyRequests \in Nat /\ MaxProxyTime \in Nat
  /\ ExchangeCacheMaxTTL \in Nat /\ ExchangeTimeout \in Nat /\ SessionTTL \in Nat /\ SessionMaxTTL \in Nat
  /\ DefaultExchangeTokenTTL \in Nat /\ DefaultExchangeTokenTTL > 0
  /\ SubjectToken # {} /\ SubjectOf \in [SubjectToken -> User]
<1>1. {ExchangeCacheMaxTTL, ExchangeTimeout, SessionTTL, SessionMaxTTL} \subseteq Nat
  BY ProxyAssumption, Zenon
<1>2. TokenLife \subseteq Nat /\ MaxProxyRequests \in Nat /\ MaxProxyTime \in Nat /\ DefaultExchangeTokenTTL \in Nat \ {0}
  BY ProxyAssumption, Zenon
<1>3. SubjectToken # {} /\ SubjectOf \in [SubjectToken -> User]
  BY ProxyAssumption, Zenon
<1>4. QED
  BY <1>1, <1>2, <1>3

LEMMA ProxyBounds ==
  /\ 0 \in Time /\ Time \subseteq Nat
  /\ IdleProxy \in [pc : {"idle", "resolve", "exchange", "store"}, subject : SubjectToken, ext : Manifests \cup {<<>>},
                    since : Time, life : TokenLife \cup {0}]
  /\ IdleProxy.pc = "idle"
  /\ proxyAsked \in 0 .. MaxProxyRequests /\ ProxyAsks => proxyAsked' \in 0 .. MaxProxyRequests
<1>1. 0 \in Time /\ Time \subseteq Nat
  BY ProxyNumbers DEF Time
<1>2. (CHOOSE s \in SubjectToken : TRUE) \in SubjectToken
  BY ProxyNumbers
<1>3. QED
  BY <1>1, <1>2, ProxyNumbers DEF IdleProxy, ProxyAsks

LEMMA ProxyInvInit == ASSUME ProxyInit PROVE ProxyInv
<1>1. proxyExt \in [ready : BOOLEAN, offered : Manifests]
  BY DEF ProxyInit
<1>2. ProxyTypeOK
  BY <1>1, ProxyNumbers, ProxyBounds DEF ProxyInit, ProxyTypeOK
<1>3. ExchangesInTime
  BY ProxyBounds DEF ProxyInit, ExchangesInTime
<1>4. QED
  BY <1>2, <1>3 DEF ProxyInit, ProxyInv, KeptOK, CredentialOfUser, TokenAlive

\* A lifetime that was answered, or the default, is positive, and a capped one is no longer.
LEMMA Lives ==
  ASSUME NEW life \in TokenLife \cup {0}, NEW most \in Nat
  PROVE  /\ lifeOf(life) \in Nat /\ lifeOf(life) > 0
         /\ capped(lifeOf(life), most) \in Nat /\ capped(lifeOf(life), most) <= lifeOf(life)
BY ProxyNumbers DEF lifeOf, capped

\* A step that forwards nothing and keeps no token.
LEMMA ForwardsNothing ==
  ASSUME ProxyInv, ProxyTypeOK', ExchangesInTime', forwarded' = {}, UNCHANGED exchanged
  PROVE  ProxyInv'
BY DEF ProxyInv, KeptOK, CredentialOfUser, TokenAlive

LEMMA ProxyServes ==
  ASSUME ProxyInv, NEW q \in ProxyRequest, ProxyEnds(q), UNCHANGED <<proxyExt, clock, proxyAsked>>,
         exchanged' \subseteq exchangeCacheEntry, UNCHANGED session, forwarded' \subseteq ResolvedAuth
  PROVE  ProxyTypeOK' /\ ExchangesInTime'
<1>1. ProxyTypeOK'
  BY ProxyBounds DEF ProxyInv, ProxyTypeOK, ProxyEnds
<1>2. ExchangesInTime'
  BY ProxyBounds DEF ProxyInv, ProxyTypeOK, ProxyEnds, ExchangesInTime
<1>3. QED
  BY <1>1, <1>2

LEMMA ResolveKeepsInv == ASSUME ProxyInv, NEW q \in ProxyRequest, Resolve(q) PROVE ProxyInv'
<1> DEFINE r == proxyRequest[q]
<1>1. /\ r.subject \in SubjectToken /\ SubjectOf[r.subject] \in User /\ clock \in Nat /\ clock \in Time
      /\ r \in [pc : {"idle", "resolve", "exchange", "store"}, subject : SubjectToken, ext : Manifests \cup {<<>>},
                since : Time, life : TokenLife \cup {0}]
  BY ProxyBounds, ProxyNumbers DEF ProxyInv, ProxyTypeOK
<1>a. r.ext \in Manifests \cup {<<>>} /\ AudienceAsked(q) \in Audience /\ sessionProviderFor(r.ext) \in Audience
  BY <1>1, MethodPicked DEF AudienceAsked
<1> DEFINE audience == AudienceAsked(q)
<1>2. CASE Exchange(q)
  <2>1. CASE cached(r.subject, audience) = {}
    <3>1. /\ proxyRequest' = [proxyRequest EXCEPT ![q].pc = "exchange", ![q].since = clock] /\ forwarded' = {}
          /\ UNCHANGED <<proxyExt, clock, proxyAsked, exchanged, session>>
      BY <1>2, <2>1 DEF Exchange, Resolve
    <3>2. ProxyTypeOK'
      BY <1>1, <3>1 DEF ProxyInv, ProxyTypeOK
    <3>3. ExchangesInTime'
      <4>1. \A x \in ProxyRequest : x # q => proxyRequest'[x] = proxyRequest[x]
        BY <3>1 DEF ProxyInv, ProxyTypeOK
      <4>2. proxyRequest'[q].since = clock
        BY <3>1 DEF ProxyInv, ProxyTypeOK
      <4>3. clock' = clock /\ clock <= clock + ExchangeTimeout
        BY <1>1, <3>1, ProxyNumbers
      <4>4. SUFFICES ASSUME NEW x \in ProxyRequest, proxyRequest'[x].pc \in {"exchange", "store"}
                     PROVE  proxyRequest'[x].since <= clock' /\ clock' <= proxyRequest'[x].since + ExchangeTimeout
        BY DEF ExchangesInTime
      <4>5. CASE x = q
        BY <1>1, <4>2, <4>3, <4>5
      <4>6. CASE x # q
        BY <4>1, <4>3, <4>4, <4>6 DEF ProxyInv, ExchangesInTime
      <4>7. QED
        BY <4>5, <4>6
    <3>4. QED
      BY <3>1, <3>2, <3>3, ForwardsNothing
  <2>2. CASE cached(r.subject, audience) # {}
    <3>1. PICK e \in cached(r.subject, audience) : forwarded' = {Credential(q, e.of, e.for, e.until, audience, "oidc-user")}
      BY <1>2, <2>2 DEF Exchange
    <3>2. ProxyEnds(q) /\ UNCHANGED <<proxyExt, clock, proxyAsked, exchanged, session>>
      BY <1>2, <2>2 DEF Exchange, Resolve
    <3>3. e \in exchanged /\ e.key = <<r.subject, audience>> /\ clock < e.expiry
      BY <3>1 DEF cached, exchangeCacheKey, before
    <3>4. /\ e.of = SubjectOf[r.subject] /\ e.for = audience
          /\ e.expiry <= e.until + ExchangeTimeout /\ e.until \in Nat /\ e.expiry \in Nat
      BY <3>3 DEF ProxyInv, KeptOK, ProxyTypeOK, exchangeCacheEntry
    <3>5. forwarded' = {[of |-> e.of, for |-> e.for, to |-> SubjectOf[r.subject], asked |-> audience, at |-> clock,
                         until |-> e.until, method |-> "oidc-user"]}
      BY <3>1 DEF Credential
    <3>6. forwarded' \subseteq ResolvedAuth
      BY <1>1, <1>a, <3>4, <3>5 DEF ResolvedAuth, AuthMethod
    <3>7. ProxyTypeOK' /\ ExchangesInTime'
      BY <3>2, <3>6, ProxyServes DEF ProxyInv, ProxyTypeOK
    <3>8. clock < e.until + ExchangeTimeout
      BY <1>1, <3>3, <3>4, ProxyNumbers
    <3>9. CredentialOfUser' /\ TokenAlive'
      BY <3>4, <3>5, <3>8 DEF CredentialOfUser, TokenAlive
    <3>10. QED
      BY <3>2, <3>7, <3>9 DEF ProxyInv, KeptOK
  <2>3. QED
    BY <2>1, <2>2
<1>3. CASE ssoResolve(q)
  <2>1. ProxyEnds(q) /\ UNCHANGED <<proxyExt, clock, proxyAsked, exchanged, session>>
    BY <1>3 DEF ssoResolve, Resolve
  <2>2. \A f \in forwarded' : \E s \in session : s.user = SubjectOf[r.subject] /\ s.provider = sessionProviderFor(r.ext)
           /\ f = [of |-> s.user, for |-> s.provider, to |-> SubjectOf[r.subject], asked |-> sessionProviderFor(r.ext),
                   at |-> clock, until |-> s.until, method |-> "oidc-sso-session"]
    BY <1>3 DEF ssoResolve, getSession, Credential
  <2>3. \A s \in session : s.user \in User /\ s.provider \in Audience /\ s.until \in Nat
    BY DEF ProxyInv, ProxyTypeOK, UserSession
  <2>4. \A f \in forwarded' : f \in ResolvedAuth /\ f.of = f.to /\ f.for = f.asked /\ f.method # "oidc-user"
    BY <1>1, <1>a, <2>2, <2>3 DEF ResolvedAuth, AuthMethod
  <2>5. ProxyTypeOK' /\ ExchangesInTime'
    BY <2>1, <2>4, ProxyServes DEF ProxyInv, ProxyTypeOK
  <2>6. CredentialOfUser' /\ TokenAlive'
    BY <2>4 DEF CredentialOfUser, TokenAlive
  <2>7. QED
    BY <2>1, <2>5, <2>6 DEF ProxyInv, KeptOK
<1>4. CASE ProxyEnds(q) /\ forwarded' = {} /\ UNCHANGED <<exchanged, session>>
  <2>1. UNCHANGED <<proxyExt, clock, proxyAsked>>
    BY DEF Resolve
  <2>2. QED
    BY <1>4, <2>1, ProxyServes, ForwardsNothing DEF ProxyInv, ProxyTypeOK
<1>5. QED
  BY <1>2, <1>3, <1>4 DEF Resolve

LEMMA ExchangeReturnsKeepsInv == ASSUME ProxyInv, NEW q \in ProxyRequest, ExchangeReturns(q) PROVE ProxyInv'
<1> DEFINE r == proxyRequest[q]
           until == r.since + lifeOf(r.life)
           life == capped(lifeOf(r.life), ExchangeCacheMaxTTL)
           audience == AudienceAsked(q)
           entry == [key |-> <<r.subject, audience>>, of |-> SubjectOf[r.subject], for |-> audience,
                     expiry |-> clock + life, until |-> until]
<1>1. /\ r.subject \in SubjectToken /\ SubjectOf[r.subject] \in User
      /\ clock \in Nat /\ clock \in Time /\ r.since \in Nat /\ r.life \in TokenLife \cup {0}
  BY ProxyBounds, ProxyNumbers DEF ProxyInv, ProxyTypeOK
<1>a. audience \in Audience
  <2>1. r.ext \in Manifests \cup {<<>>}
    BY DEF ProxyInv, ProxyTypeOK
  <2>2. QED
    BY <2>1, MethodPicked DEF AudienceAsked
<1>2. r.since <= clock /\ clock <= r.since + ExchangeTimeout
  BY DEF ExchangeReturns, ProxyInv, ExchangesInTime
<1>3. lifeOf(r.life) \in Nat /\ lifeOf(r.life) > 0 /\ life \in Nat /\ life <= lifeOf(r.life)
  BY <1>1, Lives, ProxyNumbers
<1>4. /\ ProxyEnds(q) /\ forwarded' = {[of |-> SubjectOf[r.subject], for |-> audience, to |-> SubjectOf[r.subject],
                                       asked |-> audience, at |-> clock, until |-> until, method |-> "oidc-user"]}
      /\ exchanged' = {e \in exchanged : before(e.expiry) /\ e.key # <<r.subject, audience>>} \cup {entry}
      /\ UNCHANGED <<proxyExt, session, clock, proxyAsked>>
  BY DEF ExchangeReturns, Credential, storeToken, exchangeCacheKey
<1>5. until \in Nat /\ clock + life \in Nat /\ clock + life <= until + ExchangeTimeout /\ clock < until + ExchangeTimeout
  BY <1>1, <1>2, <1>3, ProxyNumbers
<1> HIDE DEF until, life, audience
<1>6. forwarded' \subseteq ResolvedAuth /\ entry \in exchangeCacheEntry
  BY <1>1, <1>a, <1>4, <1>5 DEF ResolvedAuth, AuthMethod, exchangeCacheEntry
<1>7. exchanged' \subseteq exchangeCacheEntry
  BY <1>4, <1>6 DEF ProxyInv, ProxyTypeOK
<1>8. ProxyTypeOK' /\ ExchangesInTime'
  BY <1>4, <1>6, <1>7, ProxyServes
<1>9. KeptOK'
  <2>1. \A e \in exchanged' : e \in exchanged \/ e = entry
    BY <1>4
  <2>2. entry.of = SubjectOf[entry.key[1]] /\ entry.for = entry.key[2] /\ entry.expiry <= entry.until + ExchangeTimeout
    BY <1>5
  <2>3. QED
    BY <2>1, <2>2 DEF ProxyInv, KeptOK
<1>10. CredentialOfUser' /\ TokenAlive'
  BY <1>4, <1>5 DEF CredentialOfUser, TokenAlive
<1>11. QED
  BY <1>8, <1>9, <1>10 DEF ProxyInv

LEMMA ProxyRequestsKeepInv ==
  ASSUME ProxyInv, NEW q \in ProxyRequest, KeycloakIssues(q) \/ ExchangeFails(q) \/ \E s \in SubjectToken : ProxyServe(s, q)
  PROVE  ProxyInv'
<1>0. clock \in Time /\ clock \in Nat /\ proxyRequest[q] \in [pc : {"idle", "resolve", "exchange", "store"}, subject : SubjectToken, ext : Manifests \cup {<<>>},
           since : Time, life : TokenLife \cup {0}]
  BY ProxyBounds DEF ProxyInv, ProxyTypeOK
<1>1. CASE KeycloakIssues(q)
  <2>1. PICK life \in TokenLife : proxyRequest' = [proxyRequest EXCEPT ![q].pc = "store", ![q].since = clock, ![q].life = life]
    BY <1>1 DEF KeycloakIssues
  <2>2. forwarded' = {} /\ UNCHANGED <<proxyExt, exchanged, session, clock, proxyAsked>>
    BY <1>1 DEF KeycloakIssues
  <2>3. ProxyTypeOK'
    BY <1>0, <2>1, <2>2 DEF ProxyInv, ProxyTypeOK
  <2>4. ExchangesInTime'
    <3>1. \A x \in ProxyRequest : x # q => proxyRequest'[x] = proxyRequest[x]
      BY <2>1 DEF ProxyInv, ProxyTypeOK
    <3>2. proxyRequest'[q].since = clock
      BY <2>1 DEF ProxyInv, ProxyTypeOK
    <3>3. QED
      BY <1>0, <2>2, <3>1, <3>2, ProxyNumbers DEF ProxyInv, ExchangesInTime
  <2>5. QED
    BY <2>2, <2>3, <2>4, ForwardsNothing
<1>2. CASE ExchangeFails(q)
  BY <1>2, ProxyServes, ForwardsNothing DEF ExchangeFails, ProxyInv, ProxyTypeOK
<1>3. CASE \E s \in SubjectToken : ProxyServe(s, q)
  <2>1. PICK s \in SubjectToken : ProxyServe(s, q)
    BY <1>3
  <2>2. proxyExt.offered \in Manifests /\ proxyAsked' \in 0 .. MaxProxyRequests
    BY <2>1, ProxyBounds DEF ProxyServe, ProxyInv, ProxyTypeOK
  <2>3. [IdleProxy EXCEPT !.pc = "resolve", !.subject = s, !.ext = proxyExt.offered]
           \in [pc : {"idle", "resolve", "exchange", "store"}, subject : SubjectToken, ext : Manifests \cup {<<>>},
                since : Time, life : TokenLife \cup {0}]
    BY <2>2, ProxyBounds
  <2>4. ProxyTypeOK'
    BY <2>1, <2>2, <2>3 DEF ProxyServe, ProxyInv, ProxyTypeOK
  <2>5. ExchangesInTime'
    BY <2>1 DEF ProxyServe, ProxyInv, ProxyTypeOK, ExchangesInTime, IdleProxy
  <2>6. QED
    BY <2>1, <2>4, <2>5, ForwardsNothing DEF ProxyServe
<1>4. QED
  BY <1>1, <1>2, <1>3

LEMMA SessionsKeepInv ==
  ASSUME ProxyInv, NEW u \in User, putSession(u) \/ deleteSession(u) PROVE ProxyInv'
<1>1. /\ proxyAsked' \in 0 .. MaxProxyRequests
      /\ forwarded' = {} /\ UNCHANGED <<proxyExt, proxyRequest, exchanged, clock>>
  BY ProxyBounds DEF putSession, deleteSession, ProxyInv, ProxyTypeOK
<1>2. session' \subseteq UserSession
  <2>1. CASE deleteSession(u)
    BY <2>1 DEF deleteSession, DeleteSession, ProxyInv, ProxyTypeOK
  <2>2. CASE putSession(u)
    <3>1. PICK wish \in TokenLife \cup {0}, life \in TokenLife, says \in BOOLEAN :
             PutSession(u, sessionProviderFor(proxyExt.offered), sessionExpiry(wish, says, clock + life), says, clock + life)
      BY <2>2 DEF putSession
    <3>2. clock \in Nat /\ life \in Nat /\ wish \in Nat /\ SessionTTL \in Nat /\ SessionMaxTTL \in Nat
      BY ProxyBounds, ProxyNumbers DEF ProxyInv, ProxyTypeOK
    <3>3. sessionExpiry(wish, says, clock + life) \in Nat /\ clock + life \in Nat
      <4>1. capped(wish, SessionMaxTTL) \in Nat
        BY <3>2 DEF capped
      <4>2. wish > 0 => sessionExpiry(wish, says, clock + life) = clock + capped(wish, SessionMaxTTL)
        BY DEF sessionExpiry
      <4>3. wish = 0 /\ says => sessionExpiry(wish, says, clock + life) = clock + life
        BY <3>2 DEF sessionExpiry
      <4>4. wish = 0 /\ ~says => sessionExpiry(wish, says, clock + life) = clock + SessionTTL
        BY <3>2 DEF sessionExpiry
      <4>5. QED
        BY <3>2, <4>1, <4>2, <4>3, <4>4
    <3>4. sessionProviderFor(proxyExt.offered) \in Audience
      BY MethodPicked DEF ProxyInv, ProxyTypeOK
    <3>5. QED
      BY <3>1, <3>3, <3>4 DEF PutSession, ProxyInv, ProxyTypeOK, UserSession
  <2>3. QED
    BY <2>1, <2>2
<1>3. ProxyTypeOK' /\ ExchangesInTime'
  BY <1>1, <1>2 DEF ProxyInv, ProxyTypeOK, ExchangesInTime
<1>4. QED
  BY <1>1, <1>3, ForwardsNothing

LEMMA TimeKeepsInv == ASSUME ProxyInv, Tick \/ ProxyExtensionChanges PROVE ProxyInv'
<1>1. CASE Tick
  <2>1. clock' = clock + 1 /\ clock \in Nat /\ clock' \in Time
    BY <1>1, ProxyNumbers DEF Tick, ProxyInv, ProxyTypeOK, Time
  <2>2. ProxyTypeOK'
    BY <1>1, <2>1 DEF Tick, ProxyInv, ProxyTypeOK
  <2>3. ExchangesInTime'
    <3>1. \A q \in ProxyRequest : proxyRequest[q].since \in Nat
      BY ProxyBounds DEF ProxyInv, ProxyTypeOK
    <3>2. QED
      BY <1>1, <2>1, <3>1, ProxyNumbers DEF Tick, ProxyInv, ExchangesInTime
  <2>4. QED
    BY <1>1, <2>2, <2>3, ForwardsNothing DEF Tick
<1>2. CASE ProxyExtensionChanges
  <2>1. ProxyTypeOK' /\ ExchangesInTime'
    BY <1>2 DEF ProxyExtensionChanges, ProxyInv, ProxyTypeOK, ExchangesInTime
  <2>2. QED
    BY <1>2, <2>1, ForwardsNothing DEF ProxyExtensionChanges
<1>3. QED
  BY <1>1, <1>2

LEMMA ProxyInvStep == ASSUME ProxyInv, [ProxyNext]_proxyVars PROVE ProxyInv'
<1>1. CASE ProxyNext
  BY <1>1, TimeKeepsInv, SessionsKeepInv, ProxyRequestsKeepInv, ResolveKeepsInv, ExchangeReturnsKeepsInv DEF ProxyNext
<1>2. CASE UNCHANGED proxyVars
  BY <1>2 DEF proxyVars, ProxyInv, ProxyTypeOK, ExchangesInTime, KeptOK, CredentialOfUser, TokenAlive
<1>3. QED
  BY <1>1, <1>2

-----------------------------------------------------------------------------
(* Identity *)

IdCallRow ==
    [op : {"none", "CreateClient", "UpdateClient", "DisableClient", "CreateBroker", "UpdateBroker", "DeleteBroker"},
     pc : {"idle", "keycloak", "link", "domains", "tx", "undo", "undoDelete", "unlink", "delete"}, name : ClientName,
     enabled : BOOLEAN, broker : BrokeredIdP]
ClientOps == {"CreateClient", "UpdateClient", "DisableClient"}
BrokerOps == {"CreateBroker", "UpdateBroker", "DeleteBroker"}

\* The steps of each kind of call; a client that is updated or disabled keeps its row.
IdShapeOK(r, rows) ==
    /\ r.pc = "idle" \/ r.op = "none" => r = IdleIdCall
    /\ r.op = "CreateClient" => r.pc \in {"keycloak", "tx", "undo"}
    /\ r.op \in {"UpdateClient", "DisableClient"} => r.pc \in {"keycloak", "tx"} /\ rows[r.name] # "none"
    /\ r.op = "CreateBroker" => r.pc \in {"keycloak", "link", "domains", "tx", "undo", "undoDelete"}
    /\ r.op = "UpdateBroker" => r.pc \in {"keycloak", "domains", "tx"}
    /\ r.op = "DeleteBroker" => r.pc \in {"unlink", "delete", "tx"}
    /\ r.op \in BrokerOps => r.broker.alias \in Alias

Creating(r, n) == r.op = "CreateClient" /\ r.pc \in {"tx", "undo"} /\ r.name = n
\* Without a crash, an enabled client has a row or a call that creates it.
NoOrphan(rows, kc, calls) ==
    \A n \in ClientName : kc[n] = "enabled" => rows[n] # "none" \/ \E c \in IdentityCall : Creating(calls[c], n)

\* A call that runs alone: what its client is in the middle of.
ClientMid(r, rows, kc) ==
    /\ r.op = "CreateClient" => rows[r.name] = "none" /\ (r.pc = "tx" => kc[r.name] = "enabled")
    /\ r.op = "UpdateClient" => r.enabled = (rows[r.name] = "active")
    /\ r.op = "DisableClient" /\ r.pc = "tx" => kc[r.name] # "enabled"
InMiddle(r, n) == Creating(r, n) \/ (r.op = "DisableClient" /\ r.pc = "tx" /\ r.name = n)
RowsAgree(rows, kc, calls) ==
    \A n \in ClientName : (rows[n] = "active") = (kc[n] = "enabled") \/ \E c \in IdentityCall : InMiddle(calls[c], n)

OnlyIdP(a, idp) == \A x \in Alias : x # a => idp[x] = "none"
BrokersAgree(row, idp, link) ==
    /\ OnlyIdP(row.alias, idp)
    /\ row = NoBroker => link = {}
    /\ row # NoBroker => idp[row.alias] = row.issuer /\ link = {row.alias}
BrokerMid(r, row, idp, link) ==
    LET b == r.broker  pc == r.pc
    IN /\ r.op = "CreateBroker" =>
             /\ row = NoBroker /\ OnlyIdP(b.alias, idp)
             /\ pc = "keycloak" => BrokersAgree(row, idp, link)
             /\ pc \in {"link", "domains", "tx"} => idp[b.alias] = b.issuer
             /\ pc = "link" => link = {}
             /\ pc \in {"domains", "tx"} => link = {b.alias}
             /\ pc = "undo" => link \subseteq {b.alias}
             /\ pc = "undoDelete" => link = {}
       /\ r.op = "UpdateBroker" =>
             /\ row # NoBroker /\ row.alias = b.alias /\ OnlyIdP(b.alias, idp) /\ link = {b.alias}
             /\ idp[b.alias] = IF pc = "keycloak" THEN row.issuer ELSE b.issuer
       /\ r.op = "DeleteBroker" =>
             /\ row = b /\ OnlyIdP(b.alias, idp)
             /\ pc = "unlink" => BrokersAgree(row, idp, link)
             /\ pc \in {"delete", "tx"} => link = {}
             /\ pc = "tx" => idp[b.alias] = "none"

AloneAgree(calls, rows, kc, row, idp, link) ==
    /\ \A c, d \in IdentityCall : calls[c].pc # "idle" /\ calls[d].pc # "idle" => c = d
    /\ \A c \in IdentityCall : ClientMid(calls[c], rows, kc) /\ BrokerMid(calls[c], row, idp, link)
    /\ RowsAgree(rows, kc, calls)
    /\ (\A c \in IdentityCall : calls[c].op \notin BrokerOps) => BrokersAgree(row, idp, link)

IdentityInv ==
    /\ IdentityTypeOK
    /\ brokerRow = NoBroker \/ brokerRow.alias \in Alias
    /\ \A c \in IdentityCall : IdShapeOK(idCall[c], clientRow)
    /\ ~idCrashed => NoOrphan(clientRow, kcClient, idCall)
    /\ ~idCrashed /\ ~overlapped => AloneAgree(idCall, clientRow, kcClient, brokerRow, kcIdp, kcLink)

\* A call that runs while no other does: the objects are as its step leaves them.
LoneOK(r, rows, kc, row, idp, link) ==
    /\ ClientMid(r, rows, kc) /\ BrokerMid(r, row, idp, link)
    /\ \A n \in ClientName : (rows[n] = "active") = (kc[n] = "enabled") \/ InMiddle(r, n)
    /\ r.op \notin BrokerOps => BrokersAgree(row, idp, link)

LEMMA IdTypes ==
  ASSUME IdentityInv
  PROVE  /\ clientRow \in [ClientName -> IdentityClient] /\ kcClient \in [ClientName -> ClientSpec] /\ brokerRow \in BrokeredIdP
         /\ kcIdp \in [Alias -> Issuer \cup {"none"}] /\ kcLink \subseteq Alias /\ idCall \in [IdentityCall -> IdCallRow]
         /\ overlapped \in BOOLEAN /\ idCrashed \in BOOLEAN
         /\ \A c \in IdentityCall : idCall[c] \in IdCallRow /\ IdShapeOK(idCall[c], clientRow)
BY DEF IdentityInv, IdentityTypeOK, IdCallRow

LEMMA IdleIdFacts ==
  /\ AnIssuer \in Issuer /\ NoBroker \in BrokeredIdP /\ NoBroker.alias = NoAlias /\ NoBroker.issuer = AnIssuer
  /\ IdleIdCall \in IdCallRow /\ IdleIdCall.op = "none" /\ IdleIdCall.pc = "idle" /\ IdleIdCall.broker = NoBroker
  /\ IdleIdCall.name = KubectlClientID /\ IdleIdCall.enabled = FALSE
<1>1. AnIssuer \in Issuer
  BY IdentityAssumption DEF AnIssuer
<1>2. NoBroker \in BrokeredIdP /\ NoBroker.alias = NoAlias /\ NoBroker.issuer = AnIssuer
  BY <1>1 DEF NoBroker, BrokeredIdP
<1>3. QED
  BY <1>1, <1>2, IdentityAssumption DEF IdleIdCall, IdCallRow

LEMMA IdleIdShape == \A rows : IdShapeOK(IdleIdCall, rows)
BY IdleIdFacts DEF IdShapeOK, BrokerOps

\* Alone, the call and the objects fit; if no other call runs, they fit an idle call too.
LEMMA LoneOf ==
  ASSUME IdentityInv, NEW c \in IdentityCall, ~idCrashed, ~overlapped, \A d \in IdentityCall : d # c => idCall[d].pc = "idle"
  PROVE  LoneOK(idCall[c], clientRow, kcClient, brokerRow, kcIdp, kcLink)
<1>1. AloneAgree(idCall, clientRow, kcClient, brokerRow, kcIdp, kcLink)
  BY DEF IdentityInv
<1>2. \A d \in IdentityCall : d # c => idCall[d].op = "none" /\ ~\E n : InMiddle(idCall[d], n)
  BY IdTypes, IdleIdFacts DEF IdShapeOK, InMiddle, Creating
<1>3. \A n \in ClientName : (clientRow[n] = "active") = (kcClient[n] = "enabled") \/ InMiddle(idCall[c], n)
  BY <1>1, <1>2 DEF AloneAgree, RowsAgree
<1>4. idCall[c].op \notin BrokerOps => BrokersAgree(brokerRow, kcIdp, kcLink)
  BY <1>1, <1>2 DEF AloneAgree, BrokerOps
<1>5. QED
  BY <1>1, <1>3, <1>4 DEF AloneAgree, LoneOK

\* One call begins, goes on or ends.
LEMMA IdCallsChange ==
  ASSUME IdentityInv, NEW c \in IdentityCall, NEW r2 \in IdCallRow, idCall' = [idCall EXCEPT ![c] = r2],
         clientRow' \in [ClientName -> IdentityClient], kcClient' \in [ClientName -> ClientSpec], brokerRow' \in BrokeredIdP,
         kcIdp' \in [Alias -> Issuer \cup {"none"}], kcLink' \subseteq Alias, overlapped' \in BOOLEAN, idCrashed' \in BOOLEAN,
         idAsked' \in 0 .. MaxIdentityRequests, idFaults' \in 0 .. MaxIdentityFaults,
         idCrashed => idCrashed', overlapped => overlapped',
         \A n \in ClientName : clientRow[n] # "none" => clientRow'[n] # "none",
         brokerRow' = NoBroker \/ brokerRow'.alias \in Alias,
         IdShapeOK(r2, clientRow'),
         \A n \in ClientName : kcClient'[n] = "enabled" /\ ~idCrashed' =>
             clientRow'[n] # "none" \/ Creating(r2, n) \/ (kcClient[n] = "enabled" /\ ~Creating(idCall[c], n)),
         ~idCrashed' /\ ~overlapped' => \A d \in IdentityCall : d # c => idCall[d].pc = "idle",
         ~idCrashed' /\ ~overlapped' /\ LoneOK(idCall[c], clientRow, kcClient, brokerRow, kcIdp, kcLink)
             => LoneOK(r2, clientRow', kcClient', brokerRow', kcIdp', kcLink')
  PROVE  IdentityInv'
<1>1. idCall' \in [IdentityCall -> IdCallRow] /\ idCall'[c] = r2 /\ \A d \in IdentityCall : d # c => idCall'[d] = idCall[d]
  BY IdTypes
<1>2. IdentityTypeOK'
  BY <1>1 DEF IdentityTypeOK, IdCallRow
<1>3. \A d \in IdentityCall : IdShapeOK(idCall'[d], clientRow')
  BY <1>1, IdTypes DEF IdShapeOK, IdCallRow
<1>4. ASSUME ~idCrashed' PROVE NoOrphan(clientRow', kcClient', idCall')
  <2>1. NoOrphan(clientRow, kcClient, idCall)
    BY <1>4 DEF IdentityInv
  <2>2. ASSUME NEW n \in ClientName, kcClient'[n] = "enabled" PROVE clientRow'[n] # "none" \/ \E d \in IdentityCall : Creating(idCall'[d], n)
    <3>1. CASE Creating(r2, n)
      BY <1>1, <3>1
    <3>2. CASE kcClient[n] = "enabled" /\ ~Creating(idCall[c], n)
      <4>1. clientRow[n] # "none" \/ \E d \in IdentityCall : d # c /\ Creating(idCall[d], n)
        BY <2>1, <3>2 DEF NoOrphan
      <4>2. QED
        BY <1>1, <4>1
    <3>3. QED
      BY <1>4, <2>2, <3>1, <3>2
  <2>3. QED
    BY <2>2 DEF NoOrphan
<1>5. ASSUME ~idCrashed', ~overlapped' PROVE AloneAgree(idCall', clientRow', kcClient', brokerRow', kcIdp', kcLink')
  <2>1. \A d \in IdentityCall : d # c => idCall[d].pc = "idle"
    BY <1>5
  <2>2. LoneOK(r2, clientRow', kcClient', brokerRow', kcIdp', kcLink')
    BY <1>5, <2>1, LoneOf
  <2>3. \A d \in IdentityCall : d # c => idCall'[d].pc = "idle" /\ idCall'[d].op = "none"
    BY <1>1, <2>1, IdTypes, IdleIdFacts DEF IdShapeOK
  <2>4. \A d, e \in IdentityCall : idCall'[d].pc # "idle" /\ idCall'[e].pc # "idle" => d = e
    BY <2>3
  <2>5. \A d \in IdentityCall : ClientMid(idCall'[d], clientRow', kcClient') /\ BrokerMid(idCall'[d], brokerRow', kcIdp', kcLink')
    BY <1>1, <2>2, <2>3 DEF LoneOK, ClientMid, BrokerMid
  <2>6. RowsAgree(clientRow', kcClient', idCall')
    BY <1>1, <2>2 DEF LoneOK, RowsAgree
  <2>7. (\A d \in IdentityCall : idCall'[d].op \notin BrokerOps) => BrokersAgree(brokerRow', kcIdp', kcLink')
    BY <1>1, <2>2 DEF LoneOK
  <2>8. QED
    BY <2>4, <2>5, <2>6, <2>7 DEF AloneAgree
<1>6. QED
  BY <1>2, <1>3, <1>4, <1>5 DEF IdentityInv

\* The same for a step of a call that runs.
LEMMA IdStepKeeps ==
  ASSUME IdentityInv, NEW c \in IdentityCall, NEW r2 \in IdCallRow, idCall' = [idCall EXCEPT ![c] = r2], idCall[c].pc # "idle",
         clientRow' \in [ClientName -> IdentityClient], kcClient' \in [ClientName -> ClientSpec], brokerRow' \in BrokeredIdP,
         kcIdp' \in [Alias -> Issuer \cup {"none"}], kcLink' \subseteq Alias, UNCHANGED <<overlapped, idAsked>>, idCrashed' \in BOOLEAN,
         idFaults' \in 0 .. MaxIdentityFaults, idCrashed => idCrashed',
         \A n \in ClientName : clientRow[n] # "none" => clientRow'[n] # "none",
         brokerRow' = NoBroker \/ brokerRow'.alias \in Alias,
         IdShapeOK(r2, clientRow'),
         \A n \in ClientName : kcClient'[n] = "enabled" /\ ~idCrashed' =>
             clientRow'[n] # "none" \/ Creating(r2, n) \/ (kcClient[n] = "enabled" /\ ~Creating(idCall[c], n)),
         ~idCrashed' /\ LoneOK(idCall[c], clientRow, kcClient, brokerRow, kcIdp, kcLink)
             => LoneOK(r2, clientRow', kcClient', brokerRow', kcIdp', kcLink')
  PROVE  IdentityInv'
<1>1. ~idCrashed' /\ ~overlapped' => \A d \in IdentityCall : d # c => idCall[d].pc = "idle"
  <2>1. ~idCrashed /\ ~overlapped => \A d, e \in IdentityCall : idCall[d].pc # "idle" /\ idCall[e].pc # "idle" => d = e
    BY DEF IdentityInv, AloneAgree
  <2>2. QED
    BY <2>1
<1>2. overlapped' \in BOOLEAN /\ (overlapped => overlapped') /\ idAsked' \in 0 .. MaxIdentityRequests
  BY DEF IdentityInv, IdentityTypeOK
<1>3. QED
  BY <1>1, <1>2, IdCallsChange

LEMMA IdentityInvInit == ASSUME IdentityInit PROVE IdentityInv
<1>1. IdentityTypeOK
  <2>1. idCall \in [IdentityCall -> IdCallRow]
    BY IdleIdFacts DEF IdentityInit
  <2>2. clientRow \in [ClientName -> IdentityClient] /\ kcClient \in [ClientName -> ClientSpec]
    BY DEF IdentityInit, IdentityClient, ClientSpec
  <2>3. brokerRow \in BrokeredIdP /\ kcIdp \in [Alias -> Issuer \cup {"none"}] /\ kcLink \subseteq Alias
    BY IdleIdFacts DEF IdentityInit
  <2>4. idAsked \in 0 .. MaxIdentityRequests /\ idFaults \in 0 .. MaxIdentityFaults
    BY IdentityAssumption DEF IdentityInit
  <2>5. overlapped \in BOOLEAN /\ idCrashed \in BOOLEAN
    BY DEF IdentityInit
  <2>6. QED
    BY <2>1, <2>2, <2>3, <2>4, <2>5 DEF IdentityTypeOK, IdCallRow
<1>2. \A c \in IdentityCall : idCall[c] = IdleIdCall /\ IdShapeOK(idCall[c], clientRow)
  BY IdleIdShape DEF IdentityInit
<1>3. NoOrphan(clientRow, kcClient, idCall)
  BY DEF IdentityInit, NoOrphan
<1>4. AloneAgree(idCall, clientRow, kcClient, brokerRow, kcIdp, kcLink)
  <2>1. RowsAgree(clientRow, kcClient, idCall)
    BY DEF RowsAgree, IdentityInit
  <2>2. BrokersAgree(brokerRow, kcIdp, kcLink)
    BY DEF BrokersAgree, OnlyIdP, IdentityInit
  <2>3. QED
    BY <1>2, <2>1, <2>2, IdleIdFacts DEF AloneAgree, ClientMid, BrokerMid
<1>5. QED
  BY <1>1, <1>2, <1>3, <1>4 DEF IdentityInv, IdentityInit

-----------------------------------------------------------------------------
(* Identity: steps *)

LEMMA IdTo ==
  ASSUME IdentityInv, NEW c \in IdentityCall,
         NEW pc \in {"idle", "keycloak", "link", "domains", "tx", "undo", "undoDelete", "unlink", "delete"}, IdGoto(c, pc)
  PROVE  \E r2 \in IdCallRow : /\ idCall' = [idCall EXCEPT ![c] = r2] /\ r2 = [idCall[c] EXCEPT !.pc = pc]
                               /\ r2.pc = pc /\ r2.op = idCall[c].op /\ r2.name = idCall[c].name
                               /\ r2.enabled = idCall[c].enabled /\ r2.broker = idCall[c].broker
<1>1. [idCall[c] EXCEPT !.pc = pc] \in IdCallRow
  BY IdTypes DEF IdCallRow
<1>2. idCall' = [idCall EXCEPT ![c] = [idCall[c] EXCEPT !.pc = pc]]
  BY IdTypes DEF IdGoto
<1>3. QED
  BY <1>1, <1>2, IdTypes DEF IdCallRow

\* A step of a client leaves the provider; a call of a client that ends leaves the rows in agreement.
LEMMA ClientKeepsBrokers ==
  ASSUME NEW r \in IdCallRow, NEW r2 \in IdCallRow, NEW rows, NEW kc, NEW rows2, NEW kc2, NEW row, NEW idp, NEW link,
         r.op \in ClientOps, r2.op = r.op \/ r2 = IdleIdCall, LoneOK(r, rows, kc, row, idp, link), ClientMid(r2, rows2, kc2),
         \A n \in ClientName : (rows2[n] = "active") = (kc2[n] = "enabled") \/ InMiddle(r2, n)
  PROVE  LoneOK(r2, rows2, kc2, row, idp, link)
<1>1. r2.op \notin BrokerOps /\ r.op \notin BrokerOps
  BY IdleIdFacts DEF ClientOps, BrokerOps
<1>2. BrokerMid(r2, row, idp, link)
  BY <1>1 DEF BrokerMid, BrokerOps
<1>3. QED
  BY <1>1, <1>2 DEF LoneOK

LEMMA ClientKeycloakStepKeepsInv == ASSUME IdentityInv, NEW c \in IdentityCall, ClientKeycloakStep(c) PROVE IdentityInv'
<1> DEFINE n == idCall[c].name
           r == idCall[c]
<1>1. /\ idCall[c].pc = "keycloak" /\ IdGoto(c, "tx")
      /\ UNCHANGED <<clientRow, brokerRow, kcIdp, kcLink, overlapped, idCrashed, idAsked, idFaults>>
      /\ \/ idCall[c].op = "CreateClient" /\ CreateClient(n)
         \/ idCall[c].op = "UpdateClient" /\ UpdateClient(n, idCall[c].enabled)
         \/ idCall[c].op = "DisableClient" /\ DisableClient(n)
  BY DEF ClientKeycloakStep, brokersSame, idGhostSame
<1>2. PICK r2 \in IdCallRow : /\ idCall' = [idCall EXCEPT ![c] = r2] /\ r2.pc = "tx" /\ r2.op = idCall[c].op /\ r2.name = n
                              /\ r2.enabled = idCall[c].enabled /\ r2.broker = idCall[c].broker
  BY <1>1, IdTo
<1>3. n \in ClientName /\ r \in IdCallRow /\ IdShapeOK(r, clientRow) /\ r.enabled \in BOOLEAN
  BY IdTypes DEF IdCallRow
<1>4. /\ kcClient' \in [ClientName -> ClientSpec] /\ \A m \in ClientName : m # n => kcClient'[m] = kcClient[m]
      /\ r.op = "CreateClient" => kcClient'[n] = "enabled"
      /\ r.op = "UpdateClient" => kcClient'[n] = IF r.enabled THEN "enabled" ELSE "disabled"
      /\ r.op = "DisableClient" => kcClient'[n] # "enabled"
  BY <1>1, <1>3, IdTypes DEF CreateClient, UpdateClient, setClientEnabled, DisableClient, ClientSpec
<1>5. IdShapeOK(r2, clientRow')
  BY <1>1, <1>2, <1>3 DEF IdShapeOK, BrokerOps
<1>6. \A m \in ClientName : kcClient'[m] = "enabled" =>
             clientRow'[m] # "none" \/ Creating(r2, m) \/ (kcClient[m] = "enabled" /\ ~Creating(r, m))
  BY <1>1, <1>2, <1>3, <1>4 DEF Creating, IdShapeOK
<1>7. ASSUME LoneOK(r, clientRow, kcClient, brokerRow, kcIdp, kcLink)
      PROVE  LoneOK(r2, clientRow', kcClient', brokerRow', kcIdp', kcLink')
  <2>1. ClientMid(r2, clientRow', kcClient')
    BY <1>1, <1>2, <1>3, <1>4, <1>7 DEF LoneOK, ClientMid
  <2>2. \A m \in ClientName : (clientRow'[m] = "active") = (kcClient'[m] = "enabled") \/ InMiddle(r2, m)
    <3>1. \A m \in ClientName : (clientRow[m] = "active") = (kcClient[m] = "enabled")
      BY <1>1, <1>7 DEF LoneOK, InMiddle, Creating
    <3>2. r.op = "UpdateClient" => r.enabled = (clientRow[n] = "active")
      BY <1>7 DEF LoneOK, ClientMid
    <3>3. QED
      BY <1>1, <1>2, <1>3, <1>4, <3>1, <3>2 DEF InMiddle, Creating
  <2>3. QED
    BY <1>1, <1>2, <1>3, <1>7, <2>1, <2>2, ClientKeepsBrokers DEF ClientOps
<1>8. brokerRow = NoBroker \/ brokerRow.alias \in Alias
  BY DEF IdentityInv
<1>9. idFaults \in 0 .. MaxIdentityFaults
  BY DEF IdentityInv, IdentityTypeOK
<1>10. QED
  BY <1>1, <1>2, <1>3, <1>4, <1>5, <1>6, <1>7, <1>8, <1>9, IdTypes, IdStepKeeps

LEMMA ClientTxKeepsInv == ASSUME IdentityInv, NEW c \in IdentityCall, ClientTx(c) PROVE IdentityInv'
<1> DEFINE n == idCall[c].name
           r == idCall[c]
<1>1. /\ r.op \in ClientOps /\ r.pc = "tx"
      /\ UNCHANGED <<kcClient, brokerRow, kcIdp, kcLink, overlapped, idCrashed, idAsked, idFaults>>
      /\ \/ r.op = "CreateClient" /\ insertClient(n) /\ IdReturn(c)
         \/ r.op = "CreateClient" /\ clientRow[n] # "none" /\ IdGoto(c, "undo") /\ UNCHANGED clientRow
         \/ r.op = "UpdateClient" /\ IdReturn(c) /\ UNCHANGED clientRow
         \/ r.op = "DisableClient" /\ SetIdentityClientStatus(n) /\ IdReturn(c)
  BY DEF ClientTx, brokersSame, idGhostSame, ClientOps
<1>2. n \in ClientName /\ r \in IdCallRow /\ IdShapeOK(r, clientRow)
  BY IdTypes DEF IdCallRow
<1>3. brokerRow = NoBroker \/ brokerRow.alias \in Alias
  BY DEF IdentityInv
<1>4. idFaults \in 0 .. MaxIdentityFaults
  BY DEF IdentityInv, IdentityTypeOK
<1>5. CASE r.op = "CreateClient" /\ clientRow[n] # "none" /\ IdGoto(c, "undo") /\ UNCHANGED clientRow
  <2>1. PICK r2 \in IdCallRow : /\ idCall' = [idCall EXCEPT ![c] = r2] /\ r2.pc = "undo" /\ r2.op = r.op /\ r2.name = n
    BY <1>5, IdTo
  <2>2. IdShapeOK(r2, clientRow')
    BY <1>1, <1>2, <1>5, <2>1 DEF IdShapeOK, BrokerOps
  <2>3. ~LoneOK(r, clientRow, kcClient, brokerRow, kcIdp, kcLink)
    BY <1>5 DEF LoneOK, ClientMid
  <2>4. \A m \in ClientName : Creating(r, m) => Creating(r2, m)
    BY <2>1 DEF Creating
  <2>5. QED
    BY <1>1, <1>2, <1>3, <1>4, <1>5, <2>1, <2>2, <2>3, <2>4, IdTypes, IdStepKeeps
<1>6. CASE IdReturn(c)
  <2>1. /\ idCall' = [idCall EXCEPT ![c] = IdleIdCall] /\ IdleIdCall \in IdCallRow /\ IdShapeOK(IdleIdCall, clientRow')
    BY <1>6, IdleIdFacts, IdleIdShape DEF IdReturn
  <2>2. /\ clientRow' \in [ClientName -> IdentityClient] /\ \A m \in ClientName : m # n => clientRow'[m] = clientRow[m]
        /\ r.op = "CreateClient" => clientRow'[n] = "active"
        /\ r.op = "UpdateClient" => clientRow'[n] = clientRow[n]
        /\ r.op = "DisableClient" => clientRow'[n] = "disabled"
    <3>1. r.op = "CreateClient" => insertClient(n)
      BY <1>1, <1>2, <1>6, IdleIdFacts, IdTypes DEF IdReturn, IdGoto, IdCallRow
    <3>2. r.op = "CreateClient" => clientRow' = [clientRow EXCEPT ![n] = "active"]
      BY <3>1 DEF insertClient
    <3>3. r.op = "UpdateClient" => clientRow' = clientRow
      BY <1>1
    <3>4. r.op = "DisableClient" => clientRow' = [clientRow EXCEPT ![n] = "disabled"]
      BY <1>1 DEF SetIdentityClientStatus
    <3>5. QED
      BY <1>1, <1>2, <3>2, <3>3, <3>4, IdTypes DEF ClientOps, IdentityClient
  <2>3. \A m \in ClientName : clientRow[m] # "none" => clientRow'[m] # "none"
    BY <1>1, <1>2, <2>2 DEF ClientOps
  <2>4. \A m \in ClientName : kcClient'[m] = "enabled" =>
             clientRow'[m] # "none" \/ Creating(IdleIdCall, m) \/ (kcClient[m] = "enabled" /\ ~Creating(r, m))
    BY <1>1, <1>2, <2>2 DEF Creating
  <2>5. ASSUME LoneOK(r, clientRow, kcClient, brokerRow, kcIdp, kcLink)
        PROVE  LoneOK(IdleIdCall, clientRow', kcClient', brokerRow', kcIdp', kcLink')
    <3>1. ClientMid(IdleIdCall, clientRow', kcClient')
      BY IdleIdFacts DEF ClientMid
    <3>2. \A m \in ClientName : m # n => (clientRow[m] = "active") = (kcClient[m] = "enabled")
      BY <2>5 DEF LoneOK, InMiddle, Creating
    <3>3. /\ r.op = "CreateClient" => kcClient[n] = "enabled"
          /\ r.op = "UpdateClient" => (clientRow[n] = "active") = (kcClient[n] = "enabled")
          /\ r.op = "DisableClient" => kcClient[n] # "enabled"
      BY <1>1, <1>2, <2>5 DEF LoneOK, ClientMid, InMiddle, Creating
    <3>4. \A m \in ClientName : (clientRow'[m] = "active") = (kcClient'[m] = "enabled")
      BY <1>1, <1>2, <2>2, <3>2, <3>3 DEF ClientOps
    <3>5. QED
      BY <1>1, <1>2, <2>1, <2>5, <3>1, <3>4, ClientKeepsBrokers
  <2>6. QED
    BY <1>1, <1>2, <1>3, <1>4, <2>1, <2>2, <2>3, <2>4, <2>5, IdTypes, IdStepKeeps
<1>7. QED
  BY <1>1, <1>5, <1>6

LEMMA ClientUndoKeepsInv == ASSUME IdentityInv, NEW c \in IdentityCall, ClientUndo(c) PROVE IdentityInv'
<1> DEFINE n == idCall[c].name
           r == idCall[c]
<1>1. /\ r.op = "CreateClient" /\ r.pc = "undo" /\ DisableClient(n) /\ IdReturn(c)
      /\ UNCHANGED <<clientRow, brokerRow, kcIdp, kcLink, overlapped, idCrashed, idAsked, idFaults>>
  BY DEF ClientUndo, brokersSame, idGhostSame
<1>2. n \in ClientName /\ r \in IdCallRow /\ IdShapeOK(r, clientRow)
  BY IdTypes DEF IdCallRow
<1>3. /\ idCall' = [idCall EXCEPT ![c] = IdleIdCall] /\ IdleIdCall \in IdCallRow /\ IdShapeOK(IdleIdCall, clientRow')
  BY <1>1, IdleIdFacts, IdleIdShape DEF IdReturn
<1>4. /\ kcClient' \in [ClientName -> ClientSpec] /\ kcClient'[n] # "enabled"
      /\ \A m \in ClientName : m # n => kcClient'[m] = kcClient[m]
  BY <1>1, <1>2, IdTypes DEF DisableClient, ClientSpec
<1>5. \A m \in ClientName : kcClient'[m] = "enabled" =>
           clientRow'[m] # "none" \/ Creating(IdleIdCall, m) \/ (kcClient[m] = "enabled" /\ ~Creating(r, m))
  BY <1>1, <1>2, <1>4 DEF Creating
<1>6. ASSUME LoneOK(r, clientRow, kcClient, brokerRow, kcIdp, kcLink)
      PROVE  LoneOK(IdleIdCall, clientRow', kcClient', brokerRow', kcIdp', kcLink')
  <2>1. ClientMid(IdleIdCall, clientRow', kcClient')
    BY IdleIdFacts DEF ClientMid
  <2>2. clientRow[n] = "none" /\ \A m \in ClientName : m # n => (clientRow[m] = "active") = (kcClient[m] = "enabled")
    BY <1>1, <1>6 DEF LoneOK, ClientMid, InMiddle, Creating
  <2>3. \A m \in ClientName : (clientRow'[m] = "active") = (kcClient'[m] = "enabled")
    BY <1>1, <1>2, <1>4, <2>2
  <2>4. QED
    BY <1>1, <1>2, <1>3, <1>6, <2>1, <2>3, ClientKeepsBrokers DEF ClientOps
<1>7. brokerRow = NoBroker \/ brokerRow.alias \in Alias
  BY DEF IdentityInv
<1>8. idFaults \in 0 .. MaxIdentityFaults
  BY DEF IdentityInv, IdentityTypeOK
<1>9. QED
  BY <1>1, <1>2, <1>3, <1>4, <1>5, <1>6, <1>7, <1>8, IdTypes, IdStepKeeps

-----------------------------------------------------------------------------
(* Identity: the provider *)

\* A step of the provider leaves the clients.
LEMMA IdBrokerKeeps ==
  ASSUME IdentityInv, NEW c \in IdentityCall, NEW r2 \in IdCallRow, idCall' = [idCall EXCEPT ![c] = r2], idCall[c].op \in BrokerOps,
         r2.op = idCall[c].op \/ r2 = IdleIdCall,
         UNCHANGED <<clientRow, kcClient, overlapped, idAsked>>, idCrashed' \in BOOLEAN, idCrashed => idCrashed', idFaults' \in 0 .. MaxIdentityFaults,
         brokerRow' \in BrokeredIdP, kcIdp' \in [Alias -> Issuer \cup {"none"}], kcLink' \subseteq Alias,
         brokerRow' = NoBroker \/ brokerRow'.alias \in Alias,
         IdShapeOK(r2, clientRow),
         ~idCrashed' /\ BrokerMid(idCall[c], brokerRow, kcIdp, kcLink) =>
             BrokerMid(r2, brokerRow', kcIdp', kcLink') /\ (r2.op \notin BrokerOps => BrokersAgree(brokerRow', kcIdp', kcLink'))
  PROVE  IdentityInv'
<1>1. idCall[c].pc # "idle" /\ idCall[c] \in IdCallRow /\ r2.op \notin ClientOps /\ idCall[c].op \notin ClientOps
  BY IdTypes, IdleIdFacts DEF IdShapeOK, BrokerOps, ClientOps
<1>2. \A m : ~Creating(idCall[c], m) /\ ~InMiddle(idCall[c], m) /\ ~Creating(r2, m) /\ ~InMiddle(r2, m)
  BY <1>1 DEF Creating, InMiddle, ClientOps
<1>3. \A rows, kc : ClientMid(r2, rows, kc)
  BY <1>1 DEF ClientMid, ClientOps
<1>4. ASSUME ~idCrashed', LoneOK(idCall[c], clientRow, kcClient, brokerRow, kcIdp, kcLink)
      PROVE  LoneOK(r2, clientRow', kcClient', brokerRow', kcIdp', kcLink')
  BY <1>2, <1>3, <1>4 DEF LoneOK
<1>5. QED
  BY <1>1, <1>2, <1>4, IdTypes, IdStepKeeps

\* What a call of the provider has.
LEMMA BrokerCallFacts ==
  ASSUME IdentityInv, NEW c \in IdentityCall, idCall[c].op \in BrokerOps
  PROVE  /\ idCall[c].broker \in BrokeredIdP /\ idCall[c].broker.alias \in Alias /\ idCall[c].broker.issuer \in Issuer
         /\ idCall[c].broker.alias # NoAlias /\ idCall[c].broker # NoBroker
         /\ IdShapeOK(idCall[c], clientRow)
         /\ brokerRow = NoBroker \/ brokerRow.alias \in Alias
         /\ idFaults \in 0 .. MaxIdentityFaults
<1>1. idCall[c].broker \in BrokeredIdP /\ IdShapeOK(idCall[c], clientRow)
  BY IdTypes DEF IdCallRow
<1>2. idCall[c].broker.alias \in Alias /\ idCall[c].broker.issuer \in Issuer
  BY <1>1 DEF IdShapeOK, BrokeredIdP
<1>3. QED
  BY <1>1, <1>2, IdentityAssumption, IdleIdFacts DEF IdentityInv, IdentityTypeOK

LEMMA IdReturnFacts ==
  ASSUME IdentityInv, NEW c \in IdentityCall, IdReturn(c)
  PROVE  /\ idCall' = [idCall EXCEPT ![c] = IdleIdCall] /\ IdleIdCall \in IdCallRow /\ IdShapeOK(IdleIdCall, clientRow)
         /\ \A row, idp, link : BrokerMid(IdleIdCall, row, idp, link)
BY IdleIdFacts, IdleIdShape DEF IdReturn, BrokerMid

LEMMA BrokerTxKeepsInv == ASSUME IdentityInv, NEW c \in IdentityCall, BrokerTx(c) PROVE IdentityInv'
<1> DEFINE r == idCall[c]
           b == idCall[c].broker
<1>1. /\ r.op \in BrokerOps /\ r.pc = "tx"
      /\ UNCHANGED <<clientRow, kcClient, kcIdp, kcLink, overlapped, idCrashed, idAsked, idFaults>>
      /\ \/ r.op = "CreateBroker" /\ brokerRow = NoBroker /\ brokerRow' = b /\ IdReturn(c)
         \/ r.op = "CreateBroker" /\ brokerRow # NoBroker /\ IdGoto(c, "undo") /\ UNCHANGED brokerRow
         \/ r.op = "UpdateBroker" /\ IdReturn(c) /\ brokerRow' = IF brokerRow.alias = b.alias THEN b ELSE brokerRow
         \/ r.op = "DeleteBroker" /\ IdReturn(c) /\ brokerRow' = IF brokerRow.alias = b.alias THEN NoBroker ELSE brokerRow
  BY DEF BrokerTx, clientsSame, idGhostSame, BrokerOps
<1>2. /\ b \in BrokeredIdP /\ b.alias \in Alias /\ b # NoBroker /\ IdShapeOK(r, clientRow)
      /\ brokerRow = NoBroker \/ brokerRow.alias \in Alias
      /\ idFaults \in 0 .. MaxIdentityFaults
  BY <1>1, BrokerCallFacts
<1>3. CASE r.op = "CreateBroker" /\ brokerRow # NoBroker /\ IdGoto(c, "undo") /\ UNCHANGED brokerRow
  <2>1. PICK r2 \in IdCallRow : idCall' = [idCall EXCEPT ![c] = r2] /\ r2.pc = "undo" /\ r2.op = r.op /\ r2.broker = b
    BY <1>3, IdTo
  <2>2. IdShapeOK(r2, clientRow)
    BY <1>2, <1>3, <2>1 DEF IdShapeOK
  <2>3. ~BrokerMid(r, brokerRow, kcIdp, kcLink)
    BY <1>3 DEF BrokerMid
  <2>4. QED
    BY <1>1, <1>2, <1>3, <2>1, <2>2, <2>3, IdTypes, IdBrokerKeeps
<1>4. ASSUME IdReturn(c), brokerRow' \in BrokeredIdP, brokerRow' = NoBroker \/ brokerRow'.alias \in Alias,
             BrokerMid(r, brokerRow, kcIdp, kcLink) => BrokersAgree(brokerRow', kcIdp, kcLink)
      PROVE  IdentityInv'
  BY <1>1, <1>2, <1>4, IdTypes, IdReturnFacts, IdBrokerKeeps
<1>5. CASE r.op = "CreateBroker" /\ brokerRow = NoBroker /\ brokerRow' = b /\ IdReturn(c)
  <2>1. BrokerMid(r, brokerRow, kcIdp, kcLink) => BrokersAgree(b, kcIdp, kcLink)
    BY <1>1, <1>2, <1>5 DEF BrokerMid, BrokersAgree
  <2>2. QED
    BY <1>2, <1>4, <1>5, <2>1
<1>6. CASE r.op = "UpdateBroker" /\ IdReturn(c) /\ brokerRow' = IF brokerRow.alias = b.alias THEN b ELSE brokerRow
  <2>1. BrokerMid(r, brokerRow, kcIdp, kcLink) => BrokersAgree(brokerRow', kcIdp, kcLink)
    BY <1>1, <1>2, <1>6 DEF BrokerMid, BrokersAgree
  <2>2. QED
    BY <1>2, <1>4, <1>6, <2>1, IdTypes
<1>7. CASE r.op = "DeleteBroker" /\ IdReturn(c) /\ brokerRow' = IF brokerRow.alias = b.alias THEN NoBroker ELSE brokerRow
  <2>1. ASSUME BrokerMid(r, brokerRow, kcIdp, kcLink) PROVE BrokersAgree(brokerRow', kcIdp, kcLink)
    <3>1. brokerRow' = NoBroker /\ OnlyIdP(b.alias, kcIdp) /\ kcLink = {} /\ kcIdp[b.alias] = "none"
      BY <1>1, <1>7, <2>1 DEF BrokerMid
    <3>2. QED
      BY <3>1 DEF BrokersAgree, OnlyIdP
  <2>2. QED
    BY <1>2, <1>4, <1>7, <2>1, IdTypes, IdleIdFacts
<1>8. QED
  BY <1>1, <1>3, <1>5, <1>6, <1>7

LEMMA SetOrgDomainsKeepsInv == ASSUME IdentityInv, NEW c \in IdentityCall, SetOrgDomains(c) PROVE IdentityInv'
<1> DEFINE r == idCall[c]
           b == idCall[c].broker
<1>1. /\ r.pc = "domains"
      /\ UNCHANGED <<clientRow, kcClient, brokerRow, kcIdp, kcLink, overlapped, idAsked, idFaults>>
      /\ \/ IdGoto(c, "tx") /\ UNCHANGED idCrashed
         \/ r.op = "CreateBroker" /\ IdGoto(c, "undo") /\ UNCHANGED idCrashed
         \/ r.op = "UpdateBroker" /\ IdReturn(c) /\ idCrashed' = TRUE
  BY DEF SetOrgDomains, clientsSame, brokersSame
<1>2. r.op \in {"CreateBroker", "UpdateBroker"} /\ r.op \in BrokerOps
  BY <1>1, IdTypes, IdleIdFacts DEF IdShapeOK, IdCallRow, BrokerOps
<1>3. /\ b \in BrokeredIdP /\ b.alias \in Alias /\ b # NoBroker /\ IdShapeOK(r, clientRow)
      /\ brokerRow = NoBroker \/ brokerRow.alias \in Alias
      /\ idFaults \in 0 .. MaxIdentityFaults
  BY <1>2, BrokerCallFacts
<1>4. ASSUME NEW pc \in {"tx", "undo"}, IdGoto(c, pc), UNCHANGED idCrashed, pc = "undo" => r.op = "CreateBroker" PROVE IdentityInv'
  <2>1. PICK r2 \in IdCallRow : idCall' = [idCall EXCEPT ![c] = r2] /\ r2.pc = pc /\ r2.op = r.op /\ r2.broker = b
    BY <1>4, IdTo
  <2>2. IdShapeOK(r2, clientRow)
    BY <1>2, <1>3, <1>4, <2>1 DEF IdShapeOK, BrokerOps
  <2>3. BrokerMid(r, brokerRow, kcIdp, kcLink) => BrokerMid(r2, brokerRow, kcIdp, kcLink)
    BY <1>1, <1>2, <1>4, <2>1 DEF BrokerMid
  <2>4. QED
    BY <1>1, <1>2, <1>3, <1>4, <2>1, <2>2, <2>3, IdTypes, IdBrokerKeeps
<1>5. CASE r.op = "UpdateBroker" /\ IdReturn(c) /\ idCrashed' = TRUE
  BY <1>1, <1>2, <1>3, <1>5, IdTypes, IdReturnFacts, IdBrokerKeeps
<1>6. QED
  BY <1>1, <1>4, <1>5

LEMMA rollbackIdPKeepsInv == ASSUME IdentityInv, NEW c \in IdentityCall, rollbackIdP(c) PROVE IdentityInv'
<1> DEFINE r == idCall[c]
           b == idCall[c].broker
<1>1. /\ r.op = "CreateBroker" /\ r.op \in BrokerOps /\ r.pc \in {"undo", "undoDelete"} /\ kcLink' = kcLink \ {b.alias}
      /\ UNCHANGED <<clientRow, kcClient, brokerRow, overlapped, idCrashed, idAsked, idFaults>>
  BY DEF rollbackIdP, UnlinkIdPFromOrg, DeleteIdP, clientsSame, idGhostSame, BrokerOps
<1>2. /\ b \in BrokeredIdP /\ b.alias \in Alias /\ b # NoBroker /\ IdShapeOK(r, clientRow)
      /\ brokerRow = NoBroker \/ brokerRow.alias \in Alias
      /\ idFaults \in 0 .. MaxIdentityFaults
  BY <1>1, BrokerCallFacts
<1>3. CASE r.pc = "undo"
  <2>1. IdGoto(c, "undoDelete") /\ kcIdp' = kcIdp /\ kcLink' \subseteq Alias
    BY <1>1, <1>3, IdTypes DEF rollbackIdP
  <2>2. PICK r2 \in IdCallRow : idCall' = [idCall EXCEPT ![c] = r2] /\ r2.pc = "undoDelete" /\ r2.op = r.op /\ r2.broker = b
    BY <2>1, IdTo
  <2>3. IdShapeOK(r2, clientRow)
    BY <1>1, <1>2, <2>2 DEF IdShapeOK
  <2>4. BrokerMid(r, brokerRow, kcIdp, kcLink) => BrokerMid(r2, brokerRow', kcIdp', kcLink')
    BY <1>1, <1>3, <2>1, <2>2 DEF BrokerMid
  <2>5. QED
    BY <1>1, <1>2, <2>1, <2>2, <2>3, <2>4, IdTypes, IdBrokerKeeps
<1>4. CASE r.pc = "undoDelete"
  <2>1. IdReturn(c) /\ kcIdp' = [kcIdp EXCEPT ![b.alias] = "none"]
    BY <1>1, <1>4 DEF rollbackIdP, DeleteIdP
  <2>2. kcIdp' \in [Alias -> Issuer \cup {"none"}] /\ kcLink' \subseteq Alias /\ kcIdp'[b.alias] = "none"
        /\ \A x \in Alias : x # b.alias => kcIdp'[x] = kcIdp[x]
    BY <1>1, <1>2, <2>1, IdTypes
  <2>3. BrokerMid(r, brokerRow, kcIdp, kcLink) => BrokersAgree(brokerRow', kcIdp', kcLink')
    BY <1>1, <1>2, <1>4, <2>2 DEF BrokerMid, BrokersAgree, OnlyIdP
  <2>4. QED
    BY <1>1, <1>2, <2>1, <2>2, <2>3, IdTypes, IdReturnFacts, IdBrokerKeeps
<1>5. QED
  BY <1>1, <1>3, <1>4

LEMMA BrokerKeycloakStepKeepsInv == ASSUME IdentityInv, NEW c \in IdentityCall, BrokerKeycloakStep(c) PROVE IdentityInv'
<1> DEFINE r == idCall[c]
           b == idCall[c].broker
           op == idCall[c].op
           pc == idCall[c].pc
<1>1. /\ UNCHANGED <<clientRow, kcClient, brokerRow, overlapped, idCrashed, idAsked, idFaults>>
      /\ \/ op = "CreateBroker" /\ pc = "keycloak" /\ CreateIdP(b) /\ IdGoto(c, "link") /\ UNCHANGED kcLink
         \/ op = "CreateBroker" /\ pc = "link" /\ LinkIdPToOrg(b) /\ IdGoto(c, "domains") /\ UNCHANGED kcIdp
         \/ op = "CreateBroker" /\ pc = "link" /\ kcIdp[b.alias] = "none" /\ IdGoto(c, "undo") /\ UNCHANGED <<kcIdp, kcLink>>
         \/ op = "UpdateBroker" /\ pc = "keycloak" /\ UpdateIdP(b) /\ IdGoto(c, "domains") /\ UNCHANGED kcLink
         \/ op = "UpdateBroker" /\ pc = "keycloak" /\ kcIdp[b.alias] = "none" /\ IdReturn(c) /\ UNCHANGED <<kcIdp, kcLink>>
         \/ op = "DeleteBroker" /\ pc = "unlink" /\ UnlinkIdPFromOrg(b) /\ IdGoto(c, "delete") /\ UNCHANGED kcIdp
         \/ op = "DeleteBroker" /\ pc = "delete" /\ DeleteIdP(b) /\ IdGoto(c, "tx")
  BY DEF BrokerKeycloakStep, clientsSame, idGhostSame
<1>2. op \in BrokerOps
  BY <1>1 DEF BrokerOps
<1>3. /\ b \in BrokeredIdP /\ b.alias \in Alias /\ b.issuer \in Issuer /\ b # NoBroker /\ b.alias # NoAlias /\ IdShapeOK(r, clientRow)
      /\ brokerRow = NoBroker \/ brokerRow.alias \in Alias
      /\ idFaults \in 0 .. MaxIdentityFaults
  BY <1>2, BrokerCallFacts
<1>4. brokerRow \in BrokeredIdP /\ idCrashed \in BOOLEAN /\ "none" \notin Issuer
  BY IdTypes, IdentityAssumption
<1>5. ASSUME NEW to \in {"link", "domains", "undo", "delete", "tx"}, IdGoto(c, to),
             kcIdp' \in [Alias -> Issuer \cup {"none"}], kcLink' \subseteq Alias,
             op = "CreateBroker" => to \in {"link", "domains", "undo"},
             op = "UpdateBroker" => to = "domains", op = "DeleteBroker" => to \in {"delete", "tx"},
             \A r2 \in IdCallRow : BrokerMid(r, brokerRow, kcIdp, kcLink) /\ r2.pc = to /\ r2.op = op /\ r2.broker = b
                 => BrokerMid(r2, brokerRow, kcIdp', kcLink')
      PROVE  IdentityInv'
  <2>1. PICK r2 \in IdCallRow : idCall' = [idCall EXCEPT ![c] = r2] /\ r2.pc = to /\ r2.op = op /\ r2.broker = b
    BY <1>5, IdTo
  <2>2. IdShapeOK(r2, clientRow)
    BY <1>2, <1>3, <1>5, <2>1 DEF IdShapeOK, BrokerOps
  <2>3. BrokerMid(r, brokerRow, kcIdp, kcLink) => BrokerMid(r2, brokerRow, kcIdp', kcLink')
    BY <1>5, <2>1
  <2>4. QED
    BY <1>1, <1>2, <1>3, <1>4, <1>5, <2>1, <2>2, <2>3, IdBrokerKeeps
<1>6. CASE op = "CreateBroker" /\ pc = "keycloak" /\ CreateIdP(b) /\ IdGoto(c, "link") /\ UNCHANGED kcLink
  <2>1. /\ kcIdp' \in [Alias -> Issuer \cup {"none"}] /\ kcLink' \subseteq Alias
        /\ kcIdp'[b.alias] = (IF kcIdp[b.alias] = "none" THEN b.issuer ELSE kcIdp[b.alias])
        /\ \A x \in Alias : x # b.alias => kcIdp'[x] = kcIdp[x]
    BY <1>3, <1>6, IdTypes DEF CreateIdP
  <2>2. ASSUME NEW r2 \in IdCallRow, BrokerMid(r, brokerRow, kcIdp, kcLink), r2.pc = "link", r2.op = op, r2.broker = b
        PROVE  BrokerMid(r2, brokerRow, kcIdp', kcLink')
    <3>1. brokerRow = NoBroker /\ BrokersAgree(brokerRow, kcIdp, kcLink)
      BY <1>6, <2>2 DEF BrokerMid
    <3>2. (\A x \in Alias : kcIdp[x] = "none") /\ kcLink = {}
      BY <1>3, <3>1, IdentityAssumption, IdleIdFacts DEF BrokersAgree, OnlyIdP
    <3>3. kcIdp'[b.alias] = b.issuer /\ OnlyIdP(b.alias, kcIdp') /\ kcLink' = {}
      BY <1>3, <1>6, <2>1, <3>2 DEF OnlyIdP
    <3>4. QED
      BY <1>6, <2>2, <3>1, <3>3 DEF BrokerMid
  <2>3. QED
    BY <1>5, <1>6, <2>1, <2>2
<1>7. CASE op = "CreateBroker" /\ pc = "link" /\ LinkIdPToOrg(b) /\ IdGoto(c, "domains") /\ UNCHANGED kcIdp
  <2>1. kcLink' = kcLink \cup {b.alias} /\ kcLink' \subseteq Alias /\ kcIdp' \in [Alias -> Issuer \cup {"none"}]
    BY <1>3, <1>7, IdTypes DEF LinkIdPToOrg
  <2>2. ASSUME NEW r2 \in IdCallRow, BrokerMid(r, brokerRow, kcIdp, kcLink), r2.pc = "domains", r2.op = op, r2.broker = b
        PROVE  BrokerMid(r2, brokerRow, kcIdp', kcLink')
    BY <1>7, <2>1, <2>2 DEF BrokerMid
  <2>3. QED
    BY <1>5, <1>7, <2>1, <2>2
<1>8. CASE op = "CreateBroker" /\ pc = "link" /\ kcIdp[b.alias] = "none" /\ IdGoto(c, "undo") /\ UNCHANGED <<kcIdp, kcLink>>
  <2>1. kcLink' \subseteq Alias /\ kcIdp' \in [Alias -> Issuer \cup {"none"}]
    BY <1>8, IdTypes
  <2>2. ASSUME NEW r2 \in IdCallRow, BrokerMid(r, brokerRow, kcIdp, kcLink), r2.pc = "undo", r2.op = op, r2.broker = b
        PROVE  BrokerMid(r2, brokerRow, kcIdp', kcLink')
    BY <1>8, <2>2 DEF BrokerMid
  <2>3. QED
    BY <1>5, <1>8, <2>1, <2>2
<1>9. CASE op = "UpdateBroker" /\ pc = "keycloak" /\ UpdateIdP(b) /\ IdGoto(c, "domains") /\ UNCHANGED kcLink
  <2>1. /\ kcIdp' \in [Alias -> Issuer \cup {"none"}] /\ kcLink' \subseteq Alias /\ kcIdp'[b.alias] = b.issuer
        /\ \A x \in Alias : x # b.alias => kcIdp'[x] = kcIdp[x]
    BY <1>3, <1>9, IdTypes DEF UpdateIdP
  <2>2. ASSUME NEW r2 \in IdCallRow, BrokerMid(r, brokerRow, kcIdp, kcLink), r2.pc = "domains", r2.op = op, r2.broker = b
        PROVE  BrokerMid(r2, brokerRow, kcIdp', kcLink')
    BY <1>9, <2>1, <2>2 DEF BrokerMid, OnlyIdP
  <2>3. QED
    BY <1>5, <1>9, <2>1, <2>2
<1>10. CASE op = "UpdateBroker" /\ pc = "keycloak" /\ kcIdp[b.alias] = "none" /\ IdReturn(c) /\ UNCHANGED <<kcIdp, kcLink>>
  <2>1. ~BrokerMid(r, brokerRow, kcIdp, kcLink)
    <3>1. SUFFICES ASSUME BrokerMid(r, brokerRow, kcIdp, kcLink) PROVE FALSE
      OBVIOUS
    <3>2. kcIdp[b.alias] = brokerRow.issuer /\ brokerRow.issuer \in Issuer
      BY <1>4, <1>10, <3>1 DEF BrokerMid, BrokeredIdP
    <3>3. QED
      BY <1>4, <1>10, <3>2
  <2>2. QED
    BY <1>1, <1>2, <1>3, <1>4, <1>10, <2>1, IdTypes, IdReturnFacts, IdBrokerKeeps
<1>11. CASE op = "DeleteBroker" /\ pc = "unlink" /\ UnlinkIdPFromOrg(b) /\ IdGoto(c, "delete") /\ UNCHANGED kcIdp
  <2>1. kcLink' = kcLink \ {b.alias} /\ kcLink' \subseteq Alias /\ kcIdp' \in [Alias -> Issuer \cup {"none"}]
    BY <1>3, <1>11, IdTypes DEF UnlinkIdPFromOrg
  <2>2. ASSUME NEW r2 \in IdCallRow, BrokerMid(r, brokerRow, kcIdp, kcLink), r2.pc = "delete", r2.op = op, r2.broker = b
        PROVE  BrokerMid(r2, brokerRow, kcIdp', kcLink')
    <3>1. brokerRow = b /\ OnlyIdP(b.alias, kcIdp) /\ kcLink = {b.alias}
      BY <1>3, <1>11, <2>2 DEF BrokerMid, BrokersAgree
    <3>2. kcLink' = {}
      BY <2>1, <3>1
    <3>3. QED
      BY <1>11, <2>2, <3>1, <3>2 DEF BrokerMid
  <2>3. QED
    BY <1>5, <1>11, <2>1, <2>2
<1>12. CASE op = "DeleteBroker" /\ pc = "delete" /\ DeleteIdP(b) /\ IdGoto(c, "tx")
  <2>1. /\ kcIdp' \in [Alias -> Issuer \cup {"none"}] /\ kcIdp'[b.alias] = "none" /\ kcLink' = kcLink \ {b.alias} /\ kcLink' \subseteq Alias
        /\ \A x \in Alias : x # b.alias => kcIdp'[x] = kcIdp[x]
    BY <1>3, <1>12, IdTypes DEF DeleteIdP
  <2>2. ASSUME NEW r2 \in IdCallRow, BrokerMid(r, brokerRow, kcIdp, kcLink), r2.pc = "tx", r2.op = op, r2.broker = b
        PROVE  BrokerMid(r2, brokerRow, kcIdp', kcLink')
    BY <1>12, <2>1, <2>2 DEF BrokerMid, OnlyIdP
  <2>3. QED
    BY <1>5, <1>12, <2>1, <2>2
<1>13. QED
  BY <1>1, <1>6, <1>7, <1>8, <1>9, <1>10, <1>11, <1>12

-----------------------------------------------------------------------------
(* Identity: requests and failures *)

\* A call begins with what the row says; alone, the objects fit an idle call.
LEMMA BeginIdCallKeepsInv ==
  ASSUME IdentityInv, NEW c \in IdentityCall, NEW call \in IdCallRow, BeginIdCall(c, call), idAsked' \in 0 .. MaxIdentityRequests,
         IdShapeOK(call, clientRow), call.pc \in {"keycloak", "unlink"},
         call.op = "CreateClient" => clientRow[call.name] = "none",
         call.op = "UpdateClient" => call.enabled = (clientRow[call.name] = "active"),
         call.op = "CreateBroker" => brokerRow = NoBroker,
         call.op = "UpdateBroker" => brokerRow # NoBroker /\ call.broker.alias = brokerRow.alias,
         call.op = "DeleteBroker" => brokerRow # NoBroker /\ call.broker = brokerRow
  PROVE  IdentityInv'
<1>1. /\ idCall[c] = IdleIdCall /\ idCall' = [idCall EXCEPT ![c] = call]
      /\ overlapped' = (overlapped \/ \E d \in IdentityCall \ {c} : idCall[d] # IdleIdCall)
      /\ UNCHANGED <<clientRow, kcClient, brokerRow, kcIdp, kcLink, idCrashed, idFaults>>
  BY DEF BeginIdCall, clientsSame, brokersSame
<1>2. overlapped' \in BOOLEAN /\ (overlapped => overlapped') /\ (~overlapped' => \A d \in IdentityCall : d # c => idCall[d].pc = "idle")
  BY <1>1, IdTypes, IdleIdFacts
<1>3. \A m : ~Creating(idCall[c], m) /\ ~InMiddle(idCall[c], m)
  BY <1>1, IdleIdFacts DEF Creating, InMiddle
<1>4. ASSUME LoneOK(idCall[c], clientRow, kcClient, brokerRow, kcIdp, kcLink)
      PROVE  LoneOK(call, clientRow, kcClient, brokerRow, kcIdp, kcLink)
  <2>1. /\ \A n \in ClientName : (clientRow[n] = "active") = (kcClient[n] = "enabled")
        /\ BrokersAgree(brokerRow, kcIdp, kcLink)
    BY <1>1, <1>3, <1>4, IdleIdFacts DEF LoneOK, BrokerOps
  <2>2. ClientMid(call, clientRow, kcClient)
    BY DEF ClientMid
  <2>3. BrokerMid(call, brokerRow, kcIdp, kcLink)
    <3>1. call.op = "CreateBroker" => BrokerMid(call, brokerRow, kcIdp, kcLink)
      <4>1. call.op = "CreateBroker" => OnlyIdP(call.broker.alias, kcIdp) /\ call.pc = "keycloak"
        BY <2>1, IdentityAssumption, IdleIdFacts DEF BrokersAgree, OnlyIdP, IdShapeOK
      <4>2. QED
        BY <2>1, <4>1 DEF BrokerMid
    <3>2. call.op = "UpdateBroker" => BrokerMid(call, brokerRow, kcIdp, kcLink)
      BY <2>1 DEF BrokersAgree, BrokerMid, IdShapeOK
    <3>3. call.op = "DeleteBroker" => BrokerMid(call, brokerRow, kcIdp, kcLink)
      BY <2>1 DEF BrokersAgree, BrokerMid, IdShapeOK
    <3>4. call.op \notin BrokerOps => BrokerMid(call, brokerRow, kcIdp, kcLink)
      BY DEF BrokerMid, BrokerOps
    <3>5. QED
      BY <3>1, <3>2, <3>3, <3>4 DEF BrokerOps
  <2>4. QED
    BY <2>1, <2>2, <2>3 DEF LoneOK
<1>5. idFaults \in 0 .. MaxIdentityFaults
  BY DEF IdentityInv, IdentityTypeOK
<1>6. brokerRow = NoBroker \/ brokerRow.alias \in Alias
  BY DEF IdentityInv
<1>7. QED
  BY <1>1, <1>2, <1>3, <1>4, <1>5, <1>6, IdTypes, IdCallsChange

LEMMA IdentityRequestKeepsInv ==
  ASSUME IdentityInv, NEW c \in IdentityCall, idAsked' \in 0 .. MaxIdentityRequests,
         \/ \E n \in ClientName : CreateIdentityClient(c, n) \/ UpdateIdentityClient(c, n) \/ DisableIdentityClient(c, n)
         \/ \E b \in [alias : Alias, issuer : Issuer] : CreateBrokeredIdP(c, b)
         \/ \E i \in Issuer : UpdateBrokeredIdP(c, i)
         \/ DeleteBrokeredIdP(c)
  PROVE  IdentityInv'
<1>0. brokerRow \in BrokeredIdP /\ (brokerRow = NoBroker \/ brokerRow.alias \in Alias)
  BY IdTypes DEF IdentityInv
<1>1. ASSUME NEW n \in ClientName, CreateIdentityClient(c, n) PROVE IdentityInv'
  <2> DEFINE call == [IdleIdCall EXCEPT !.op = "CreateClient", !.pc = "keycloak", !.name = n]
  <2>1. call \in IdCallRow /\ call.op = "CreateClient" /\ call.pc = "keycloak" /\ call.name = n
    BY IdleIdFacts DEF IdleIdCall, IdCallRow
  <2>2. BeginIdCall(c, call) /\ clientRow[n] = "none"
    BY <1>1 DEF CreateIdentityClient, GetIdentityClient
  <2> HIDE DEF call
  <2>3. IdShapeOK(call, clientRow)
    BY <2>1 DEF IdShapeOK, BrokerOps
  <2>4. QED
    BY <2>1, <2>2, <2>3, BeginIdCallKeepsInv
<1>2. ASSUME NEW n \in ClientName, UpdateIdentityClient(c, n) PROVE IdentityInv'
  <2> DEFINE on == clientRow[n] = "active"
             call == [IdleIdCall EXCEPT !.op = "UpdateClient", !.pc = "keycloak", !.name = n, !.enabled = on]
  <2>1. on \in BOOLEAN
    OBVIOUS
  <2>2. BeginIdCall(c, call) /\ clientRow[n] # "none"
    BY <1>2 DEF UpdateIdentityClient, GetIdentityClient
  <2> HIDE DEF on
  <2>3. call \in IdCallRow /\ call.op = "UpdateClient" /\ call.pc = "keycloak" /\ call.name = n /\ call.enabled = on
    BY <2>1, IdleIdFacts DEF IdleIdCall, IdCallRow
  <2> HIDE DEF call
  <2>4. IdShapeOK(call, clientRow)
    BY <2>2, <2>3 DEF IdShapeOK, BrokerOps
  <2>5. call.enabled = (clientRow[call.name] = "active")
    BY <2>3 DEF on
  <2>6. QED
    BY <2>2, <2>3, <2>4, <2>5, BeginIdCallKeepsInv
<1>3. ASSUME NEW n \in ClientName, DisableIdentityClient(c, n) PROVE IdentityInv'
  <2> DEFINE call == [IdleIdCall EXCEPT !.op = "DisableClient", !.pc = "keycloak", !.name = n]
  <2>1. call \in IdCallRow /\ call.op = "DisableClient" /\ call.pc = "keycloak" /\ call.name = n
    BY IdleIdFacts DEF IdleIdCall, IdCallRow
  <2>2. BeginIdCall(c, call) /\ clientRow[n] # "none"
    BY <1>3 DEF DisableIdentityClient, GetIdentityClient
  <2> HIDE DEF call
  <2>3. IdShapeOK(call, clientRow)
    BY <2>1, <2>2 DEF IdShapeOK, BrokerOps
  <2>4. QED
    BY <2>1, <2>2, <2>3, BeginIdCallKeepsInv
<1>4. ASSUME NEW b \in [alias : Alias, issuer : Issuer], CreateBrokeredIdP(c, b) PROVE IdentityInv'
  <2> DEFINE call == [IdleIdCall EXCEPT !.op = "CreateBroker", !.pc = "keycloak", !.broker = b]
  <2>1. b \in BrokeredIdP /\ b.alias \in Alias
    BY DEF BrokeredIdP
  <2>2. call \in IdCallRow /\ call.op = "CreateBroker" /\ call.pc = "keycloak" /\ call.broker = b
    BY <2>1, IdleIdFacts DEF IdleIdCall, IdCallRow
  <2>3. BeginIdCall(c, call) /\ brokerRow = NoBroker
    BY <1>4 DEF CreateBrokeredIdP, GetIdPBrokerByOrg
  <2> HIDE DEF call
  <2>4. IdShapeOK(call, clientRow)
    BY <2>1, <2>2 DEF IdShapeOK, BrokerOps
  <2>5. QED
    BY <2>2, <2>3, <2>4, BeginIdCallKeepsInv
<1>5. ASSUME NEW i \in Issuer, UpdateBrokeredIdP(c, i) PROVE IdentityInv'
  <2> DEFINE b == [brokerRow EXCEPT !.issuer = i]
             call == [IdleIdCall EXCEPT !.op = "UpdateBroker", !.pc = "keycloak", !.broker = b]
  <2>1. BeginIdCall(c, call) /\ brokerRow # NoBroker
    BY <1>5 DEF UpdateBrokeredIdP, GetIdPBrokerByOrg
  <2>2. b \in BrokeredIdP /\ b.alias = brokerRow.alias /\ b.alias \in Alias
    BY <1>0, <2>1 DEF BrokeredIdP
  <2> HIDE DEF b
  <2>3. call \in IdCallRow /\ call.op = "UpdateBroker" /\ call.pc = "keycloak" /\ call.broker = b
    BY <2>2, IdleIdFacts DEF IdleIdCall, IdCallRow
  <2> HIDE DEF call
  <2>4. IdShapeOK(call, clientRow)
    BY <2>2, <2>3 DEF IdShapeOK, BrokerOps
  <2>5. QED
    BY <2>1, <2>2, <2>3, <2>4, BeginIdCallKeepsInv
<1>6. ASSUME DeleteBrokeredIdP(c) PROVE IdentityInv'
  <2> DEFINE call == [IdleIdCall EXCEPT !.op = "DeleteBroker", !.pc = "unlink", !.broker = brokerRow]
  <2>1. BeginIdCall(c, call) /\ brokerRow # NoBroker
    BY <1>6 DEF DeleteBrokeredIdP, GetIdPBrokerByOrg
  <2>2. call \in IdCallRow /\ call.op = "DeleteBroker" /\ call.pc = "unlink" /\ call.broker = brokerRow
    BY <1>0, IdleIdFacts DEF IdleIdCall, IdCallRow
  <2> HIDE DEF call
  <2>3. IdShapeOK(call, clientRow)
    BY <1>0, <2>1, <2>2 DEF IdShapeOK, BrokerOps
  <2>4. QED
    BY <2>1, <2>2, <2>3, BeginIdCallKeepsInv
<1>7. QED
  BY <1>1, <1>2, <1>3, <1>4, <1>5, <1>6

LEMMA IdTxFailsKeepsInv == ASSUME IdentityInv, NEW c \in IdentityCall, IdTxFails(c) PROVE IdentityInv'
<1> DEFINE r == idCall[c]
<1>1. /\ r.pc = "tx" /\ r.op \in {"CreateClient", "CreateBroker"} /\ IdGoto(c, "undo")
      /\ UNCHANGED <<clientRow, kcClient, brokerRow, kcIdp, kcLink, overlapped, idCrashed, idAsked>>
  BY DEF IdTxFails, clientsSame, brokersSame
<1>2. idFaults' \in 0 .. MaxIdentityFaults
  BY IdentityAssumption DEF IdTxFails, IdentityInv, IdentityTypeOK
<1>3. PICK r2 \in IdCallRow : /\ idCall' = [idCall EXCEPT ![c] = r2] /\ r2.pc = "undo" /\ r2.op = r.op /\ r2.name = r.name
                              /\ r2.broker = r.broker
  BY <1>1, IdTo
<1>4. IdShapeOK(r2, clientRow) /\ r.pc # "idle" /\ (brokerRow = NoBroker \/ brokerRow.alias \in Alias)
  BY <1>1, <1>3, IdTypes DEF IdShapeOK, BrokerOps, IdentityInv
<1>5. \A m \in ClientName : Creating(r, m) => Creating(r2, m)
  BY <1>1, <1>3 DEF Creating
<1>6. ASSUME LoneOK(r, clientRow, kcClient, brokerRow, kcIdp, kcLink)
      PROVE  LoneOK(r2, clientRow, kcClient, brokerRow, kcIdp, kcLink)
  <2>1. ClientMid(r2, clientRow, kcClient)
    BY <1>1, <1>3, <1>6 DEF LoneOK, ClientMid
  <2>2. BrokerMid(r2, brokerRow, kcIdp, kcLink)
    BY <1>1, <1>3, <1>6 DEF LoneOK, BrokerMid
  <2>3. \A m \in ClientName : InMiddle(r, m) => InMiddle(r2, m)
    BY <1>1, <1>3, <1>5 DEF InMiddle
  <2>4. QED
    BY <1>3, <1>6, <2>1, <2>2, <2>3 DEF LoneOK
<1>7. QED
  BY <1>1, <1>2, <1>3, <1>4, <1>5, <1>6, IdTypes, IdStepKeeps

LEMMA IdCallFailsKeepsInv == ASSUME IdentityInv, NEW c \in IdentityCall, IdCallFails(c) PROVE IdentityInv'
<1>1. /\ idCall[c] # IdleIdCall /\ IdReturn(c) /\ idCrashed' = TRUE
      /\ UNCHANGED <<clientRow, kcClient, brokerRow, kcIdp, kcLink, overlapped, idAsked>>
  BY DEF IdCallFails, clientsSame, brokersSame
<1>2. idFaults' \in 0 .. MaxIdentityFaults
  BY IdentityAssumption DEF IdCallFails, IdentityInv, IdentityTypeOK
<1>3. idCall[c].pc # "idle"
  BY <1>1, IdTypes DEF IdShapeOK
<1>4. brokerRow = NoBroker \/ brokerRow.alias \in Alias
  BY DEF IdentityInv
<1>5. QED
  BY <1>1, <1>2, <1>3, <1>4, IdTypes, IdReturnFacts, IdStepKeeps

LEMMA IdentityInvStep == ASSUME IdentityInv, [IdentityNext]_identityVars PROVE IdentityInv'
<1>1. CASE UNCHANGED identityVars
  BY <1>1 DEF identityVars, IdentityInv, IdentityTypeOK
<1>2. ASSUME NEW c \in IdentityCall, IdCallStep(c) \/ IdTxFails(c) \/ IdCallFails(c) PROVE IdentityInv'
  BY <1>2, ClientKeycloakStepKeepsInv, ClientTxKeepsInv, ClientUndoKeepsInv, BrokerKeycloakStepKeepsInv, SetOrgDomainsKeepsInv,
     BrokerTxKeepsInv, rollbackIdPKeepsInv, IdTxFailsKeepsInv, IdCallFailsKeepsInv DEF IdCallStep
<1>3. ASSUME NEW c \in IdentityCall, IdentityRoutes(c) PROVE IdentityInv'
  <2>1. idAsked' \in 0 .. MaxIdentityRequests
    <3>1. idAsked < MaxIdentityRequests /\ idAsked' = idAsked + 1
      BY <1>3 DEF IdentityRoutes, EnsuresKubectl, httpCreateIdentityClient, httpUpdateIdentityClient, httpDisableIdentityClient,
         httpCreateBrokeredIdP, httpUpdateBrokeredIdP, httpDeleteBrokeredIdP, authorizeIdentity
    <3>2. QED
      BY <3>1, IdentityAssumption DEF IdentityInv, IdentityTypeOK
  <2>2. \/ \E n \in ClientName : CreateIdentityClient(c, n) \/ UpdateIdentityClient(c, n) \/ DisableIdentityClient(c, n)
        \/ \E b \in [alias : Alias, issuer : Issuer] : CreateBrokeredIdP(c, b)
        \/ \E i \in Issuer : UpdateBrokeredIdP(c, i)
        \/ DeleteBrokeredIdP(c)
    BY <1>3, IdentityAssumption DEF IdentityRoutes, EnsuresKubectl, EnsureKubectlClient, httpCreateIdentityClient, httpUpdateIdentityClient,
       httpDisableIdentityClient, httpCreateBrokeredIdP, httpUpdateBrokeredIdP, httpDeleteBrokeredIdP
  <2>3. QED
    BY <2>1, <2>2, IdentityRequestKeepsInv
<1>4. QED
  BY <1>1, <1>2, <1>3 DEF IdentityNext

\* What the run checks of identities follows.
LEMMA IdentityInvGives == ASSUME IdentityInv PROVE IdentityTypeOK /\ NoOrphanClient /\ AgreeAlone
<1>1. NoOrphanClient
  BY IdleIdFacts DEF NoOrphanClient, IdentityInv, NoOrphan, allIdle, Creating
<1>2. ASSUME allIdle, ~idCrashed, ~overlapped
      PROVE  /\ \A n \in ClientName : (clientRow[n] = "active") = (kcClient[n] = "enabled")
             /\ \A a \in Alias : kcIdp[a] # "none" => brokerRow.alias = a
             /\ brokerRow # NoBroker => kcIdp[brokerRow.alias] = brokerRow.issuer /\ kcLink = {brokerRow.alias}
  <2>1. AloneAgree(idCall, clientRow, kcClient, brokerRow, kcIdp, kcLink)
    BY <1>2 DEF IdentityInv
  <2>2. \A c \in IdentityCall : idCall[c].op = "none"
    BY <1>2, IdleIdFacts DEF allIdle
  <2>3. \A n \in ClientName : (clientRow[n] = "active") = (kcClient[n] = "enabled")
    BY <2>1, <2>2 DEF AloneAgree, RowsAgree, InMiddle, Creating
  <2>4. BrokersAgree(brokerRow, kcIdp, kcLink)
    BY <2>1, <2>2 DEF AloneAgree, BrokerOps
  <2>5. QED
    BY <2>3, <2>4 DEF BrokersAgree, OnlyIdP
<1>3. QED
  BY <1>1, <1>2 DEF AgreeAlone, IdentityInv

-----------------------------------------------------------------------------
(* UserGit *)

AccessStep == {"cache", "flight", "wait", "refresh", "persist", "keep", "wipe"}
FlightStep == {"refresh", "persist", "keep", "wipe"}
GitStep == AccessStep \cup {"exchange", "upsert", "revoke", "delete", "forget"}

\* What a call stands on, given the row, the tokens the provider accepts, the number issued and the
\* caches: its row is not ahead of the connection, a refresh token the connection has left behind is
\* not accepted any more, and the token of a new connection names nothing yet.
CallOK(r, conn, gr, n, cache) ==
    /\ r.pc = "idle" => r = IdleGit
    /\ r.pc \in AccessStep => r.op = "access" /\ r.row.id >= 1
    /\ r.pc \in {"exchange", "upsert"} => r.op = "complete"
    /\ r.pc \in {"revoke", "delete", "forget"} => r.op = "disconnect"
    /\ r.row.id <= n /\ r.row.refresh <= n /\ r.new <= n
    /\ r.pc \in {"persist", "keep", "upsert"} => r.new >= 1
    /\ r.row.id = conn.id /\ r.row.id >= 1 =>
          /\ r.row.refresh <= conn.refresh
          /\ r.row.refresh < conn.refresh => r.row.refresh \notin gr
          /\ r.pc = "persist" => r.new > conn.refresh /\ conn.refresh \notin gr
          /\ r.pc = "keep" => r.new <= conn.refresh
    /\ r.pc = "upsert" => r.new # conn.id /\ \A s \in GitServer : \A e \in cache[s] : e.id # r.new

\* Two calls: one rotation at a time of the present connection, and new connections have new tokens.
PairOK(r, q, conn) ==
    /\ ~(r.pc = "persist" /\ q.pc = "persist" /\ r.row.id = conn.id /\ q.row.id = conn.id)
    /\ r.pc = "upsert" => q.row.id # r.new
    /\ r.pc = "upsert" /\ q.pc = "upsert" => r.new # q.new

TokensOK(conn, gr, n, cache) ==
    /\ gr \subseteq 1 .. n /\ conn.id <= n /\ conn.refresh <= n
    /\ conn.id = 0 => conn = NoConnection
    /\ \A s \in GitServer : \A e \in cache[s] : e.id <= n /\ (e.id = conn.id => e.minted <= conn.refresh)

GitCallsOK ==
    /\ TokensOK(gitConn, grant, gitIssued, accessCache)
    /\ \A c \in GitCall : CallOK(gitCall[c], gitConn, grant, gitIssued, accessCache)
    /\ \A c, d \in GitCall : c # d => PairOK(gitCall[c], gitCall[d], gitConn)

\* Without a fault, and with nothing but the calls of one replica for access tokens running together:
\* whoever refreshes holds the refresh token the provider accepts.
Doubtless(calls, conn, gr, cache) ==
    /\ \A c, d \in GitCall : c # d /\ calls[c].pc # "idle" /\ calls[d].pc # "idle" =>
          calls[c].op = "access" /\ calls[d].op = "access" /\ calls[c].at = calls[d].at
    /\ \A c \in GitCall : calls[c].pc \in AccessStep => calls[c].row.id = conn.id
    /\ \A c, d \in GitCall : calls[c].pc \in FlightStep /\ calls[d].pc \in FlightStep => c = d
    /\ conn.id >= 1 /\ (\A c \in GitCall : calls[c].pc \notin {"persist", "delete"}) => conn.refresh \in gr
    /\ \A c \in GitCall : calls[c].pc \in {"cache", "flight"} =>
          \/ calls[c].row.refresh = conn.refresh
          \/ \E e \in cache[calls[c].at] : e.id = calls[c].row.id
          \/ \E d \in GitCall : calls[d].pc = "keep"
    /\ \A c \in GitCall : calls[c].pc = "refresh" => calls[c].row.refresh = conn.refresh
    /\ \A c \in GitCall : calls[c].pc \in {"persist", "upsert"} => calls[c].new \in gr
    /\ \A c \in GitCall : calls[c].pc # "wipe"
DoubtlessOK == ~gitDoubt => ~compromised /\ Doubtless(gitCall, gitConn, grant, accessCache)

\* A state is pending at one replica, in one call, or has made its connection.
PendingIn(r, t) == r.pc \in {"exchange", "upsert"} /\ r.state = t
StatesOnce(calls, non, made) == \A t \in AuthState :
    /\ made[t] <= 1
    /\ made[t] = 1 => (\A s \in GitServer : t \notin non[s]) /\ \A c \in GitCall : ~PendingIn(calls[c], t)
    /\ \A s \in GitServer : t \in non[s] =>
          (\A c \in GitCall : ~PendingIn(calls[c], t)) /\ \A q \in GitServer : t \in non[q] => q = s
    /\ \A c, d \in GitCall : PendingIn(calls[c], t) /\ PendingIn(calls[d], t) => c = d

UserGitInv == UserGitTypeOK /\ GitCallsOK /\ DoubtlessOK /\ StatesOnce(gitCall, nonces, connected)

LEMMA UserGitBounds ==
  /\ GitToken \subseteq Nat /\ \A x \in 0 .. MaxGitTokens : x \in Nat
  /\ NoConnection \in EncryptedRow /\ IdleGit \in GitCallRow
  /\ IdleGit.pc = "idle" /\ IdleGit.row = NoConnection /\ IdleGit.new = 0
  /\ NoConnection.id = 0 /\ NoConnection.refresh = 0
  /\ \A conn \in EncryptedRow : conn.id \in Nat /\ conn.refresh \in Nat
  /\ \A r \in GitCallRow : /\ r.row \in EncryptedRow /\ r.row.id \in Nat /\ r.row.refresh \in Nat /\ r.new \in Nat
                           /\ r.at \in GitServer /\ r.state \in AuthState
                           /\ r.pc # "idle" => r.pc \in GitStep
<1>1. (CHOOSE s \in GitServer : TRUE) \in GitServer /\ (CHOOSE t \in AuthState : TRUE) \in AuthState
  BY UserGitAssumption
<1>2. NoConnection \in EncryptedRow /\ NoConnection.id = 0 /\ NoConnection.refresh = 0
  BY UserGitAssumption DEF EncryptedRow, NoConnection
<1>3. IdleGit \in GitCallRow /\ IdleGit.pc = "idle" /\ IdleGit.row = NoConnection /\ IdleGit.new = 0
  BY <1>1, <1>2, UserGitAssumption DEF IdleGit, GitCallRow
<1>4. QED
  BY <1>2, <1>3, UserGitAssumption DEF GitToken, EncryptedRow, GitCallRow, GitStep, AccessStep

LEMMA UserGitInvInit == ASSUME UserGitInit PROVE UserGitInv
<1>1. gitConn \in EncryptedRow /\ gitConn.id = gitConn.refresh /\ gitConn.id \in {0, 1} /\ (gitConn.id = 0 => gitConn = NoConnection)
  BY UserGitBounds, UserGitAssumption DEF UserGitInit, EncryptedRow, NoConnection
<1>2. \A c \in GitCall : gitCall[c] = IdleGit
  BY DEF UserGitInit
<1>3. UserGitTypeOK
  <2>1. grant \subseteq GitToken /\ gitIssued \in 0 .. MaxGitTokens
    BY <1>1, UserGitAssumption DEF UserGitInit, GitToken
  <2>2. gitCall \in [GitCall -> GitCallRow] /\ connected \in [AuthState -> Nat]
    BY UserGitBounds DEF UserGitInit
  <2>3. accessCache \in [GitServer -> SUBSET cachedAccess] /\ nonces \in [GitServer -> SUBSET AuthState]
    BY DEF UserGitInit
  <2>4. gitCalls \in 0 .. MaxGitCalls /\ gitFaults \in 0 .. MaxGitFaults
    BY UserGitAssumption DEF UserGitInit
  <2>5. compromised \in BOOLEAN /\ gitDoubt \in BOOLEAN
    BY DEF UserGitInit
  <2>6. QED
    BY <1>1, <2>1, <2>2, <2>3, <2>4, <2>5 DEF UserGitTypeOK
<1>4. GitCallsOK
  <2>1. TokensOK(gitConn, grant, gitIssued, accessCache)
    BY <1>1 DEF UserGitInit, TokensOK
  <2>2. \A c \in GitCall : CallOK(gitCall[c], gitConn, grant, gitIssued, accessCache)
    BY <1>2, UserGitBounds DEF CallOK, UserGitInit, AccessStep
  <2>3. QED
    BY <1>2, <2>1, <2>2, UserGitBounds DEF GitCallsOK, PairOK
<1>5. DoubtlessOK
  BY <1>1, <1>2, UserGitBounds DEF DoubtlessOK, Doubtless, UserGitInit, AccessStep, FlightStep
<1>6. StatesOnce(gitCall, nonces, connected)
  BY <1>2, UserGitBounds DEF StatesOnce, PendingIn, UserGitInit
<1>7. QED
  BY <1>3, <1>4, <1>5, <1>6 DEF UserGitInv

-----------------------------------------------------------------------------
(* UserGit: lemmas about calls *)

LEMMA IdleCallOK ==
  ASSUME NEW conn, NEW gr, NEW n \in Nat, NEW cache PROVE CallOK(IdleGit, conn, gr, n, cache)
BY UserGitBounds DEF CallOK, AccessStep

LEMMA IdlePairOK ==
  ASSUME NEW r \in GitCallRow, NEW conn, r.pc = "upsert" => r.new >= 1
  PROVE  PairOK(r, IdleGit, conn) /\ PairOK(IdleGit, r, conn)
BY UserGitBounds DEF PairOK

\* What a call stands on holds when the connection stays or goes, tokens are issued or left behind,
\* and caches are emptied.
LEMMA CallStands ==
  ASSUME NEW r \in GitCallRow, NEW conn \in EncryptedRow, NEW conn2 \in EncryptedRow, NEW gr, NEW gr2,
         NEW n \in Nat, NEW n2 \in Nat, NEW cache, NEW cache2, n <= n2,
         CallOK(r, conn, gr, n, cache), TokensOK(conn, gr, n, cache), conn2 \in {conn, NoConnection},
         \A g \in gr2 : g \in gr \/ g = n + 1,
         \A s \in GitServer : \A e \in cache2[s] : \E f \in cache[s] : f.id = e.id
  PROVE  CallOK(r, conn2, gr2, n2, cache2)
<1>1. conn2.id \in {conn.id, 0} /\ (conn2.id >= 1 => conn2 = conn)
  BY UserGitBounds
<1>2. QED
  BY <1>1, UserGitBounds DEF CallOK, TokensOK

LEMMA PairStands ==
  ASSUME NEW r \in GitCallRow, NEW q \in GitCallRow, NEW conn \in EncryptedRow, NEW conn2 \in EncryptedRow,
         PairOK(r, q, conn), conn2 \in {conn, NoConnection}, r.pc = "persist" => r.row.id >= 1
  PROVE  PairOK(r, q, conn2)
BY UserGitBounds DEF PairOK

\* A call that goes on without a new token, or ends.
LEMMA PairMoves ==
  ASSUME NEW r \in GitCallRow, NEW r2 \in GitCallRow, NEW q \in GitCallRow, NEW conn \in EncryptedRow,
         PairOK(r, q, conn), PairOK(q, r, conn), r2.row \in {r.row, NoConnection}, r2.pc \notin {"persist", "upsert"},
         q.pc = "upsert" => q.new >= 1
  PROVE  PairOK(r2, q, conn) /\ PairOK(q, r2, conn)
BY UserGitBounds DEF PairOK

\* One call changes, others stay or end; the connection stays or goes.
LEMMA CallsChange ==
  ASSUME UserGitInv, UserGitTypeOK', NEW c \in GitCall,
         gitConn' \in {gitConn, NoConnection}, gitIssued <= gitIssued', grant' \subseteq 1 .. gitIssued',
         \A g \in grant' : g \in grant \/ g = gitIssued + 1,
         \A s \in GitServer : accessCache'[s] \subseteq accessCache[s],
         \A d \in GitCall : d # c => gitCall'[d] \in {gitCall[d], IdleGit},
         CallOK(gitCall'[c], gitConn', grant', gitIssued', accessCache'),
         \A d \in GitCall : d # c => PairOK(gitCall'[c], gitCall[d], gitConn) /\ PairOK(gitCall[d], gitCall'[c], gitConn)
  PROVE  GitCallsOK'
<1>1. /\ gitConn \in EncryptedRow /\ gitConn' \in EncryptedRow /\ gitIssued \in Nat /\ gitIssued' \in Nat
      /\ gitCall \in [GitCall -> GitCallRow] /\ gitCall' \in [GitCall -> GitCallRow]
  BY UserGitBounds DEF UserGitInv, UserGitTypeOK
<1>2. TokensOK(gitConn, grant, gitIssued, accessCache)
  BY DEF UserGitInv, GitCallsOK
<1>a. accessCache \in [GitServer -> SUBSET cachedAccess]
  BY DEF UserGitInv, UserGitTypeOK
<1>3. TokensOK(gitConn', grant', gitIssued', accessCache')
  <2>1. \A s \in GitServer : \A e \in accessCache[s] : e.id \in Nat /\ e.id >= 1
    BY <1>a, UserGitAssumption DEF cachedAccess, GitToken
  <2>2. QED
    BY <1>1, <1>2, <2>1, UserGitBounds DEF TokensOK
<1>4. \A d \in GitCall : CallOK(gitCall[d], gitConn', grant', gitIssued', accessCache')
  <2>1. \A d \in GitCall : CallOK(gitCall[d], gitConn, grant, gitIssued, accessCache)
    BY DEF UserGitInv, GitCallsOK
  <2>2. \A s \in GitServer : \A e \in accessCache'[s] : \E f \in accessCache[s] : f.id = e.id
    OBVIOUS
  <2>3. QED
    BY <1>1, <1>2, <2>1, <2>2, CallStands
<1>5. \A d \in GitCall : CallOK(gitCall'[d], gitConn', grant', gitIssued', accessCache')
  BY <1>1, <1>4, IdleCallOK
<1>6. \A d \in GitCall : gitCall'[d].pc = "upsert" => gitCall'[d].new >= 1
  BY <1>5 DEF CallOK
<1>7. \A d \in GitCall : (gitCall[d].pc = "upsert" => gitCall[d].new >= 1) /\ (gitCall[d].pc = "persist" => gitCall[d].row.id >= 1)
  BY <1>4 DEF CallOK, AccessStep
<1>8. \A d, e \in GitCall : d # e => PairOK(gitCall'[d], gitCall'[e], gitConn)
  <2>1. SUFFICES ASSUME NEW d \in GitCall, NEW e \in GitCall, d # e PROVE PairOK(gitCall'[d], gitCall'[e], gitConn)
    OBVIOUS
  <2>2. PairOK(gitCall[d], gitCall[e], gitConn)
    BY <2>1 DEF UserGitInv, GitCallsOK
  <2>3. CASE gitCall'[d] = IdleGit \/ gitCall'[e] = IdleGit
    BY <1>1, <1>6, <2>3, IdlePairOK, UserGitBounds
  <2>4. CASE gitCall'[d] # IdleGit /\ gitCall'[e] # IdleGit
    <3>1. CASE d = c
      BY <2>1, <2>4, <3>1
    <3>2. CASE e = c
      BY <2>1, <2>4, <3>2
    <3>3. CASE d # c /\ e # c
      BY <2>2, <2>4, <3>3
    <3>4. QED
      BY <3>1, <3>2, <3>3
  <2>5. QED
    BY <2>3, <2>4
<1>9. \A d, e \in GitCall : d # e => PairOK(gitCall'[d], gitCall'[e], gitConn')
  <2>1. \A d \in GitCall : gitCall'[d].pc = "persist" => gitCall'[d].row.id >= 1
    BY <1>5 DEF CallOK, AccessStep
  <2>2. QED
    BY <1>1, <1>8, <2>1, PairStands
<1>10. QED
  BY <1>3, <1>5, <1>9 DEF GitCallsOK

\* The calls that pend stay or end.
LEMMA StatesStand ==
  ASSUME StatesOnce(gitCall, nonces, connected), UNCHANGED <<nonces, connected>>,
         \A d \in GitCall, t \in AuthState : PendingIn(gitCall'[d], t) => PendingIn(gitCall[d], t)
  PROVE  StatesOnce(gitCall', nonces', connected')
BY DEF StatesOnce

\* What is known of one call and of the state it acts on.
LEMMA GitFacts ==
  ASSUME UserGitInv, NEW c \in GitCall
  PROVE  /\ gitCall \in [GitCall -> GitCallRow] /\ gitCall[c] \in GitCallRow /\ gitConn \in EncryptedRow
         /\ gitIssued \in Nat /\ gitIssued \in 0 .. MaxGitTokens /\ grant \subseteq 1 .. gitIssued
         /\ accessCache \in [GitServer -> SUBSET cachedAccess]
         /\ CallOK(gitCall[c], gitConn, grant, gitIssued, accessCache)
         /\ TokensOK(gitConn, grant, gitIssued, accessCache)
         /\ \A d \in GitCall : CallOK(gitCall[d], gitConn, grant, gitIssued, accessCache)
         /\ \A d \in GitCall : d # c => PairOK(gitCall[c], gitCall[d], gitConn) /\ PairOK(gitCall[d], gitCall[c], gitConn)
         /\ \A d \in GitCall : gitCall[d] \in GitCallRow /\ (gitCall[d].pc = "upsert" => gitCall[d].new >= 1)
BY UserGitBounds DEF UserGitInv, UserGitTypeOK, GitCallsOK, TokensOK, CallOK

-----------------------------------------------------------------------------
(* UserGit: the steps of an access *)

\* A call that goes on, or ends, and changes nothing else of what calls stand on.
LEMMA GoesOn ==
  ASSUME UserGitInv, NEW c \in GitCall, NEW pc \in {"flight", "wait", "refresh", "wipe"},
         gitCall[c].pc \in AccessStep,
         gitCall' = [gitCall EXCEPT ![c].pc = pc] \/ gitCall' = [gitCall EXCEPT ![c] = IdleGit],
         UNCHANGED <<gitConn, grant, gitIssued, accessCache, nonces, connected, gitCalls, compromised>>,
         UNCHANGED <<gitFaults, gitDoubt>> \/ (gitDoubt' = TRUE /\ gitFaults' \in 0 .. MaxGitFaults)
  PROVE  UserGitTypeOK' /\ GitCallsOK' /\ StatesOnce(gitCall', nonces', connected')
<1>1. /\ gitCall' \in [GitCall -> GitCallRow] /\ \A d \in GitCall : d # c => gitCall'[d] = gitCall[d]
      /\ gitCall'[c] = IdleGit \/ gitCall'[c] = [gitCall[c] EXCEPT !.pc = pc]
  <2>1. [gitCall[c] EXCEPT !.pc = pc] \in GitCallRow
    BY GitFacts DEF GitCallRow
  <2>2. QED
    BY <2>1, GitFacts, UserGitBounds
<1>2. UserGitTypeOK'
  BY <1>1 DEF UserGitInv, UserGitTypeOK
<1>3. CallOK(gitCall'[c], gitConn, grant, gitIssued, accessCache)
  <2>1. CASE gitCall'[c] = IdleGit
    BY <2>1, GitFacts, IdleCallOK
  <2>2. CASE gitCall'[c] = [gitCall[c] EXCEPT !.pc = pc]
    BY <2>2, GitFacts DEF CallOK, AccessStep, GitCallRow
  <2>3. QED
    BY <1>1, <2>1, <2>2
<1>4. gitCall'[c].row \in {gitCall[c].row, NoConnection} /\ gitCall'[c].pc \notin {"persist", "upsert", "exchange"}
  BY <1>1, GitFacts, UserGitBounds DEF GitCallRow
<1>5. \A d \in GitCall : d # c => PairOK(gitCall'[c], gitCall[d], gitConn) /\ PairOK(gitCall[d], gitCall'[c], gitConn)
  BY <1>1, <1>4, GitFacts, PairMoves
<1>6. GitCallsOK'
  BY <1>1, <1>2, <1>3, <1>5, GitFacts, CallsChange
<1>7. StatesOnce(gitCall', nonces', connected')
  <2>1. \A d \in GitCall, t \in AuthState : PendingIn(gitCall'[d], t) => PendingIn(gitCall[d], t)
    BY <1>1, <1>4 DEF PendingIn
  <2>2. QED
    BY <2>1, StatesStand DEF UserGitInv
<1>8. QED
  BY <1>2, <1>6, <1>7

LEMMA AccessFromCacheKeepsInv == ASSUME UserGitInv, NEW c \in GitCall, AccessFromCache(c) PROVE UserGitInv'
<1>1. /\ gitCall[c].pc = "cache"
      /\ UNCHANGED <<gitConn, grant, gitIssued, accessCache, nonces, connected, gitCalls, gitFaults, compromised, gitDoubt>>
      /\ gitCall' = [gitCall EXCEPT ![c].pc = "flight"] \/ gitCall' = [gitCall EXCEPT ![c] = IdleGit]
  BY DEF AccessFromCache, gitBoundsSame, GitGoto, GitReturn
<1>2. UserGitTypeOK' /\ GitCallsOK' /\ StatesOnce(gitCall', nonces', connected')
  BY <1>1, GoesOn DEF AccessStep
<1>3. /\ \A d \in GitCall : d # c => gitCall'[d] = gitCall[d]
      /\ gitCall'[c] = IdleGit \/ gitCall'[c] = [gitCall[c] EXCEPT !.pc = "flight"]
  BY <1>1, GitFacts
<1>4. DoubtlessOK'
  <2>1. SUFFICES ASSUME ~gitDoubt PROVE Doubtless(gitCall', gitConn, grant, accessCache) /\ ~compromised
    BY <1>1 DEF DoubtlessOK
  <2>2. Doubtless(gitCall, gitConn, grant, accessCache) /\ ~compromised
    BY <2>1 DEF DoubtlessOK, UserGitInv
  <2>3. gitCall[c].pc = "cache" /\ gitCall[c] \in GitCallRow
    BY <1>1, GitFacts
  <2>4. QED
    BY <1>3, <2>2, <2>3, UserGitBounds DEF Doubtless, AccessStep, FlightStep, GitCallRow
<1>5. QED
  BY <1>2, <1>4 DEF UserGitInv

LEMMA singleflightKeepsInv == ASSUME UserGitInv, NEW c \in GitCall, singleflight(c) PROVE UserGitInv'
<1>1. /\ gitCall[c].pc = "flight"
      /\ UNCHANGED <<gitConn, grant, gitIssued, accessCache, nonces, connected, gitCalls, gitFaults, compromised, gitDoubt>>
      /\ \/ gitCall' = [gitCall EXCEPT ![c].pc = "wait"]
         \/ gitCall' = [gitCall EXCEPT ![c] = IdleGit]
         \/ gitCall' = [gitCall EXCEPT ![c].pc = "refresh"] /\ ~inFlight(c) /\ ~cachedToken(gitCall[c].at, gitCall[c].row.id)
  BY DEF singleflight, gitBoundsSame, GitGoto, GitReturn
<1>2. UserGitTypeOK' /\ GitCallsOK' /\ StatesOnce(gitCall', nonces', connected')
  <2>1. CASE gitCall' = [gitCall EXCEPT ![c].pc = "wait"] \/ gitCall' = [gitCall EXCEPT ![c] = IdleGit]
    BY <1>1, <2>1, GoesOn DEF AccessStep
  <2>2. CASE gitCall' = [gitCall EXCEPT ![c].pc = "refresh"]
    BY <1>1, <2>2, GoesOn DEF AccessStep
  <2>3. QED
    BY <1>1, <2>1, <2>2
<1>3. /\ \A d \in GitCall : d # c => gitCall'[d] = gitCall[d]
      /\ \/ gitCall'[c] = IdleGit \/ gitCall'[c] = [gitCall[c] EXCEPT !.pc = "wait"]
         \/ gitCall'[c] = [gitCall[c] EXCEPT !.pc = "refresh"] /\ ~inFlight(c) /\ ~cachedToken(gitCall[c].at, gitCall[c].row.id)
  BY <1>1, GitFacts
<1>4. DoubtlessOK'
  <2>1. SUFFICES ASSUME ~gitDoubt PROVE Doubtless(gitCall', gitConn, grant, accessCache) /\ ~compromised
    BY <1>1 DEF DoubtlessOK
  <2>2. Doubtless(gitCall, gitConn, grant, accessCache) /\ ~compromised
    BY <2>1 DEF DoubtlessOK, UserGitInv
  <2>3. gitCall[c].pc = "flight" /\ gitCall[c] \in GitCallRow
    BY <1>1, GitFacts
  <2>4. CASE gitCall'[c] = IdleGit \/ gitCall'[c] = [gitCall[c] EXCEPT !.pc = "wait"]
    BY <1>3, <2>2, <2>3, <2>4, UserGitBounds DEF Doubtless, AccessStep, FlightStep, GitCallRow
  <2>5. CASE gitCall'[c] = [gitCall[c] EXCEPT !.pc = "refresh"] /\ ~inFlight(c) /\ ~cachedToken(gitCall[c].at, gitCall[c].row.id)
    <3>1. \A d \in GitCall : gitCall[d].pc \notin FlightStep
      <4>1. SUFFICES ASSUME NEW d \in GitCall, gitCall[d].pc \in FlightStep PROVE FALSE
        OBVIOUS
      <4>2. d # c /\ gitCall[d].pc # "idle" /\ gitCall[c].pc # "idle"
        BY <2>3, <4>1 DEF FlightStep
      <4>3. gitCall[d].at = gitCall[c].at /\ gitCall[d].row.id = gitCall[c].row.id
        BY <2>2, <2>3, <4>1, <4>2 DEF Doubtless, AccessStep, FlightStep
      <4>4. QED
        BY <2>5, <4>1, <4>2, <4>3 DEF inFlight, FlightStep
    <3>2. gitCall[c].row.refresh = gitConn.refresh
      BY <2>2, <2>3, <2>5, <3>1 DEF Doubtless, cachedToken, FlightStep
    <3>3. /\ gitCall'[c].pc = "refresh" /\ gitCall'[c].row = gitCall[c].row /\ gitCall'[c].op = gitCall[c].op
          /\ gitCall'[c].at = gitCall[c].at /\ gitCall'[c].new = gitCall[c].new
      BY <2>3, <2>5 DEF GitCallRow
    <3>4. QED
      BY <1>3, <2>2, <2>3, <3>1, <3>2, <3>3 DEF Doubtless, AccessStep, FlightStep
  <2>6. QED
    BY <1>3, <2>4, <2>5
<1>5. QED
  BY <1>2, <1>4 DEF UserGitInv

\* A refresh that the provider accepts leaves the token of the row behind; the call holds the new one.
LEMMA RotationFacts ==
  ASSUME UserGitInv, NEW c \in GitCall, ProviderRefresh(gitCall[c].row.refresh)
  PROVE  /\ gitIssued' = gitIssued + 1 /\ gitIssued' \in 0 .. MaxGitTokens
         /\ grant' = (grant \ {gitCall[c].row.refresh}) \cup {gitIssued + 1}
         /\ grant' \subseteq 1 .. gitIssued' /\ gitCall[c].row.refresh \in grant
         /\ \A g \in grant' : g \in grant \/ g = gitIssued + 1
         /\ grant' \subseteq GitToken
<1>1. gitIssued \in Nat /\ gitIssued < MaxGitTokens /\ grant \subseteq 1 .. gitIssued
  BY GitFacts DEF ProviderRefresh, Issues
<1>2. /\ gitIssued' = gitIssued + 1 /\ grant' = (grant \ {gitCall[c].row.refresh}) \cup {gitIssued + 1}
      /\ gitCall[c].row.refresh \in grant
  BY DEF ProviderRefresh, Issues
<1>3. grant' \subseteq 1 .. gitIssued' /\ gitIssued' \in 0 .. MaxGitTokens
  <2>1. gitIssued' \in 0 .. MaxGitTokens
    BY <1>1, <1>2, UserGitAssumption
  <2>2. SUFFICES ASSUME NEW g \in grant' PROVE g \in 1 .. gitIssued'
    BY <2>1
  <2>3. g \in 1 .. gitIssued \/ g = gitIssued + 1
    BY <1>1, <1>2
  <2>4. QED
    BY <1>1, <1>2, <2>3
<1>4. grant' \subseteq GitToken
  BY <1>3, UserGitAssumption DEF GitToken
<1>5. QED
  BY <1>2, <1>3, <1>4

LEMMA refreshKeepsInv == ASSUME UserGitInv, NEW c \in GitCall, refresh(c) PROVE UserGitInv'
<1>1. /\ gitCall[c].pc = "refresh" /\ gitCall[c] \in GitCallRow
      /\ UNCHANGED <<gitConn, accessCache, nonces, connected, compromised, gitCalls>>
  BY GitFacts DEF refresh, gitBoundsSame, GitFault, ErrGrantInvalid
<1>a. CASE (GitFault /\ UNCHANGED gitCalls) /\ GitGoto(c, "wipe") /\ UNCHANGED <<grant, gitIssued>>
  <2>1. gitDoubt' = TRUE /\ gitFaults' \in 0 .. MaxGitFaults
    BY <1>a, UserGitAssumption DEF GitFault, UserGitInv, UserGitTypeOK
  <2>2. UserGitTypeOK' /\ GitCallsOK' /\ StatesOnce(gitCall', nonces', connected')
    BY <1>1, <1>a, <2>1, GoesOn DEF AccessStep, GitGoto
  <2>3. QED
    BY <1>1, <2>1, <2>2 DEF UserGitInv, DoubtlessOK
<1>2. CASE gitCall[c].row.refresh \notin grant /\ gitBoundsSame /\ GitGoto(c, "wipe") /\ UNCHANGED <<grant, gitIssued>>
  <2>1. UserGitTypeOK' /\ GitCallsOK' /\ StatesOnce(gitCall', nonces', connected')
    BY <1>1, <1>2, GoesOn DEF AccessStep, GitGoto, gitBoundsSame
  <2>2. gitDoubt
    <3>1. SUFFICES ASSUME ~gitDoubt PROVE FALSE
      OBVIOUS
    <3>2. Doubtless(gitCall, gitConn, grant, accessCache)
      BY <3>1 DEF DoubtlessOK, UserGitInv
    <3>3. gitCall[c].row.refresh = gitConn.refresh /\ gitCall[c].row.id = gitConn.id
      BY <1>1, <3>2 DEF Doubtless, AccessStep
    <3>4. gitConn.id >= 1
      BY <1>1, <3>3, GitFacts DEF CallOK, AccessStep
    <3>5. \A d \in GitCall : gitCall[d].pc \notin {"persist", "delete"}
      <4>1. SUFFICES ASSUME NEW d \in GitCall, gitCall[d].pc \in {"persist", "delete"} PROVE FALSE
        OBVIOUS
      <4>2. d # c /\ gitCall[d].pc # "idle" /\ gitCall[c].pc # "idle"
        BY <1>1, <4>1
      <4>3. gitCall[d].op = "access"
        BY <3>2, <4>2 DEF Doubtless
      <4>4. gitCall[d].pc = "persist"
        BY <4>1, <4>3, GitFacts DEF CallOK
      <4>5. QED
        BY <1>1, <3>2, <4>2, <4>4 DEF Doubtless, FlightStep
    <3>6. QED
      BY <1>2, <3>2, <3>3, <3>4, <3>5 DEF Doubtless
  <2>3. QED
    BY <1>1, <1>2, <2>1, <2>2 DEF UserGitInv, DoubtlessOK, gitBoundsSame
<1>3. CASE /\ ProviderRefresh(gitCall[c].row.refresh) /\ gitBoundsSame
           /\ gitCall' = [gitCall EXCEPT ![c].pc = "persist", ![c].new = gitIssued + 1]
  <2>0. UNCHANGED <<gitDoubt, gitFaults>>
    BY <1>3 DEF gitBoundsSame
  <2> DEFINE r2 == [gitCall[c] EXCEPT !.pc = "persist", !.new = gitIssued + 1]
  <2>1. /\ gitIssued' = gitIssued + 1 /\ gitIssued' \in 0 .. MaxGitTokens /\ gitIssued \in Nat
        /\ grant' = (grant \ {gitCall[c].row.refresh}) \cup {gitIssued + 1}
        /\ grant' \subseteq 1 .. gitIssued' /\ gitCall[c].row.refresh \in grant
        /\ \A g \in grant' : g \in grant \/ g = gitIssued + 1
        /\ grant' \subseteq GitToken
    BY <1>3, RotationFacts, GitFacts
  <2>2. /\ r2 \in GitCallRow /\ r2.pc = "persist" /\ r2.new = gitIssued + 1 /\ r2.row = gitCall[c].row
        /\ r2.op = gitCall[c].op /\ r2.at = gitCall[c].at /\ r2.state = gitCall[c].state
    BY <1>1, <2>1 DEF GitCallRow
  <2>3. gitCall' = [gitCall EXCEPT ![c] = r2] /\ gitCall'[c] = r2 /\ \A d \in GitCall : d # c => gitCall'[d] = gitCall[d]
    BY <1>3, GitFacts
  <2> HIDE DEF r2
  <2>4. UserGitTypeOK'
    BY <1>1, <2>0, <2>1, <2>2, <2>3 DEF UserGitInv, UserGitTypeOK
  <2>5. CallOK(r2, gitConn, grant', gitIssued', accessCache)
    BY <1>1, <2>1, <2>2, GitFacts, UserGitBounds DEF CallOK, AccessStep, TokensOK
  <2>6. \A d \in GitCall : d # c => PairOK(r2, gitCall[d], gitConn) /\ PairOK(gitCall[d], r2, gitConn)
    <3>1. SUFFICES ASSUME NEW d \in GitCall, d # c PROVE PairOK(r2, gitCall[d], gitConn) /\ PairOK(gitCall[d], r2, gitConn)
      OBVIOUS
    <3>2. PairOK(gitCall[c], gitCall[d], gitConn) /\ PairOK(gitCall[d], gitCall[c], gitConn)
      BY <3>1, GitFacts
    <3>3. ~(gitCall[d].pc = "persist" /\ gitCall[d].row.id = gitConn.id /\ gitCall[c].row.id = gitConn.id)
      <4>1. CallOK(gitCall[d], gitConn, grant, gitIssued, accessCache) /\ CallOK(gitCall[c], gitConn, grant, gitIssued, accessCache)
        BY GitFacts
      <4>2. gitCall[c].row.id >= 1
        BY <1>1, <4>1 DEF CallOK, AccessStep
      <4>3. gitConn.refresh \in Nat /\ gitCall[c].row.refresh \in Nat
        BY <1>1, GitFacts, UserGitBounds
      <4>4. QED
        BY <2>1, <4>1, <4>2, <4>3 DEF CallOK
    <3>4. QED
      BY <2>2, <3>2, <3>3 DEF PairOK
  <2>7. GitCallsOK'
    <3>1. gitConn' = gitConn /\ accessCache' = accessCache /\ gitIssued <= gitIssued'
      BY <1>1, <2>1
    <3>2. CallOK(gitCall'[c], gitConn', grant', gitIssued', accessCache')
      BY <2>3, <2>5, <3>1
    <3>3. \A d \in GitCall : d # c => gitCall'[d] \in {gitCall[d], IdleGit}
      BY <2>3
    <3>4. \A d \in GitCall : d # c => PairOK(gitCall'[c], gitCall[d], gitConn) /\ PairOK(gitCall[d], gitCall'[c], gitConn)
      BY <2>3, <2>6
    <3>5. gitConn' \in {gitConn, NoConnection} /\ \A s \in GitServer : accessCache'[s] \subseteq accessCache[s]
      BY <3>1
    <3>6. grant' \subseteq 1 .. gitIssued' /\ \A g \in grant' : g \in grant \/ g = gitIssued + 1
      BY <2>1
    <3>7. QED
      BY <2>4, <3>1, <3>2, <3>3, <3>4, <3>5, <3>6, CallsChange
  <2>8. StatesOnce(gitCall', nonces', connected')
    <3>1. \A d \in GitCall, t \in AuthState : PendingIn(gitCall'[d], t) => PendingIn(gitCall[d], t)
      BY <2>2, <2>3 DEF PendingIn
    <3>2. QED
      BY <1>1, <3>1, StatesStand DEF UserGitInv
  <2>9. DoubtlessOK'
    <3>1. SUFFICES ASSUME ~gitDoubt PROVE Doubtless(gitCall', gitConn, grant', accessCache) /\ ~compromised
      BY <1>1, <2>0 DEF DoubtlessOK
    <3>2. Doubtless(gitCall, gitConn, grant, accessCache) /\ ~compromised
      BY <3>1 DEF DoubtlessOK, UserGitInv
    <3>3. \A d \in GitCall : d # c => gitCall[d].pc \notin FlightStep
      BY <1>1, <3>2 DEF Doubtless, FlightStep
    <3>4. \A d \in GitCall : d # c => gitCall[d].pc \notin {"upsert", "delete"}
      <4>1. SUFFICES ASSUME NEW d \in GitCall, d # c, gitCall[d].pc \in {"upsert", "delete"} PROVE FALSE
        OBVIOUS
      <4>2. gitCall[d].op = "access"
        BY <1>1, <3>2, <4>1 DEF Doubtless
      <4>3. QED
        BY <4>1, <4>2, GitFacts DEF CallOK
    <3>5. QED
      BY <1>1, <2>1, <2>2, <2>3, <3>2, <3>3, <3>4 DEF Doubtless, AccessStep, FlightStep
  <2>10. QED
    BY <2>4, <2>7, <2>8, <2>9 DEF UserGitInv
<1>4. QED
  BY <1>a, <1>2, <1>3 DEF refresh, ErrGrantInvalid

\* A flight that ends ends its call and those that wait for it.
LEMMA FlightReturnsFacts ==
  ASSUME UserGitInv, NEW c \in GitCall, FlightReturns(c)
  PROVE  /\ gitCall' \in [GitCall -> GitCallRow] /\ gitCall'[c] = IdleGit
         /\ \A d \in GitCall : gitCall'[d] \in {gitCall[d], IdleGit}
         /\ \A d \in GitCall, t \in AuthState : PendingIn(gitCall'[d], t) => PendingIn(gitCall[d], t)
         /\ \A d \in GitCall : d # c /\ gitCall[d].pc # "wait" => gitCall'[d] = gitCall[d]
BY GitFacts, UserGitBounds DEF FlightReturns, PendingIn

\* A flight ends with the connection as it is or gone, and tokens as they are or issued.
LEMMA FlightEnds ==
  ASSUME UserGitInv, NEW c \in GitCall, FlightReturns(c), UserGitTypeOK',
         gitConn' \in {gitConn, NoConnection}, gitIssued <= gitIssued', grant' \subseteq 1 .. gitIssued',
         \A g \in grant' : g \in grant \/ g = gitIssued + 1,
         \A s \in GitServer : accessCache'[s] \subseteq accessCache[s], UNCHANGED <<nonces, connected>>
  PROVE  GitCallsOK' /\ StatesOnce(gitCall', nonces', connected')
<1>1. /\ gitCall'[c] = IdleGit /\ \A d \in GitCall : gitCall'[d] \in {gitCall[d], IdleGit}
      /\ \A d \in GitCall, t \in AuthState : PendingIn(gitCall'[d], t) => PendingIn(gitCall[d], t)
  BY FlightReturnsFacts
<1>2. CallOK(gitCall'[c], gitConn', grant', gitIssued', accessCache')
  BY <1>1, IdleCallOK, UserGitBounds DEF UserGitTypeOK
<1>3. \A d \in GitCall : d # c => PairOK(gitCall'[c], gitCall[d], gitConn) /\ PairOK(gitCall[d], gitCall'[c], gitConn)
  BY <1>1, GitFacts, IdlePairOK
<1>4. GitCallsOK'
  BY <1>1, <1>2, <1>3, CallsChange
<1>5. QED
  BY <1>1, <1>4, StatesStand DEF UserGitInv

\* The rotated token is written: the connection moves on, and what rests on the one before stays behind.
LEMMA PersistsRow ==
  ASSUME UserGitInv, NEW c \in GitCall, gitCall[c].pc = "persist",
         UpdateRefreshToken(gitCall[c].row, gitCall[c].new), GitGoto(c, "keep"),
         UNCHANGED <<grant, gitIssued, accessCache, nonces, connected, compromised>>, gitBoundsSame
  PROVE  UserGitInv'
<1> DEFINE r == gitCall[c]
           r2 == [gitCall[c] EXCEPT !.pc = "keep"]
<1>1. /\ r \in GitCallRow /\ gitConn \in EncryptedRow /\ gitConn.id = r.row.id
      /\ gitConn' = [gitConn EXCEPT !.refresh = r.new] /\ r.row.id >= 1 /\ r.new > gitConn.refresh
      /\ gitConn.refresh \notin grant /\ r.new \in Nat /\ r.new <= gitIssued /\ gitConn.refresh \in Nat /\ gitConn.id \in Nat
      /\ gitIssued \in Nat
  BY GitFacts, UserGitBounds DEF UpdateRefreshToken, CallOK, AccessStep
<1>2. /\ gitConn' \in EncryptedRow /\ gitConn'.id = gitConn.id /\ gitConn'.refresh = r.new
  BY <1>1 DEF EncryptedRow, GitCallRow
<1>3. /\ r2 \in GitCallRow /\ r2.pc = "keep" /\ r2.new = r.new /\ r2.row = r.row
      /\ r2.op = r.op /\ r2.at = r.at /\ r2.state = r.state
  BY <1>1 DEF GitCallRow
<1>4. gitCall' = [gitCall EXCEPT ![c] = r2] /\ gitCall'[c] = r2 /\ \A d \in GitCall : d # c => gitCall'[d] = gitCall[d]
  BY GitFacts DEF GitGoto
<1> HIDE DEF r2
<1>5. UserGitTypeOK'
  BY <1>2, <1>3, <1>4 DEF UserGitInv, UserGitTypeOK, gitBoundsSame
<1>6. TokensOK(gitConn', grant, gitIssued, accessCache)
  <2>1. TokensOK(gitConn, grant, gitIssued, accessCache) /\ accessCache \in [GitServer -> SUBSET cachedAccess]
    BY GitFacts
  <2>2. \A s \in GitServer : \A e \in accessCache[s] : e.minted \in Nat
    BY <2>1, UserGitAssumption DEF cachedAccess, GitToken
  <2>3. \A s \in GitServer : \A e \in accessCache[s] : e.id = gitConn.id => e.minted <= r.new
    BY <1>1, <2>1, <2>2 DEF TokensOK
  <2>4. QED
    BY <1>1, <1>2, <2>1, <2>3 DEF TokensOK
<1>7. \A d \in GitCall : CallOK(gitCall'[d], gitConn', grant, gitIssued, accessCache)
  <2>1. SUFFICES ASSUME NEW d \in GitCall PROVE CallOK(gitCall'[d], gitConn', grant, gitIssued, accessCache)
    OBVIOUS
  <2>2. CallOK(gitCall[d], gitConn, grant, gitIssued, accessCache) /\ gitCall[d] \in GitCallRow
    BY GitFacts
  <2>3. gitCall[d].row.refresh \in Nat /\ gitCall[d].row.id \in Nat /\ gitCall[d].new \in Nat
    BY <2>2, UserGitBounds
  <2>4. CASE d = c
    BY <1>1, <1>2, <1>3, <1>4, <2>2, <2>3, <2>4 DEF CallOK, AccessStep
  <2>5. CASE d # c
    <3>1. ~(gitCall[d].pc = "persist" /\ gitCall[d].row.id = gitConn.id)
      BY <1>1, <2>5, GitFacts DEF PairOK
    <3>2. QED
      BY <1>1, <1>2, <1>4, <2>2, <2>3, <2>5, <3>1 DEF CallOK
  <2>6. QED
    BY <2>4, <2>5
<1>8. \A d, e \in GitCall : d # e => PairOK(gitCall'[d], gitCall'[e], gitConn')
  <2>1. \A d, e \in GitCall : d # e => PairOK(gitCall[d], gitCall[e], gitConn)
    BY DEF UserGitInv, GitCallsOK
  <2>2. QED
    BY <1>2, <1>3, <1>4, <2>1 DEF PairOK
<1>9. GitCallsOK'
  BY <1>6, <1>7, <1>8 DEF GitCallsOK
<1>10. StatesOnce(gitCall', nonces', connected')
  <2>1. \A d \in GitCall, t \in AuthState : PendingIn(gitCall'[d], t) => PendingIn(gitCall[d], t)
    BY <1>3, <1>4 DEF PendingIn
  <2>2. QED
    BY <2>1, StatesStand DEF UserGitInv
<1>11. DoubtlessOK'
  <2>1. SUFFICES ASSUME ~gitDoubt PROVE Doubtless(gitCall', gitConn', grant, accessCache) /\ ~compromised
    BY DEF DoubtlessOK, gitBoundsSame
  <2>2. Doubtless(gitCall, gitConn, grant, accessCache) /\ ~compromised
    BY <2>1 DEF DoubtlessOK, UserGitInv
  <2>3. \A d \in GitCall : d # c => gitCall[d].pc \notin FlightStep
    BY <2>2 DEF Doubtless, FlightStep
  <2>4. QED
    BY <1>1, <1>2, <1>3, <1>4, <2>2, <2>3 DEF Doubtless, AccessStep, FlightStep
<1>12. QED
  BY <1>5, <1>9, <1>10, <1>11 DEF UserGitInv

LEMMA refreshPersistsKeepsInv == ASSUME UserGitInv, NEW c \in GitCall, refreshPersists(c) PROVE UserGitInv'
<1>1. CASE UpdateRefreshToken(gitCall[c].row, gitCall[c].new) /\ GitGoto(c, "keep")
  BY <1>1, PersistsRow DEF refreshPersists
<1>2. CASE gitConn.id # gitCall[c].row.id /\ FlightReturns(c) /\ UNCHANGED gitConn
  <2>1. UNCHANGED <<grant, gitIssued, accessCache, nonces, connected, compromised, gitDoubt, gitCalls, gitFaults>>
    BY DEF refreshPersists, gitBoundsSame
  <2>2. UserGitTypeOK'
    BY <1>2, <2>1, FlightReturnsFacts DEF UserGitInv, UserGitTypeOK
  <2>3. gitIssued <= gitIssued' /\ grant' \subseteq 1 .. gitIssued'
    BY <2>1, GitFacts
  <2>4. GitCallsOK' /\ StatesOnce(gitCall', nonces', connected')
    BY <1>2, <2>1, <2>2, <2>3, FlightEnds
  <2>5. gitDoubt
    <3>1. gitCall[c].pc = "persist"
      BY DEF refreshPersists
    <3>2. QED
      BY <1>2, <3>1 DEF UserGitInv, DoubtlessOK, Doubtless, AccessStep
  <2>6. QED
    BY <2>1, <2>2, <2>4, <2>5 DEF UserGitInv, DoubtlessOK
<1>3. QED
  BY <1>1, <1>2 DEF refreshPersists

LEMMA refreshKeepsKeepsInv == ASSUME UserGitInv, NEW c \in GitCall, refreshKeeps(c) PROVE UserGitInv'
<1> DEFINE r == gitCall[c]
           entry == [id |-> r.row.id, minted |-> r.new]
<1>1. /\ r.pc = "keep" /\ FlightReturns(c)
      /\ accessCache' = [accessCache EXCEPT ![r.at] = {e \in @ : e.id # r.row.id} \cup {entry}]
      /\ UNCHANGED <<gitConn, grant, gitIssued, nonces, connected, compromised, gitDoubt, gitCalls, gitFaults>>
  BY DEF refreshKeeps, gitBoundsSame
<1>2. /\ r \in GitCallRow /\ r.row.id >= 1 /\ r.new >= 1 /\ r.row.id \in Nat /\ r.new \in Nat /\ r.row.id <= gitIssued
      /\ r.at \in GitServer /\ (r.row.id = gitConn.id => r.new <= gitConn.refresh)
      /\ accessCache \in [GitServer -> SUBSET cachedAccess]
  BY <1>1, GitFacts, UserGitBounds DEF CallOK, AccessStep
<1>3. entry \in cachedAccess
  BY <1>2, UserGitAssumption DEF cachedAccess, GitToken, GitCallRow, EncryptedRow
<1>4. /\ accessCache' \in [GitServer -> SUBSET cachedAccess]
      /\ \A s \in GitServer : \A e \in accessCache'[s] : e \in accessCache[s] \/ e = entry
      /\ \E e \in accessCache'[r.at] : e.id = r.row.id
      /\ \A s \in GitServer : \A e \in accessCache[s] : \E f \in accessCache'[s] : f.id = e.id
  BY <1>1, <1>2, <1>3
<1>5. /\ gitCall' \in [GitCall -> GitCallRow] /\ gitCall'[c] = IdleGit
      /\ \A d \in GitCall : gitCall'[d] \in {gitCall[d], IdleGit}
      /\ \A d \in GitCall, t \in AuthState : PendingIn(gitCall'[d], t) => PendingIn(gitCall[d], t)
  BY <1>1, FlightReturnsFacts
<1>6. UserGitTypeOK'
  BY <1>1, <1>4, <1>5 DEF UserGitInv, UserGitTypeOK
<1>7. TokensOK(gitConn', grant', gitIssued', accessCache')
  BY <1>1, <1>2, <1>4, GitFacts DEF TokensOK
<1>8. \A d \in GitCall : CallOK(gitCall'[d], gitConn', grant', gitIssued', accessCache')
  <2>1. SUFFICES ASSUME NEW d \in GitCall PROVE CallOK(gitCall'[d], gitConn', grant', gitIssued', accessCache')
    OBVIOUS
  <2>2. CASE gitCall'[d] = IdleGit
    BY <1>1, <2>2, IdleCallOK, GitFacts
  <2>3. CASE gitCall'[d] = gitCall[d] /\ d # c
    <3>1. gitCall[d].pc = "upsert" => entry.id # gitCall[d].new
      BY <2>3, GitFacts DEF PairOK
    <3>2. CallOK(gitCall[d], gitConn, grant, gitIssued, accessCache)
      BY GitFacts
    <3>3. QED
      BY <1>1, <1>4, <2>3, <3>1, <3>2 DEF CallOK
  <2>4. QED
    BY <1>5, <2>2, <2>3
<1>9. \A d, e \in GitCall : d # e => PairOK(gitCall'[d], gitCall'[e], gitConn')
  <2>1. SUFFICES ASSUME NEW d \in GitCall, NEW e \in GitCall, d # e PROVE PairOK(gitCall'[d], gitCall'[e], gitConn)
    BY <1>1
  <2>2. PairOK(gitCall[d], gitCall[e], gitConn) /\ gitCall[d] \in GitCallRow /\ gitCall[e] \in GitCallRow
    BY <2>1, GitFacts
  <2>3. (gitCall[d].pc = "upsert" => gitCall[d].new >= 1) /\ (gitCall[e].pc = "upsert" => gitCall[e].new >= 1)
    BY GitFacts
  <2>4. QED
    BY <1>5, <2>2, <2>3, IdlePairOK, UserGitBounds
<1>10. GitCallsOK'
  BY <1>7, <1>8, <1>9 DEF GitCallsOK
<1>11. DoubtlessOK'
  <2>1. SUFFICES ASSUME ~gitDoubt PROVE Doubtless(gitCall', gitConn, grant, accessCache') /\ ~compromised
    BY <1>1 DEF DoubtlessOK
  <2>2. Doubtless(gitCall, gitConn, grant, accessCache) /\ ~compromised
    BY <2>1 DEF DoubtlessOK, UserGitInv
  <2>3. \A d \in GitCall : gitCall'[d].pc # "idle" => d # c /\ gitCall'[d] = gitCall[d]
    BY <1>5, UserGitBounds
  <2>4. \A d \in GitCall : d # c => gitCall[d].pc \notin FlightStep
    BY <1>1, <2>2 DEF Doubtless, FlightStep
  <2>5. \A d \in GitCall : gitCall'[d].pc \in {"cache", "flight"} => \E e \in accessCache'[gitCall'[d].at] : e.id = gitCall'[d].row.id
    <3>1. SUFFICES ASSUME NEW d \in GitCall, gitCall'[d].pc \in {"cache", "flight"}
                   PROVE  \E e \in accessCache'[gitCall'[d].at] : e.id = gitCall'[d].row.id
      OBVIOUS
    <3>2. d # c /\ gitCall'[d] = gitCall[d] /\ gitCall[d].pc # "idle" /\ gitCall[c].pc # "idle"
      BY <1>1, <2>3, <3>1
    <3>3. gitCall[d].at = r.at /\ gitCall[d].row.id = gitConn.id /\ r.row.id = gitConn.id
      BY <1>1, <2>2, <3>1, <3>2 DEF Doubtless, AccessStep
    <3>4. QED
      BY <1>4, <3>2, <3>3
  <2>6. \A d \in GitCall : gitCall[d].pc # "delete"
    <3>1. SUFFICES ASSUME NEW d \in GitCall, gitCall[d].pc = "delete" PROVE FALSE
      OBVIOUS
    <3>2. gitCall[d].op = "access"
      BY <1>1, <2>2, <3>1 DEF Doubtless
    <3>3. QED
      BY <3>1, <3>2, GitFacts DEF CallOK
  <2>7. gitConn.id >= 1 => gitConn.refresh \in grant
    BY <1>1, <2>2, <2>4, <2>6 DEF Doubtless, FlightStep
  <2>8. QED
    BY <1>5, <2>2, <2>3, <2>4, <2>5, <2>7 DEF Doubtless, AccessStep, FlightStep
<1>12. QED
  BY <1>1, <1>5, <1>6, <1>10, <1>11, StatesStand DEF UserGitInv

LEMMA compromiseKeepsInv == ASSUME UserGitInv, NEW c \in GitCall, compromise(c) PROVE UserGitInv'
<1>1. /\ gitCall[c].pc = "wipe" /\ FlightReturns(c) /\ dropCache(gitCall[c].at, gitCall[c].row.id)
      /\ UNCHANGED <<grant, gitIssued, nonces, connected>> /\ gitCalls' = gitCalls
      /\ gitConn' \in {gitConn, NoConnection} /\ (gitDoubt => gitDoubt')
  BY DEF compromise, DeleteRow, gitBoundsSame, GitFault
<1>a. compromised' \in BOOLEAN /\ gitDoubt' \in BOOLEAN
  BY DEF compromise, gitBoundsSame, GitFault, UserGitInv, UserGitTypeOK
<1>b. gitFaults' \in 0 .. MaxGitFaults
  BY UserGitAssumption DEF compromise, gitBoundsSame, GitFault, UserGitInv, UserGitTypeOK
<1>2. gitDoubt
  BY <1>1 DEF UserGitInv, DoubtlessOK, Doubtless
<1>3. \A s \in GitServer : accessCache'[s] \subseteq accessCache[s]
  BY <1>1, GitFacts DEF dropCache
<1>4. accessCache' \in [GitServer -> SUBSET cachedAccess]
  BY <1>1, GitFacts DEF dropCache
<1>5. UserGitTypeOK'
  BY <1>1, <1>4, <1>a, <1>b, FlightReturnsFacts, UserGitBounds DEF UserGitInv, UserGitTypeOK
<1>6. gitIssued <= gitIssued' /\ grant' \subseteq 1 .. gitIssued'
  BY <1>1, GitFacts
<1>7. GitCallsOK' /\ StatesOnce(gitCall', nonces', connected')
  BY <1>1, <1>3, <1>5, <1>6, FlightEnds
<1>8. QED
  BY <1>1, <1>2, <1>5, <1>7 DEF UserGitInv, DoubtlessOK

LEMMA RefreshFailsKeepsInv == ASSUME UserGitInv, NEW c \in GitCall, RefreshFails(c) PROVE UserGitInv'
<1>1. /\ FlightReturns(c) /\ UNCHANGED <<gitConn, accessCache, nonces, connected, compromised, gitCalls>>
      /\ gitDoubt' = TRUE /\ gitFaults' \in 0 .. MaxGitFaults
  BY UserGitAssumption DEF RefreshFails, GitFault, UserGitInv, UserGitTypeOK
<1>2. UNCHANGED <<grant, gitIssued>> \/ ProviderRefresh(gitCall[c].row.refresh)
  BY DEF RefreshFails
<1>3. /\ gitIssued <= gitIssued' /\ gitIssued' \in 0 .. MaxGitTokens /\ grant' \subseteq 1 .. gitIssued' /\ grant' \subseteq GitToken
      /\ \A g \in grant' : g \in grant \/ g = gitIssued + 1
  <2>1. CASE UNCHANGED <<grant, gitIssued>>
    BY <2>1, GitFacts DEF UserGitInv, UserGitTypeOK
  <2>2. CASE ProviderRefresh(gitCall[c].row.refresh)
    BY <2>2, RotationFacts, GitFacts
  <2>3. QED
    BY <1>2, <2>1, <2>2
<1>4. UserGitTypeOK'
  BY <1>1, <1>3, FlightReturnsFacts DEF UserGitInv, UserGitTypeOK
<1>5. GitCallsOK' /\ StatesOnce(gitCall', nonces', connected')
  BY <1>1, <1>3, <1>4, FlightEnds
<1>6. QED
  BY <1>1, <1>4, <1>5 DEF UserGitInv, DoubtlessOK

LEMMA AccessExpiresKeepsInv == ASSUME UserGitInv, NEW s \in GitServer, AccessExpires(s) PROVE UserGitInv'
<1>1. /\ UNCHANGED <<gitConn, grant, gitIssued, gitCall, nonces, connected, compromised, gitDoubt, gitCalls, gitFaults>>
      /\ \A c \in GitCall : gitCall[c].pc = "idle" \/ gitCall[c].at # s
      /\ accessCache' = [accessCache EXCEPT ![s] = {}]
  BY DEF AccessExpires, gitBoundsSame, gitBusy
<1>2. /\ accessCache' \in [GitServer -> SUBSET cachedAccess]
      /\ \A q \in GitServer : accessCache'[q] \subseteq accessCache[q] /\ (q # s => accessCache'[q] = accessCache[q])
  BY <1>1 DEF UserGitInv, UserGitTypeOK
<1>3. UserGitTypeOK'
  BY <1>1, <1>2 DEF UserGitInv, UserGitTypeOK
<1>4. GitCallsOK'
  BY <1>1, <1>2 DEF UserGitInv, GitCallsOK, TokensOK, CallOK
<1>5. DoubtlessOK'
  <2>1. SUFFICES ASSUME ~gitDoubt PROVE Doubtless(gitCall, gitConn, grant, accessCache') /\ ~compromised
    BY <1>1 DEF DoubtlessOK
  <2>2. Doubtless(gitCall, gitConn, grant, accessCache) /\ ~compromised
    BY <2>1 DEF DoubtlessOK, UserGitInv
  <2>3. \A c \in GitCall : gitCall[c].pc \in {"cache", "flight"} => accessCache'[gitCall[c].at] = accessCache[gitCall[c].at]
    BY <1>1, <1>2, GitFacts, UserGitBounds
  <2>4. QED
    BY <2>2, <2>3 DEF Doubtless
<1>6. QED
  BY <1>1, <1>3, <1>4, <1>5 DEF UserGitInv, StatesOnce

\* A call that is not an access runs alone, unless something may have gone wrong.
LEMMA AloneUnlessAccess ==
  ASSUME UserGitInv, ~gitDoubt, NEW c \in GitCall, gitCall[c].pc \in {"exchange", "upsert", "revoke", "delete", "forget"}
  PROVE  \A d \in GitCall : d # c => gitCall[d].pc = "idle"
<1>1. SUFFICES ASSUME NEW d \in GitCall, d # c, gitCall[d].pc # "idle" PROVE FALSE
  OBVIOUS
<1>2. gitCall[c].op = "access"
  BY <1>1 DEF UserGitInv, DoubtlessOK, Doubtless
<1>3. QED
  BY <1>2, GitFacts DEF CallOK

\* A call begins: it was idle, and whoever else runs is of the same replica and wants access too.
LEMMA BeginsFacts ==
  ASSUME UserGitInv, NEW c \in GitCall, NEW call \in GitCallRow, GitBegins(c, call)
  PROVE  /\ gitCall[c] = IdleGit /\ gitCall' = [gitCall EXCEPT ![c] = call] /\ gitCalls' \in 0 .. MaxGitCalls
         /\ gitCall' \in [GitCall -> GitCallRow] /\ gitCall'[c] = call
         /\ \A d \in GitCall : d # c => gitCall'[d] = gitCall[d]
         /\ gitDoubt' \in BOOLEAN
         /\ ~gitDoubt' => /\ ~gitDoubt
                          /\ \A d \in GitCall : gitCall[d].pc # "idle" =>
                                gitCall[d].op = "access" /\ call.op = "access" /\ gitCall[d].at = call.at
<1>1. gitCall[c].pc = "idle" /\ gitCall' = [gitCall EXCEPT ![c] = call] /\ gitCalls < MaxGitCalls /\ gitCalls' = gitCalls + 1
  BY DEF GitBegins, gitBusy
<1>2. gitCalls' \in 0 .. MaxGitCalls
  BY <1>1, UserGitAssumption DEF UserGitInv, UserGitTypeOK
<1>3. gitCall[c] = IdleGit
  BY <1>1, GitFacts DEF CallOK
<1>4. gitDoubt' \in BOOLEAN
  BY DEF GitBegins, UserGitInv, UserGitTypeOK
<1>5. ~gitDoubt' => /\ ~gitDoubt
                    /\ \A d \in GitCall : gitCall[d].pc # "idle" =>
                          gitCall[d].op = "access" /\ call.op = "access" /\ gitCall[d].at = call.at
  BY DEF GitBegins, gitBusy
<1>6. QED
  BY <1>1, <1>2, <1>3, <1>4, <1>5, GitFacts

\* A call begins on the connection of the moment.
LEMMA BeginsOnRow ==
  ASSUME UserGitInv, NEW c \in GitCall, NEW call \in GitCallRow, GitBegins(c, call),
         call.row = gitConn, gitConn.id >= 1, call.new = 0,
         (call.pc = "cache" /\ call.op = "access") \/ (call.pc = "revoke" /\ call.op = "disconnect"),
         UNCHANGED <<gitConn, grant, gitIssued, accessCache, nonces, connected, compromised, gitFaults>>
  PROVE  UserGitInv'
<1>1. /\ gitCall[c] = IdleGit /\ gitCall' \in [GitCall -> GitCallRow] /\ gitCall'[c] = call /\ gitDoubt' \in BOOLEAN
      /\ \A d \in GitCall : d # c => gitCall'[d] = gitCall[d]
      /\ gitCalls' \in 0 .. MaxGitCalls
      /\ ~gitDoubt' => /\ ~gitDoubt
                       /\ \A d \in GitCall : gitCall[d].pc # "idle" =>
                             gitCall[d].op = "access" /\ call.op = "access" /\ gitCall[d].at = call.at
  BY BeginsFacts
<1>2. UserGitTypeOK'
  BY <1>1 DEF UserGitInv, UserGitTypeOK
<1>3. CallOK(call, gitConn, grant, gitIssued, accessCache)
  BY GitFacts, UserGitBounds DEF CallOK, AccessStep, TokensOK
<1>4. \A d \in GitCall : d # c => PairOK(call, gitCall[d], gitConn) /\ PairOK(gitCall[d], call, gitConn)
  <2>1. SUFFICES ASSUME NEW d \in GitCall, d # c PROVE PairOK(call, gitCall[d], gitConn) /\ PairOK(gitCall[d], call, gitConn)
    OBVIOUS
  <2>2. CallOK(gitCall[d], gitConn, grant, gitIssued, accessCache)
    BY GitFacts
  <2>3. QED
    BY <2>2 DEF PairOK, CallOK
<1>5. GitCallsOK'
  <2>1. grant' \subseteq 1 .. gitIssued' /\ gitIssued <= gitIssued'
    BY GitFacts
  <2>2. QED
    BY <1>1, <1>2, <1>3, <1>4, <2>1, CallsChange
<1>6. StatesOnce(gitCall', nonces', connected')
  <2>1. \A d \in GitCall, t \in AuthState : PendingIn(gitCall'[d], t) => PendingIn(gitCall[d], t)
    BY <1>1 DEF PendingIn
  <2>2. QED
    BY <2>1, StatesStand DEF UserGitInv
<1>7. DoubtlessOK'
  <2>1. SUFFICES ASSUME ~gitDoubt' PROVE Doubtless(gitCall', gitConn, grant, accessCache) /\ ~compromised
    BY DEF DoubtlessOK
  <2>2. Doubtless(gitCall, gitConn, grant, accessCache) /\ ~compromised
    BY <1>1, <2>1 DEF DoubtlessOK, UserGitInv
  <2>3. gitConn.refresh = call.row.refresh /\ gitCall[c].pc = "idle"
    BY <1>1, UserGitBounds
  <2>4. (\A d \in GitCall : gitCall'[d].pc \notin {"persist", "delete"}) => \A d \in GitCall : gitCall[d].pc \notin {"persist", "delete"}
    BY <1>1, <2>3
  <2>5. \A d \in GitCall : gitCall'[d].pc \in {"persist", "upsert"} \cup FlightStep => d # c
    BY <1>1 DEF FlightStep
  <2>6. QED
    BY <1>1, <2>1, <2>2, <2>3, <2>4, <2>5 DEF Doubtless, AccessStep, FlightStep
<1>8. QED
  BY <1>2, <1>5, <1>6, <1>7 DEF UserGitInv

LEMMA RowThere == ASSUME UserGitInv, GetEncrypted PROVE gitConn.id >= 1
BY GitFacts, UserGitBounds DEF GetEncrypted, UserGitInv, GitCallsOK, TokensOK, UserGitTypeOK

LEMMA AccessTokenKeepsInv ==
  ASSUME UserGitInv, NEW c \in GitCall, NEW s \in GitServer, AccessToken(c, s) PROVE UserGitInv'
<1> DEFINE call == [IdleGit EXCEPT !.op = "access", !.pc = "cache", !.at = s, !.row = gitConn]
<1>1. /\ GitBegins(c, call)
      /\ UNCHANGED <<gitConn, grant, gitIssued, accessCache, nonces, connected, compromised, gitFaults>>
  BY DEF AccessToken
<1>2. call \in GitCallRow /\ call.row = gitConn /\ call.new = 0 /\ call.pc = "cache" /\ call.op = "access"
  BY UserGitBounds DEF IdleGit, GitCallRow, UserGitInv, UserGitTypeOK
<1>3. gitConn.id >= 1
  BY RowThere DEF AccessToken
<1> HIDE DEF call
<1>4. QED
  BY <1>1, <1>2, <1>3, BeginsOnRow

LEMMA DisconnectKeepsInv ==
  ASSUME UserGitInv, NEW c \in GitCall, NEW s \in GitServer, Disconnect(c, s) PROVE UserGitInv'
<1> DEFINE call == [IdleGit EXCEPT !.op = "disconnect", !.pc = "revoke", !.at = s, !.row = gitConn]
<1>1. /\ GitBegins(c, call)
      /\ UNCHANGED <<gitConn, grant, gitIssued, accessCache, nonces, connected, compromised, gitFaults>>
  BY DEF Disconnect
<1>2. call \in GitCallRow /\ call.row = gitConn /\ call.new = 0 /\ call.pc = "revoke" /\ call.op = "disconnect"
  BY UserGitBounds DEF IdleGit, GitCallRow, UserGitInv, UserGitTypeOK
<1>3. gitConn.id >= 1
  BY RowThere DEF Disconnect
<1> HIDE DEF call
<1>4. QED
  BY <1>1, <1>2, <1>3, BeginsOnRow

\* A call that nothing runs beside ends, and what is cached of its connection may go.
LEMMA CallEnds ==
  ASSUME UserGitInv, NEW c \in GitCall, gitCall[c].pc \in {"exchange", "delete", "forget"},
         gitCall[c].pc = "delete" => gitConn' = NoConnection, GitReturn(c),
         gitConn' \in {gitConn, NoConnection}, accessCache' \in [GitServer -> SUBSET cachedAccess],
         \A s \in GitServer : accessCache'[s] \subseteq accessCache[s],
         UNCHANGED <<grant, gitIssued, nonces, connected, compromised, gitDoubt, gitCalls, gitFaults>>
  PROVE  UserGitInv'
<1>1. /\ gitCall' \in [GitCall -> GitCallRow] /\ gitCall'[c] = IdleGit
      /\ \A d \in GitCall : d # c => gitCall'[d] = gitCall[d]
  BY GitFacts, UserGitBounds DEF GitReturn
<1>2. UserGitTypeOK'
  BY <1>1, UserGitBounds DEF UserGitInv, UserGitTypeOK
<1>3. GitCallsOK'
  <2>1. CallOK(gitCall'[c], gitConn', grant', gitIssued', accessCache')
    BY <1>1, IdleCallOK, GitFacts
  <2>2. \A d \in GitCall : d # c => PairOK(gitCall'[c], gitCall[d], gitConn) /\ PairOK(gitCall[d], gitCall'[c], gitConn)
    BY <1>1, GitFacts, IdlePairOK
  <2>3. gitIssued <= gitIssued' /\ grant' \subseteq 1 .. gitIssued'
    BY GitFacts
  <2>4. QED
    BY <1>1, <1>2, <2>1, <2>2, <2>3, CallsChange
<1>4. StatesOnce(gitCall', nonces', connected')
  <2>1. \A d \in GitCall, t \in AuthState : PendingIn(gitCall'[d], t) => PendingIn(gitCall[d], t)
    BY <1>1, UserGitBounds DEF PendingIn
  <2>2. QED
    BY <2>1, StatesStand DEF UserGitInv
<1>5. DoubtlessOK'
  <2>1. SUFFICES ASSUME ~gitDoubt PROVE Doubtless(gitCall', gitConn', grant, accessCache') /\ ~compromised
    BY DEF DoubtlessOK
  <2>2. Doubtless(gitCall, gitConn, grant, accessCache) /\ ~compromised
    BY <2>1 DEF DoubtlessOK, UserGitInv
  <2>3. \A d \in GitCall : gitCall'[d].pc = "idle" /\ (d # c => gitCall[d].pc = "idle")
    BY <1>1, <2>1, AloneUnlessAccess, UserGitBounds
  <2>4. gitConn'.id >= 1 => gitConn'.refresh \in grant
    BY <2>2, <2>3, UserGitBounds DEF Doubtless
  <2>5. QED
    BY <2>2, <2>3, <2>4 DEF Doubtless, AccessStep, FlightStep
<1>6. QED
  BY <1>2, <1>3, <1>4, <1>5 DEF UserGitInv

-----------------------------------------------------------------------------
(* UserGit: authorizations *)

LEMMA BeginAuthorizeKeepsInv ==
  ASSUME UserGitInv, NEW s \in GitServer, NEW t \in AuthState, BeginAuthorize(s, t) PROVE UserGitInv'
<1>1. /\ UNCHANGED <<gitConn, grant, gitIssued, accessCache, gitCall, connected, compromised, gitDoubt, gitFaults>>
      /\ nonces' = [nonces EXCEPT ![s] = @ \cup {t}] /\ connected[t] = 0
      /\ \A q \in GitServer : t \notin nonces[q]
      /\ \A c \in GitCall : gitCall[c].pc # "idle" => gitCall[c].state # t \/ gitCall[c].op # "complete"
  BY DEF BeginAuthorize, Issue, gitBusy
<1>2. gitCalls' \in 0 .. MaxGitCalls
  BY UserGitAssumption DEF BeginAuthorize, UserGitInv, UserGitTypeOK
<1>3. nonces' \in [GitServer -> SUBSET AuthState] /\ nonces \in [GitServer -> SUBSET AuthState]
  BY <1>1 DEF UserGitInv, UserGitTypeOK
<1>4. UserGitTypeOK'
  BY <1>1, <1>2, <1>3 DEF UserGitInv, UserGitTypeOK
<1>5. \A c \in GitCall : ~PendingIn(gitCall[c], t)
  BY <1>1, GitFacts DEF PendingIn, CallOK
<1>6. StatesOnce(gitCall', nonces', connected')
  BY <1>1, <1>3, <1>5 DEF StatesOnce, UserGitInv
<1>7. GitCallsOK' /\ DoubtlessOK'
  BY <1>1 DEF UserGitInv, GitCallsOK, DoubtlessOK
<1>8. QED
  BY <1>4, <1>6, <1>7 DEF UserGitInv

LEMMA CompleteAuthorizeKeepsInv ==
  ASSUME UserGitInv, NEW c \in GitCall, NEW s \in GitServer, NEW t \in AuthState, CompleteAuthorize(c, s, t)
  PROVE  UserGitInv'
<1> DEFINE call == [IdleGit EXCEPT !.op = "complete", !.pc = "exchange", !.at = s, !.state = t]
<1>1. /\ GitBegins(c, call) /\ t \in nonces[s] /\ nonces' = [nonces EXCEPT ![s] = @ \ {t}]
      /\ UNCHANGED <<gitConn, grant, gitIssued, accessCache, connected, compromised, gitFaults>>
  BY DEF CompleteAuthorize, Validate
<1>2. call \in GitCallRow /\ call.row = NoConnection /\ call.new = 0 /\ call.pc = "exchange" /\ call.op = "complete" /\ call.state = t
  BY UserGitBounds DEF IdleGit, GitCallRow
<1> HIDE DEF call
<1>3. /\ gitCall[c] = IdleGit /\ gitCall' \in [GitCall -> GitCallRow] /\ gitCall'[c] = call /\ gitDoubt' \in BOOLEAN
      /\ \A d \in GitCall : d # c => gitCall'[d] = gitCall[d]
      /\ gitCalls' \in 0 .. MaxGitCalls
      /\ ~gitDoubt' => ~gitDoubt /\ \A d \in GitCall : gitCall[d].pc = "idle"
  BY <1>1, <1>2, BeginsFacts
<1>4. /\ nonces' \in [GitServer -> SUBSET AuthState] /\ nonces \in [GitServer -> SUBSET AuthState]
      /\ \A q \in GitServer : nonces'[q] \subseteq nonces[q]
      /\ t \notin nonces'[s]
  BY <1>1 DEF UserGitInv, UserGitTypeOK
<1>5. UserGitTypeOK'
  BY <1>1, <1>3, <1>4 DEF UserGitInv, UserGitTypeOK
<1>6. CallOK(call, gitConn, grant, gitIssued, accessCache)
  BY <1>2, GitFacts, UserGitBounds DEF CallOK, AccessStep
<1>7. \A d \in GitCall : d # c => PairOK(call, gitCall[d], gitConn) /\ PairOK(gitCall[d], call, gitConn)
  BY <1>2, GitFacts, UserGitBounds DEF PairOK
<1>8. GitCallsOK'
  <2>1. grant' \subseteq 1 .. gitIssued' /\ gitIssued <= gitIssued'
    BY <1>1, GitFacts
  <2>2. QED
    BY <1>1, <1>3, <1>5, <1>6, <1>7, <2>1, CallsChange
<1>9. StatesOnce(gitCall', nonces', connected')
  <2>1. \A d \in GitCall, u \in AuthState : d # c => (PendingIn(gitCall'[d], u) <=> PendingIn(gitCall[d], u))
    BY <1>3 DEF PendingIn
  <2>2. \A u \in AuthState : PendingIn(gitCall'[c], u) => u = t
    BY <1>2, <1>3 DEF PendingIn
  <2>3. StatesOnce(gitCall, nonces, connected)
    BY DEF UserGitInv
  <2>4. /\ connected[t] # 1 /\ \A d \in GitCall : ~PendingIn(gitCall[d], t)
        /\ \A q \in GitServer : t \notin nonces'[q]
    BY <1>1, <1>4, <2>3 DEF StatesOnce
  <2>5. \A u \in AuthState : u # t =>
          /\ connected[u] <= 1
          /\ connected[u] = 1 => (\A q \in GitServer : u \notin nonces'[q]) /\ \A d \in GitCall : ~PendingIn(gitCall'[d], u)
          /\ \A q \in GitServer : u \in nonces'[q] =>
                (\A d \in GitCall : ~PendingIn(gitCall'[d], u)) /\ \A p \in GitServer : u \in nonces'[p] => p = q
          /\ \A d, e \in GitCall : PendingIn(gitCall'[d], u) /\ PendingIn(gitCall'[e], u) => d = e
    BY <1>4, <2>1, <2>2, <2>3 DEF StatesOnce
  <2>6. connected[t] <= 1 /\ \A d, e \in GitCall : PendingIn(gitCall'[d], t) /\ PendingIn(gitCall'[e], t) => d = e
    BY <2>1, <2>3, <2>4 DEF StatesOnce
  <2>7. connected' = connected
    BY <1>1
  <2>8. QED
    BY <2>4, <2>5, <2>6, <2>7 DEF StatesOnce
<1>10. DoubtlessOK'
  <2>1. SUFFICES ASSUME ~gitDoubt' PROVE Doubtless(gitCall', gitConn, grant, accessCache) /\ ~compromised
    BY <1>1 DEF DoubtlessOK
  <2>2. Doubtless(gitCall, gitConn, grant, accessCache) /\ ~compromised
    BY <1>3, <2>1 DEF DoubtlessOK, UserGitInv
  <2>3. \A d \in GitCall : gitCall'[d].pc \in {"idle", "exchange"} /\ (gitCall'[d].pc # "idle" => d = c) /\ gitCall[d].pc = "idle"
    BY <1>2, <1>3, <2>1
  <2>4. QED
    BY <2>2, <2>3 DEF Doubtless, AccessStep, FlightStep
<1>11. QED
  BY <1>5, <1>8, <1>9, <1>10 DEF UserGitInv

LEMMA CompleteExchangesKeepsInv == ASSUME UserGitInv, NEW c \in GitCall, CompleteExchanges(c) PROVE UserGitInv'
<1>1. /\ gitCall[c].pc = "exchange" /\ gitCall[c] \in GitCallRow
      /\ UNCHANGED <<gitConn, accessCache, nonces, connected, compromised, gitDoubt, gitCalls, gitFaults>>
  BY GitFacts DEF CompleteExchanges, gitBoundsSame
<1>2. ~gitDoubt => (\A d \in GitCall : d # c => gitCall[d].pc = "idle") /\ Doubtless(gitCall, gitConn, grant, accessCache) /\ ~compromised
  BY <1>1, AloneUnlessAccess DEF UserGitInv, DoubtlessOK
<1>3. CASE ProviderExchange /\ gitCall' = [gitCall EXCEPT ![c].pc = "upsert", ![c].new = gitIssued + 1]
  <2> DEFINE r2 == [gitCall[c] EXCEPT !.pc = "upsert", !.new = gitIssued + 1]
  <2>1. /\ gitIssued' = gitIssued + 1 /\ gitIssued \in Nat /\ gitIssued < MaxGitTokens /\ grant' = grant \cup {gitIssued + 1}
        /\ grant \subseteq 1 .. gitIssued
    BY <1>3, GitFacts DEF ProviderExchange, Issues
  <2>2. gitIssued' \in 0 .. MaxGitTokens /\ grant' \subseteq 1 .. gitIssued'
    BY <2>1, UserGitAssumption
  <2>3. grant' \subseteq GitToken
    BY <2>2, UserGitAssumption DEF GitToken
  <2>4. /\ r2 \in GitCallRow /\ r2.pc = "upsert" /\ r2.new = gitIssued + 1 /\ r2.row = gitCall[c].row
        /\ r2.op = gitCall[c].op /\ r2.state = gitCall[c].state
    BY <1>1, <2>1, <2>2 DEF GitCallRow
  <2>5. gitCall' = [gitCall EXCEPT ![c] = r2] /\ gitCall'[c] = r2 /\ \A d \in GitCall : d # c => gitCall'[d] = gitCall[d]
    BY <1>3, GitFacts
  <2> HIDE DEF r2
  <2>6. UserGitTypeOK'
    BY <1>1, <2>2, <2>3, <2>4, <2>5 DEF UserGitInv, UserGitTypeOK
  <2>7. CallOK(r2, gitConn, grant', gitIssued', accessCache)
    <3>1. gitConn.id # gitIssued + 1 /\ \A s \in GitServer : \A e \in accessCache[s] : e.id # gitIssued + 1
      <4>1. TokensOK(gitConn, grant, gitIssued, accessCache) /\ gitConn.id \in Nat
        BY GitFacts, UserGitBounds
      <4>2. \A s \in GitServer : \A e \in accessCache[s] : e.id \in Nat
        BY GitFacts, UserGitAssumption DEF cachedAccess, GitToken
      <4>3. QED
        BY <2>1, <4>1, <4>2 DEF TokensOK
    <3>2. CallOK(gitCall[c], gitConn, grant, gitIssued, accessCache)
      BY GitFacts
    <3>3. /\ gitCall[c].row.id \in Nat /\ gitCall[c].row.refresh \in Nat /\ gitConn.id \in Nat /\ gitConn.refresh \in Nat
          /\ gitConn.refresh <= gitIssued
      BY GitFacts, UserGitBounds DEF TokensOK
    <3>4. QED
      BY <1>1, <2>1, <2>4, <3>1, <3>2, <3>3 DEF CallOK, AccessStep
  <2>8. \A d \in GitCall : d # c => PairOK(r2, gitCall[d], gitConn) /\ PairOK(gitCall[d], r2, gitConn)
    <3>1. SUFFICES ASSUME NEW d \in GitCall, d # c PROVE PairOK(r2, gitCall[d], gitConn) /\ PairOK(gitCall[d], r2, gitConn)
      OBVIOUS
    <3>2. PairOK(gitCall[c], gitCall[d], gitConn) /\ PairOK(gitCall[d], gitCall[c], gitConn)
      BY <3>1, GitFacts
    <3>3. gitCall[d].row.id <= gitIssued /\ gitCall[d].new <= gitIssued /\ gitCall[d].row.id \in Nat /\ gitCall[d].new \in Nat
      BY GitFacts, UserGitBounds DEF CallOK
    <3>4. QED
      BY <2>1, <2>4, <3>2, <3>3 DEF PairOK
  <2>9. GitCallsOK'
    <3>1. gitConn' = gitConn /\ accessCache' = accessCache /\ gitIssued <= gitIssued' /\ \A g \in grant' : g \in grant \/ g = gitIssued + 1
      BY <1>1, <2>1
    <3>2. CallOK(gitCall'[c], gitConn', grant', gitIssued', accessCache')
      BY <2>5, <2>7, <3>1
    <3>3. \A d \in GitCall : d # c => PairOK(gitCall'[c], gitCall[d], gitConn) /\ PairOK(gitCall[d], gitCall'[c], gitConn)
      BY <2>5, <2>8
    <3>4. QED
      BY <2>2, <2>5, <2>6, <3>1, <3>2, <3>3, CallsChange
  <2>10. StatesOnce(gitCall', nonces', connected')
    <3>1. \A d \in GitCall, t \in AuthState : PendingIn(gitCall'[d], t) => PendingIn(gitCall[d], t)
      BY <1>1, <2>4, <2>5 DEF PendingIn
    <3>2. QED
      BY <1>1, <3>1, StatesStand DEF UserGitInv
  <2>11. DoubtlessOK'
    <3>1. SUFFICES ASSUME ~gitDoubt PROVE Doubtless(gitCall', gitConn, grant', accessCache) /\ ~compromised
      BY <1>1 DEF DoubtlessOK
    <3>2. \A d \in GitCall : d # c => gitCall'[d].pc = "idle" /\ gitCall[d].pc = "idle"
      BY <1>2, <2>5, <3>1
    <3>3. gitCall'[c].pc = "upsert" /\ gitCall'[c].new \in grant'
      BY <2>1, <2>4, <2>5
    <3>4. gitConn.id >= 1 => gitConn.refresh \in grant'
      BY <1>1, <1>2, <2>1, <3>1, <3>2 DEF Doubtless
    <3>5. QED
      BY <1>2, <3>1, <3>2, <3>3, <3>4 DEF Doubtless, AccessStep, FlightStep
  <2>12. QED
    BY <2>6, <2>9, <2>10, <2>11 DEF UserGitInv
<1>4. CASE GitReturn(c) /\ UNCHANGED <<grant, gitIssued>>
  <2>1. accessCache' \in [GitServer -> SUBSET cachedAccess] /\ \A s \in GitServer : accessCache'[s] \subseteq accessCache[s]
    BY <1>1, GitFacts
  <2>2. gitConn' \in {gitConn, NoConnection} /\ gitCall[c].pc \in {"exchange", "delete", "forget"} /\ gitCall[c].pc # "delete"
    BY <1>1
  <2>3. QED
    BY <1>1, <1>4, <2>1, <2>2, CallEnds
<1>5. QED
  BY <1>3, <1>4 DEF CompleteExchanges

\* The connection is written anew: the token names no other call's row, and nothing that is cached.
LEMMA CompleteUpsertsKeepsInv == ASSUME UserGitInv, NEW c \in GitCall, CompleteUpserts(c) PROVE UserGitInv'
<1> DEFINE r == gitCall[c]
           token == gitCall[c].new
<1>1. /\ r.pc = "upsert" /\ gitConn' = [id |-> token, refresh |-> token]
      /\ accessCache' = [accessCache EXCEPT ![r.at] = {e \in @ : e.id # token}]
      /\ gitCall' = [gitCall EXCEPT ![c] = IdleGit]
      /\ connected' = [connected EXCEPT ![r.state] = @ + 1]
      /\ UNCHANGED <<grant, gitIssued, nonces, compromised, gitDoubt, gitCalls, gitFaults>>
  BY DEF CompleteUpserts, UpsertEncrypted, dropCache, GitReturn, gitBoundsSame
<1>2. /\ r \in GitCallRow /\ token \in Nat /\ token >= 1 /\ token <= gitIssued /\ token # gitConn.id /\ r.state \in AuthState
      /\ \A s \in GitServer : \A e \in accessCache[s] : e.id # token
  BY <1>1, GitFacts, UserGitBounds DEF CallOK
<1>3. gitConn' \in EncryptedRow /\ gitConn'.id = token /\ gitConn'.refresh = token
  BY <1>1, <1>2 DEF EncryptedRow, GitCallRow
<1>4. accessCache' \in [GitServer -> SUBSET cachedAccess] /\ \A s \in GitServer : accessCache'[s] \subseteq accessCache[s]
  BY <1>1, GitFacts
<1>5. /\ gitCall' \in [GitCall -> GitCallRow] /\ gitCall'[c] = IdleGit
      /\ \A d \in GitCall : d # c => gitCall'[d] = gitCall[d]
  BY <1>1, GitFacts, UserGitBounds
<1>6. UserGitTypeOK'
  <2>1. connected' \in [AuthState -> Nat]
    BY <1>1, <1>2 DEF UserGitInv, UserGitTypeOK
  <2>2. QED
    BY <1>1, <1>3, <1>4, <1>5, <2>1 DEF UserGitInv, UserGitTypeOK
<1>7. GitCallsOK'
  <2>1. TokensOK(gitConn', grant, gitIssued, accessCache')
    <3>1. TokensOK(gitConn, grant, gitIssued, accessCache)
      BY GitFacts
    <3>2. \A s \in GitServer : \A e \in accessCache'[s] : e.id <= gitIssued /\ e.id # token
      BY <1>2, <1>4, <3>1 DEF TokensOK
    <3>3. QED
      BY <1>2, <1>3, <3>1, <3>2 DEF TokensOK
  <2>2. \A d \in GitCall : CallOK(gitCall'[d], gitConn', grant, gitIssued, accessCache')
    <3>1. SUFFICES ASSUME NEW d \in GitCall PROVE CallOK(gitCall'[d], gitConn', grant, gitIssued, accessCache')
      OBVIOUS
    <3>2. CASE d = c
      BY <1>5, <3>2, IdleCallOK, GitFacts
    <3>3. CASE d # c
      <4>1. CallOK(gitCall[d], gitConn, grant, gitIssued, accessCache) /\ PairOK(gitCall[c], gitCall[d], gitConn)
        BY <3>3, GitFacts
      <4>2. gitCall[d].row.id # token /\ (gitCall[d].pc = "upsert" => gitCall[d].new # token)
        BY <1>1, <4>1 DEF PairOK
      <4>3. \A s \in GitServer : \A e \in accessCache'[s] : e \in accessCache[s]
        BY <1>4
      <4>4. QED
        BY <1>3, <1>5, <3>3, <4>1, <4>2, <4>3 DEF CallOK
    <3>4. QED
      BY <3>2, <3>3
  <2>3. \A d, e \in GitCall : d # e => PairOK(gitCall'[d], gitCall'[e], gitConn')
    <3>1. SUFFICES ASSUME NEW d \in GitCall, NEW e \in GitCall, d # e PROVE PairOK(gitCall'[d], gitCall'[e], gitConn')
      OBVIOUS
    <3>2. CASE d = c \/ e = c
      <4>1. gitCall'[d] \in GitCallRow /\ gitCall'[e] \in GitCallRow
        BY <1>5
      <4>2. (gitCall'[d].pc = "upsert" => gitCall'[d].new >= 1) /\ (gitCall'[e].pc = "upsert" => gitCall'[e].new >= 1)
        BY <2>2 DEF CallOK
      <4>3. QED
        BY <1>5, <3>2, <4>1, <4>2, IdlePairOK
    <3>3. CASE d # c /\ e # c
      <4>1. PairOK(gitCall[d], gitCall[e], gitConn) /\ PairOK(gitCall[c], gitCall[d], gitConn)
        BY <3>1, <3>3, GitFacts DEF UserGitInv, GitCallsOK
      <4>2. gitCall[d].row.id # token
        BY <1>1, <4>1 DEF PairOK
      <4>3. QED
        BY <1>3, <1>5, <3>3, <4>1, <4>2 DEF PairOK
    <3>4. QED
      BY <3>2, <3>3
  <2>4. QED
    BY <1>1, <2>1, <2>2, <2>3 DEF GitCallsOK
<1>8. StatesOnce(gitCall', nonces', connected')
  <2>1. StatesOnce(gitCall, nonces, connected) /\ connected \in [AuthState -> Nat]
    BY DEF UserGitInv, UserGitTypeOK
  <2>2. PendingIn(gitCall[c], r.state)
    BY <1>1 DEF PendingIn
  <2>3. /\ connected[r.state] = 0 /\ \A s \in GitServer : r.state \notin nonces[s]
        /\ \A d \in GitCall : d # c => ~PendingIn(gitCall[d], r.state)
    BY <1>2, <2>1, <2>2 DEF StatesOnce
  <2>4. \A d \in GitCall, t \in AuthState : PendingIn(gitCall'[d], t) => d # c /\ PendingIn(gitCall[d], t)
    BY <1>5, UserGitBounds DEF PendingIn
  <2>5. connected'[r.state] = 1 /\ \A t \in AuthState : t # r.state => connected'[t] = connected[t]
    BY <1>1, <1>2, <2>1, <2>3
  <2>6. nonces' = nonces
    BY <1>1
  <2>7. QED
    BY <2>1, <2>3, <2>4, <2>5, <2>6 DEF StatesOnce
<1>9. DoubtlessOK'
  <2>1. SUFFICES ASSUME ~gitDoubt PROVE Doubtless(gitCall', gitConn', grant, accessCache') /\ ~compromised
    BY <1>1 DEF DoubtlessOK
  <2>2. Doubtless(gitCall, gitConn, grant, accessCache) /\ ~compromised
    BY <2>1 DEF DoubtlessOK, UserGitInv
  <2>3. \A d \in GitCall : gitCall'[d].pc = "idle"
    BY <1>1, <1>5, <2>1, AloneUnlessAccess, UserGitBounds
  <2>4. gitConn'.refresh \in grant
    BY <1>1, <1>3, <2>2 DEF Doubtless
  <2>5. QED
    BY <2>2, <2>3, <2>4 DEF Doubtless, AccessStep, FlightStep
<1>10. QED
  BY <1>6, <1>7, <1>8, <1>9 DEF UserGitInv

-----------------------------------------------------------------------------
(* UserGit: a disconnect *)

\* A disconnect goes on: alone, unless something may have gone wrong.
LEMMA DisconnectGoesOn ==
  ASSUME UserGitInv, NEW c \in GitCall, NEW pc \in {"delete", "forget"}, gitCall[c].pc \in {"revoke", "delete"},
         gitCall' = [gitCall EXCEPT ![c].pc = pc], gitConn' \in {gitConn, NoConnection},
         pc = "forget" => gitConn' = NoConnection,
         gitIssued <= gitIssued', gitIssued' \in 0 .. MaxGitTokens, grant' \subseteq 1 .. gitIssued',
         \A g \in grant' : g \in grant \/ g = gitIssued + 1,
         UNCHANGED <<accessCache, nonces, connected, compromised, gitDoubt, gitCalls, gitFaults>>
  PROVE  UserGitInv'
<1> DEFINE r2 == [gitCall[c] EXCEPT !.pc = pc]
<1>1. r2 \in GitCallRow /\ r2.pc = pc /\ r2.op = gitCall[c].op /\ r2.new = gitCall[c].new /\ r2.row = gitCall[c].row
  BY GitFacts DEF GitCallRow
<1>2. gitCall' = [gitCall EXCEPT ![c] = r2] /\ gitCall'[c] = r2 /\ \A d \in GitCall : d # c => gitCall'[d] = gitCall[d]
  BY GitFacts
<1> HIDE DEF r2
<1>3. UserGitTypeOK'
  <2>1. grant' \subseteq GitToken
    BY UserGitAssumption DEF GitToken
  <2>2. gitConn' \in EncryptedRow /\ gitCall' \in [GitCall -> GitCallRow]
    BY <1>1, <1>2, GitFacts, UserGitBounds
  <2>3. QED
    BY <2>1, <2>2 DEF UserGitInv, UserGitTypeOK
<1>4. CallOK(r2, gitConn', grant', gitIssued', accessCache)
  <2>1. CallOK(gitCall[c], gitConn', grant', gitIssued', accessCache)
    <3>1. gitIssued' \in Nat /\ gitConn' \in EncryptedRow
      BY <1>3, UserGitBounds DEF UserGitTypeOK
    <3>2. \A s \in GitServer : \A e \in accessCache[s] : \E f \in accessCache[s] : f.id = e.id
      OBVIOUS
    <3>3. QED
      BY <3>1, <3>2, CallStands, GitFacts
  <2>2. QED
    BY <1>1, <2>1 DEF CallOK, AccessStep
<1>5. \A d \in GitCall : d # c => PairOK(r2, gitCall[d], gitConn) /\ PairOK(gitCall[d], r2, gitConn)
  BY <1>1, GitFacts, PairMoves
<1>6. GitCallsOK'
  <2>1. CallOK(gitCall'[c], gitConn', grant', gitIssued', accessCache')
    BY <1>2, <1>4
  <2>2. \A d \in GitCall : d # c => PairOK(gitCall'[c], gitCall[d], gitConn) /\ PairOK(gitCall[d], gitCall'[c], gitConn)
    BY <1>2, <1>5
  <2>3. QED
    BY <1>2, <1>3, <2>1, <2>2, CallsChange
<1>7. StatesOnce(gitCall', nonces', connected')
  <2>1. \A d \in GitCall, t \in AuthState : PendingIn(gitCall'[d], t) => PendingIn(gitCall[d], t)
    BY <1>1, <1>2 DEF PendingIn
  <2>2. QED
    BY <2>1, StatesStand DEF UserGitInv
<1>8. DoubtlessOK'
  <2>1. SUFFICES ASSUME ~gitDoubt PROVE Doubtless(gitCall', gitConn', grant', accessCache) /\ ~compromised
    BY DEF DoubtlessOK
  <2>2. Doubtless(gitCall, gitConn, grant, accessCache) /\ ~compromised
    BY <2>1 DEF DoubtlessOK, UserGitInv
  <2>3. \A d \in GitCall : d # c => gitCall'[d].pc = "idle"
    BY <1>2, <2>1, AloneUnlessAccess
  <2>4. gitCall'[c].pc = pc
    BY <1>1, <1>2
  <2>5. gitConn'.id >= 1 => gitCall'[c].pc = "delete"
    BY <2>4, UserGitBounds
  <2>6. QED
    BY <2>2, <2>3, <2>4, <2>5 DEF Doubtless, AccessStep, FlightStep
<1>9. QED
  BY <1>3, <1>6, <1>7, <1>8 DEF UserGitInv

LEMMA DisconnectRevokesKeepsInv == ASSUME UserGitInv, NEW c \in GitCall, DisconnectRevokes(c) PROVE UserGitInv'
<1>1. /\ gitCall[c].pc = "revoke" /\ gitCall' = [gitCall EXCEPT ![c].pc = "delete"]
      /\ UNCHANGED <<gitConn, accessCache, nonces, connected, compromised, gitDoubt, gitCalls, gitFaults>>
  BY DEF DisconnectRevokes, GitGoto, gitBoundsSame
<1>2. /\ gitIssued <= gitIssued' /\ gitIssued' \in 0 .. MaxGitTokens /\ grant' \subseteq 1 .. gitIssued'
      /\ \A g \in grant' : g \in grant \/ g = gitIssued + 1
  <2>1. CASE ProviderRefresh(gitCall[c].row.refresh)
    BY <2>1, RotationFacts, GitFacts
  <2>2. CASE ProviderRevoke(gitCall[c].row.refresh)
    BY <2>2, GitFacts DEF ProviderRevoke
  <2>3. CASE UNCHANGED <<grant, gitIssued>>
    BY <2>3, GitFacts
  <2>4. QED
    BY <2>1, <2>2, <2>3 DEF DisconnectRevokes
<1>3. QED
  BY <1>1, <1>2, DisconnectGoesOn

LEMMA DisconnectDeletesKeepsInv == ASSUME UserGitInv, NEW c \in GitCall, DisconnectDeletes(c) PROVE UserGitInv'
<1>1. /\ gitCall[c].pc = "delete" /\ gitConn' = NoConnection
      /\ UNCHANGED <<grant, gitIssued, accessCache, nonces, connected, compromised, gitDoubt, gitCalls, gitFaults>>
      /\ gitCall' = [gitCall EXCEPT ![c].pc = "forget"] \/ GitReturn(c)
  BY DEF DisconnectDeletes, DeleteRow, GitGoto, gitBoundsSame
<1>2. CASE gitCall' = [gitCall EXCEPT ![c].pc = "forget"]
  <2>1. gitIssued <= gitIssued' /\ gitIssued' \in 0 .. MaxGitTokens /\ grant' \subseteq 1 .. gitIssued'
    BY <1>1, GitFacts
  <2>2. QED
    BY <1>1, <1>2, <2>1, DisconnectGoesOn
<1>3. CASE GitReturn(c)
  <2>1. accessCache' \in [GitServer -> SUBSET cachedAccess] /\ \A s \in GitServer : accessCache'[s] \subseteq accessCache[s]
    BY <1>1, GitFacts
  <2>2. QED
    BY <1>1, <1>3, <2>1, CallEnds
<1>4. QED
  BY <1>1, <1>2, <1>3

LEMMA DisconnectForgetsKeepsInv == ASSUME UserGitInv, NEW c \in GitCall, DisconnectForgets(c) PROVE UserGitInv'
<1>1. /\ gitCall[c].pc = "forget" /\ GitReturn(c) /\ dropCache(gitCall[c].at, gitCall[c].row.id)
      /\ UNCHANGED <<gitConn, grant, gitIssued, nonces, connected, compromised, gitDoubt, gitCalls, gitFaults>>
  BY DEF DisconnectForgets, gitBoundsSame
<1>2. accessCache' \in [GitServer -> SUBSET cachedAccess] /\ \A s \in GitServer : accessCache'[s] \subseteq accessCache[s]
  BY <1>1, GitFacts DEF dropCache
<1>3. gitConn' \in {gitConn, NoConnection} /\ gitCall[c].pc \in {"exchange", "delete", "forget"} /\ gitCall[c].pc # "delete"
  BY <1>1
<1>4. QED
  BY <1>1, <1>2, <1>3, CallEnds

-----------------------------------------------------------------------------
(* UserGit: every step *)

LEMMA UserGitInvStep == ASSUME UserGitInv, [UserGitNext]_userGitVars PROVE UserGitInv'
<1>1. CASE UNCHANGED userGitVars
  BY <1>1 DEF userGitVars, UserGitInv, UserGitTypeOK, GitCallsOK, DoubtlessOK
<1>2. ASSUME NEW c \in GitCall, GitCallStep(c) PROVE UserGitInv'
  BY <1>2, AccessFromCacheKeepsInv, singleflightKeepsInv, refreshKeepsInv, refreshPersistsKeepsInv, refreshKeepsKeepsInv,
     compromiseKeepsInv, RefreshFailsKeepsInv, CompleteExchangesKeepsInv, CompleteUpsertsKeepsInv,
     DisconnectRevokesKeepsInv, DisconnectDeletesKeepsInv, DisconnectForgetsKeepsInv DEF GitCallStep
<1>3. ASSUME NEW c \in GitCall, NEW s \in GitServer, AccessToken(c, s) \/ callback(c, s) \/ \E u \in User : disconnect(u, c, s)
      PROVE  UserGitInv'
  BY <1>3, AccessTokenKeepsInv, CompleteAuthorizeKeepsInv, DisconnectKeepsInv DEF callback, disconnect
<1>4. ASSUME NEW s \in GitServer, AccessExpires(s) \/ \E u \in User : authorize(u, s) PROVE UserGitInv'
  BY <1>4, AccessExpiresKeepsInv, BeginAuthorizeKeepsInv DEF authorize
<1>5. QED
  BY <1>1, <1>2, <1>3, <1>4 DEF UserGitNext

\* What the run checks of the connections of users follows.
LEMMA UserGitInvGives == ASSUME UserGitInv PROVE UserGitTypeOK /\ NoFalseWipe /\ CachedIsPersisted /\ CallbackOnce
BY DEF UserGitInv, DoubtlessOK, NoFalseWipe, GitCallsOK, TokensOK, CachedIsPersisted, StatesOnce, CallbackOnce

-----------------------------------------------------------------------------
(* What no call undoes *)

\* A row is written over, goes, or keeps the flag that is set.
PruneStands(r, s) == r.state = "absent" \/ s = NoRow \/ (r.prune => s.prune)

LEMMA PruneStandsKept == ASSUME AddonInv, \A k \in AddonKey : PruneStands(addon[k], addon'[k]) PROVE PruneKept
<1>1. ASSUME NEW k \in AddonKey, addon[k].prune, addon'[k].id = addon[k].id PROVE addon'[k].prune
  <2>1. addon[k].state # "absent" /\ addon[k].id \in AddonId
    BY <1>1, AddonTyped, AddonConstants DEF AddonRowOK
  <2>2. addon'[k] # NoRow
    BY <1>1, <2>1, AddonConstants
  <2>3. QED
    BY <1>1, <2>1, <2>2 DEF PruneStands
<1>2. QED
  BY <1>1 DEF PruneKept

\* A row that a call records takes the flag of the one that is there.
LEMMA RecordAddonKeepsPrune == ASSUME AddonInv, NEW c \in AddonCall, RecordAddon(c) PROVE PruneKept
<1> DEFINE r == addonCall[c].row
           k == addonCall[c].key
           rows == [addon EXCEPT ![k] =
                IF addon[k].state = "absent" THEN r
                ELSE [r EXCEPT !.id = addon[k].id, !.prune = @ \/ addon[k].prune, !.pr = @ \/ addon[k].pr]]
<1>1. addon' = rows \/ addon' = AbsorbDiscoveredAddons(rows)
  BY DEF RecordAddon, UpsertClusterAddon
<1>2. r \in ClusterAddon /\ k \in AddonKey /\ addon[k] \in ClusterAddon /\ addon \in [AddonKey -> ClusterAddon]
  BY AddonTyped DEF AddonCallRow
<1>3. \A j \in AddonKey : PruneStands(addon[j], rows[j])
  <2>1. ASSUME addon[k].state # "absent", addon[k].prune PROVE rows[k].prune
    BY <1>2, <2>1 DEF ClusterAddon
  <2>2. \A j \in AddonKey : j # k => rows[j] = addon[j]
    BY <1>2
  <2>3. QED
    BY <2>1, <2>2 DEF PruneStands
<1> HIDE DEF rows
<1>4. \A j \in AddonKey : AbsorbDiscoveredAddons(rows)[j] = rows[j] \/ AbsorbDiscoveredAddons(rows)[j] = NoRow
  BY DEF AbsorbDiscoveredAddons
<1>5. \A j \in AddonKey : addon'[j] = rows[j] \/ addon'[j] = NoRow
  BY <1>1, <1>4
<1>6. \A j \in AddonKey : PruneStands(addon[j], addon'[j])
  BY <1>3, <1>5 DEF PruneStands
<1>7. QED
  BY <1>6, PruneStandsKept

\* A claim, its release and a failure change the state of a row, and no flag of it.
LEMMA AddonClaimsKeepPrune ==
  ASSUME AddonInv,
         \/ \E k \in AddonKey : ClaimClusterAddonForAdoption(k)
         \/ \E c \in AddonCall : ReleaseClusterAddonClaim(addonCall[c]) \/ markUpdateFailed(addonCall[c])
  PROVE  PruneKept
<1>1. addon \in [AddonKey -> ClusterAddon]
  BY AddonTyped
<1>2. ASSUME NEW k \in AddonKey, ClaimClusterAddonForAdoption(k) PROVE PruneKept
  <2>1. \A j \in AddonKey : addon'[j].prune = addon[j].prune
    BY <1>1, <1>2 DEF ClaimClusterAddonForAdoption, ClusterAddon
  <2>2. QED
    BY <2>1, PruneStandsKept DEF PruneStands
<1>3. ASSUME NEW c \in AddonCall, ReleaseClusterAddonClaim(addonCall[c]) PROVE PruneKept
  <2>1. addonCall[c].key \in AddonKey
    BY AddonTyped DEF AddonCallRow
  <2>2. \A j \in AddonKey : addon'[j] = NoRow \/ addon'[j].prune = addon[j].prune
    BY <1>1, <1>3, <2>1 DEF ReleaseClusterAddonClaim, ClusterAddon
  <2>3. QED
    BY <2>2, PruneStandsKept DEF PruneStands
<1>4. ASSUME NEW c \in AddonCall, markUpdateFailed(addonCall[c]) PROVE PruneKept
  <2>1. addonCall[c].key \in AddonKey
    BY AddonTyped DEF AddonCallRow
  <2>2. \A j \in AddonKey : addon'[j].prune = addon[j].prune
    BY <1>1, <1>4, <2>1 DEF markUpdateFailed, ClusterAddon
  <2>3. QED
    BY <2>2, PruneStandsKept DEF PruneStands
<1>5. QED
  BY <1>2, <1>3, <1>4

\* Pruning, once enabled, stays as long as the row: of all that writes a row, only Delete, the release of a
\* claim and the absorption of a sighting take it away.
LEMMA AddonStepKeepsPrune == ASSUME AddonInv, [AddonNext]_addonVars PROVE PruneKept
<1>0. ASSUME UNCHANGED addon PROVE PruneKept
  BY <1>0 DEF PruneKept
<1>1. CASE UNCHANGED addonVars
  BY <1>0, <1>1 DEF addonVars
<1>2. CASE AddonRoutes
  <2>1. PICK u \in User, c \in AddonCall, k \in AddonKey :
            httpAdopt(u, c, k) \/ httpUpdateAddon(u, c, k) \/ httpEnablePrune(u, c, k) \/ httpDeleteAddon(u, k)
    BY <1>2 DEF AddonRoutes
  <2>2. CASE httpAdopt(u, c, k)
    BY <2>2, AddonClaimsKeepPrune DEF httpAdopt, Adopt
  <2>3. CASE httpUpdateAddon(u, c, k) \/ httpEnablePrune(u, c, k)
    BY <2>3, <1>0 DEF httpUpdateAddon, httpEnablePrune, Update, EnablePrune, rerender
  <2>4. CASE httpDeleteAddon(u, k)
    <3>1. \A j \in AddonKey : addon'[j] = addon[j] \/ addon'[j] = NoRow
      BY <2>4, AddonTyped DEF httpDeleteAddon, DeleteAddon
    <3>2. QED
      BY <3>1, PruneStandsKept DEF PruneStands
  <2>5. QED
    BY <2>1, <2>2, <2>3, <2>4
<1>3. ASSUME NEW c \in AddonCall, commitPerPolicy(c) \/ enqueueRegistration(c) \/ rerenderFleetAddon(c) \/ AddonCrash(c) \/ RerenderFleetAddons(c)
      PROVE  PruneKept
  BY <1>3, <1>0 DEF commitPerPolicy, enqueueRegistration, rerenderFleetAddon, AddonCrash, RerenderFleetAddons
<1>4. ASSUME NEW c \in AddonCall, UpsertDiscoveredAddon(c) PROVE PruneKept
  <2>1. addonCall[c].key \in AddonKey /\ addon \in [AddonKey -> ClusterAddon]
    BY AddonTyped DEF AddonCallRow
  <2>2. \A j \in AddonKey : addon'[j] = addon[j] \/ addon[j].state = "absent"
    BY <1>4, <2>1 DEF UpsertDiscoveredAddon
  <2>3. QED
    BY <2>2, PruneStandsKept DEF PruneStands
<1>5. ASSUME NEW c \in AddonCall, markPRMerged(c) PROVE PruneKept
  <2>1. \A j \in AddonKey : addon'[j].prune = addon[j].prune
    BY <1>5, AddonTyped DEF markPRMerged, ClusterAddon
  <2>2. QED
    BY <2>1, PruneStandsKept DEF PruneStands
<1>6. ASSUME NEW c \in AddonCall, AddonCallFails(c) PROVE PruneKept
  BY <1>6, <1>0, AddonClaimsKeepPrune DEF AddonCallFails
<1>7. ASSUME NEW c \in AddonCall, NEW k \in AddonKey, IngestDiscovery(c, k) \/ FinalizeAddonMerge(c, k) PROVE PruneKept
  BY <1>7, <1>0 DEF IngestDiscovery, FinalizeAddonMerge
<1>8. CASE \/ \E i \in AddonId : MergeAddonPR(i)
           \/ \E k \in AddonCluster : AddonClusterChanges(k)
  BY <1>8, <1>0 DEF MergeAddonPR, AddonClusterChanges
<1>9. QED
  BY <1>1, <1>2, <1>3, <1>4, <1>5, <1>6, <1>7, <1>8, RecordAddonKeepsPrune DEF AddonNext, AddonStep
\* The removal of a UI has read the kind of the row that it takes the UI from.
UiSeenOK(calls, rows) ==
    \A c \in ExtCall : calls[c].op = "UnregisterUi" /\ rows[calls[c].id].live => rows[calls[c].id].kind = calls[c].seen.kind
KindsStand(rows, rows2) ==
    \A i \in ExtId : rows[i].used /\ rows2[i].live => rows[i].live /\ rows2[i].kind = rows[i].kind

\* What a step may do to a row.
LEMMA ExtRowKinds ==
  ASSUME ExtInv,
         \/ UNCHANGED extRow
         \/ \E row \in Extension : createExt(row)
         \/ \E i \in ExtId : \/ \E s \in ExtensionState : setState(i, s)
                             \/ setClientID(i) \/ deleteExt(i)
                             \/ \E ui \in UiExtensionDescriptor : setUi(i, ui)
  PROVE  KindsStand(extRow, extRow')
<1>0. extRow \in [ExtId -> Extension] /\ \A i \in ExtId : extRow[i].live => extRow[i].used
  BY ExtTypes DEF ExtRowsOK
<1>1. CASE UNCHANGED extRow
  BY <1>0, <1>1 DEF KindsStand, Extension
<1>2. ASSUME NEW row \in Extension, createExt(row) PROVE KindsStand(extRow, extRow')
  <2>1. PICK i \in ExtId : ~extRow[i].used /\ extRow' = [extRow EXCEPT ![i] = [row EXCEPT !.live = TRUE, !.used = TRUE]]
    BY <1>2 DEF createExt
  <2>2. \A j \in ExtId : ~extRow[j].live
    BY <1>2 DEF createExt, getByName
  <2>3. QED
    BY <1>0, <2>1, <2>2 DEF KindsStand
<1>3. ASSUME NEW i \in ExtId, NEW s \in ExtensionState, setState(i, s) PROVE KindsStand(extRow, extRow')
  BY <1>0, <1>3 DEF KindsStand, setState, Extension
<1>4. ASSUME NEW i \in ExtId, setClientID(i) PROVE KindsStand(extRow, extRow')
  BY <1>0, <1>4 DEF KindsStand, setClientID, Extension
<1>5. ASSUME NEW i \in ExtId, NEW ui \in UiExtensionDescriptor, setUi(i, ui) PROVE KindsStand(extRow, extRow')
  BY <1>0, <1>5 DEF KindsStand, setUi, Extension
<1>6. ASSUME NEW i \in ExtId, deleteExt(i) PROVE KindsStand(extRow, extRow')
  <2>1. ~extRow'[i].live /\ \A j \in ExtId : j # i => extRow'[j] = extRow[j]
    BY <1>0, <1>6 DEF deleteExt, NoExtRow
  <2>2. QED
    BY <1>0, <2>1 DEF KindsStand
<1>7. QED
  BY <1>1, <1>2, <1>3, <1>4, <1>5, <1>6

\* A call that removes a UI keeps what it read, or has just read it.
UiCallStands(r, r2) ==
    r2.op = "UnregisterUi" => \/ r.op = "UnregisterUi" /\ r2.id = r.id /\ r2.seen = r.seen
                              \/ r2.id \in ExtId /\ extRow[r2.id].live /\ r2.seen = extRow[r2.id]

LEMMA UiSeenKept ==
  ASSUME ExtInv, UiSeenOK(extCall, extRow), KindsStand(extRow, extRow'),
         \A c \in ExtCall : UiCallStands(extCall[c], extCall'[c])
  PROVE  UiSeenOK(extCall', extRow')
<1>1. ASSUME NEW c \in ExtCall, extCall'[c].op = "UnregisterUi", extRow'[extCall'[c].id].live
      PROVE  extRow'[extCall'[c].id].kind = extCall'[c].seen.kind
  <2>1. CASE extCall[c].op = "UnregisterUi" /\ extCall'[c].id = extCall[c].id /\ extCall'[c].seen = extCall[c].seen
    <3>1. extCall[c].id \in ExtId /\ extRow[extCall[c].id].used
      BY <2>1, ExtTypes DEF ExtShapeOK, ExtSeenOK
    <3>2. extRow[extCall[c].id].live /\ extRow'[extCall[c].id].kind = extRow[extCall[c].id].kind
      BY <1>1, <2>1, <3>1 DEF KindsStand
    <3>3. QED
      BY <2>1, <3>2 DEF UiSeenOK
  <2>2. CASE extCall'[c].id \in ExtId /\ extRow[extCall'[c].id].live /\ extCall'[c].seen = extRow[extCall'[c].id]
    <3>1. extRow[extCall'[c].id].used
      BY <2>2, ExtTypes DEF ExtRowsOK
    <3>2. QED
      BY <1>1, <2>2, <3>1 DEF KindsStand
  <2>3. QED
    BY <1>1, <2>1, <2>2 DEF UiCallStands
<1>2. QED
  BY <1>1 DEF UiSeenOK

\* A removal of a UI that is under way leaves the rows of backends alone, but for their UI.
BackendsStand(c) ==
    \A i \in ExtId :
       extCall[c].op = "UnregisterUi" /\ extCall'[c] # extCall[c] /\ extRow[i].live /\ extRow[i].kind = "backend"
          => extRow'[i] = [extRow[i] EXCEPT !.ui = extRow'[i].ui]

LEMMA RowsSame == ASSUME ExtInv, UNCHANGED extRow PROVE \A c \in ExtCall : BackendsStand(c)
<1>1. \A i \in ExtId : extRow[i] = [extRow[i] EXCEPT !.ui = extRow[i].ui]
  BY ExtTypes DEF Extension
<1>2. QED
  BY <1>1 DEF BackendsStand

\* The step of a call begins no other and touches no other.
LEMMA ExtStepOf ==
  ASSUME ExtInv, NEW c \in ExtCall, ExtStep(c) \/ RegisterTxFails(c) \/ ExtCallFails(c)
  PROVE  /\ \A d \in ExtCall : UiCallStands(extCall[d], extCall'[d])
         /\ \A d \in ExtCall : d # c => extCall'[d] = extCall[d]
<1>1. ExtReturn(c) \/ \E pc \in {"client", "tx", "undo", "handshake", "identity", "setClient", "ready", "degraded", "rotate", "disable", "delete"} : ExtGoto(c, pc)
  BY DEF ExtStep, RegisterTxFails, ExtCallFails, RegisterClient, RegisterTx, RegisterUndo, VerifyHandshake, ensureIdentity,
         SetState, RotatesSecret, disableIdentity, UnregisterTx, RegisterUiTx, UnregisterUiTx
<1>2. CASE ExtReturn(c)
  BY <1>2, ExtTypes DEF ExtReturn, UiCallStands, IdleExtCall
<1>3. ASSUME NEW pc \in {"client", "tx", "undo", "handshake", "identity", "setClient", "ready", "degraded", "rotate", "disable", "delete"}, ExtGoto(c, pc)
      PROVE  /\ \A d \in ExtCall : UiCallStands(extCall[d], extCall'[d])
             /\ \A d \in ExtCall : d # c => extCall'[d] = extCall[d]
  <2>1. /\ extCall'[c].op = extCall[c].op /\ extCall'[c].id = extCall[c].id /\ extCall'[c].seen = extCall[c].seen
        /\ \A d \in ExtCall : d # c => extCall'[d] = extCall[d]
    BY <1>3, ExtTypes DEF ExtGoto, ExtCallRow
  <2>2. QED
    BY <2>1 DEF UiCallStands
<1>4. QED
  BY <1>1, <1>2, <1>3

LEMMA ExtStepRows ==
  ASSUME ExtInv, UiSeenOK(extCall, extRow), NEW c \in ExtCall, ExtStep(c) \/ RegisterTxFails(c) \/ ExtCallFails(c)
  PROVE  KindsStand(extRow, extRow') /\ BackendsStand(c)
<1>0. /\ [NoExtRow EXCEPT !.client = TRUE] \in Extension
      /\ \A ui \in UiExtensionDescriptor : [NoExtRow EXCEPT !.kind = "ui", !.state = "ready", !.ui = ui] \in Extension
  BY DEF NoExtRow, Extension, ExtensionState, UiExtensionDescriptor
<1>1. extCall[c] \in ExtCallRow /\ ExtShapeOK(extCall[c]) /\ ExtSeenOK(extCall[c], extRow) /\ extRow \in [ExtId -> Extension]
  BY ExtTypes
<1>2. CASE UNCHANGED extRow
  BY <1>2, RowsSame, ExtRowKinds
<1>3. ASSUME extCall[c].op # "UnregisterUi" PROVE BackendsStand(c)
  BY <1>3 DEF BackendsStand
<1>4. CASE RegisterTx(c)
  <2>1. extCall[c].op = "Register" /\ (UNCHANGED extRow \/ \E row \in Extension : createExt(row))
    BY <1>0, <1>4 DEF RegisterTx
  <2>2. QED
    BY <1>3, <2>1, ExtRowKinds
<1>5. CASE ensureIdentity(c)
  <2>1. extCall[c].op # "UnregisterUi" /\ (UNCHANGED extRow \/ (extCall[c].pc = "setClient" /\ setClientID(extCall[c].id)))
    BY <1>1, <1>5 DEF ensureIdentity, ExtShapeOK
  <2>2. extCall[c].pc = "setClient" => extCall[c].id \in ExtId
    BY <1>1, <2>1 DEF ExtShapeOK, ExtCallRow, IdleExtCall
  <2>3. QED
    BY <1>2, <1>3, <2>1, <2>2, ExtRowKinds
<1>6. CASE SetState(c)
  <2>1. extCall[c].op = "Verify" /\ extCall[c].pc \in ExtensionState /\ extCall[c].id \in ExtId /\ setState(extCall[c].id, extCall[c].pc)
    BY <1>1, <1>6 DEF SetState, ExtShapeOK, ExtCallRow, ExtensionState, Making, IdleExtCall
  <2>2. QED
    BY <1>3, <2>1, ExtRowKinds
<1>7. CASE UnregisterTx(c)
  <2>1. extCall[c].op = "UnregisterBackend" /\ extCall[c].id \in ExtId /\ deleteExt(extCall[c].id)
    BY <1>1, <1>7 DEF UnregisterTx, ExtShapeOK
  <2>2. QED
    BY <1>3, <2>1, ExtRowKinds
<1>8. CASE RegisterUiTx(c)
  <2>1. extCall[c].op = "RegisterUi" /\ extCall[c].seen.ui \in UiExtensionDescriptor /\ extCall[c].id \in ExtId \cup {NoExt}
    BY <1>1, <1>8 DEF RegisterUiTx, ExtCallRow, Extension
  <2>2. \/ UNCHANGED extRow \/ \E row \in Extension : createExt(row)
        \/ extCall[c].id \in ExtId /\ setUi(extCall[c].id, extCall[c].seen.ui)
    BY <1>0, <1>8, <2>1 DEF RegisterUiTx
  <2>3. QED
    BY <1>3, <2>1, <2>2, ExtRowKinds
<1>9. CASE UnregisterUiTx(c)
  <2> DEFINE j == extCall[c].id
  <2>1. extCall[c].op = "UnregisterUi" /\ j \in ExtId /\ (IF extCall[c].seen.kind = "ui" THEN deleteExt(j) ELSE setUi(j, "none"))
    BY <1>1, <1>9 DEF UnregisterUiTx, ExtShapeOK
  <2>2. "none" \in UiExtensionDescriptor
    BY DEF UiExtensionDescriptor
  <2>3. KindsStand(extRow, extRow')
    BY <2>1, <2>2, ExtRowKinds
  <2>4. ASSUME NEW i \in ExtId, extRow[i].live, extRow[i].kind = "backend" PROVE extRow'[i] = [extRow[i] EXCEPT !.ui = extRow'[i].ui]
    <3>1. CASE i # j
      <4>1. extRow'[i] = extRow[i]
        BY <1>1, <2>1, <3>1 DEF deleteExt, setUi
      <4>2. QED
        BY <1>1, <4>1 DEF Extension
    <3>2. CASE i = j
      <4>1. extCall[c].seen.kind = "backend"
        BY <2>1, <2>4, <3>2 DEF UiSeenOK
      <4>2. setUi(j, "none")
        BY <2>1, <4>1
      <4>3. extRow'[i] = [extRow[i] EXCEPT !.ui = "none"]
        BY <1>1, <2>4, <3>2, <4>2 DEF setUi
      <4>4. QED
        BY <1>1, <4>3 DEF Extension
    <3>3. QED
      BY <3>1, <3>2
  <2>5. QED
    BY <2>3, <2>4 DEF BackendsStand
<1>10. QED
  BY <1>2, <1>4, <1>5, <1>6, <1>7, <1>8, <1>9
     DEF ExtStep, RegisterTxFails, ExtCallFails, RegisterClient, RegisterUndo, VerifyHandshake, RotatesSecret, disableIdentity

LEMMA ExtRequestOf ==
  ASSUME ExtInv, NEW c \in ExtCall, NEW u \in User, ExtensionRoutes(u, c)
  PROVE  UNCHANGED extRow /\ \A d \in ExtCall : UiCallStands(extCall[d], extCall'[d])
<1>1. ASSUME NEW call, BeginExt(c, call), NEW d \in ExtCall, d # c PROVE UiCallStands(extCall[d], extCall'[d])
  <2>1. extCall'[d] = extCall[d] \/ extCall'[d] = [extCall[d] EXCEPT !.beside = TRUE]
    BY <1>1 DEF BeginExt
  <2>2. extCall'[d].op = extCall[d].op /\ extCall'[d].id = extCall[d].id /\ extCall'[d].seen = extCall[d].seen
    BY <2>1, ExtTypes DEF ExtCallRow
  <2>3. QED
    BY <2>2 DEF UiCallStands
<1>2. ASSUME NEW call, BeginExt(c, call), \A b \in BOOLEAN : [call EXCEPT !.beside = b].op # "UnregisterUi"
      PROVE  UNCHANGED extRow /\ \A d \in ExtCall : UiCallStands(extCall[d], extCall'[d])
  <2>1. UNCHANGED extRow /\ (\E b \in BOOLEAN : extCall'[c] = [call EXCEPT !.beside = b])
    BY <1>2 DEF BeginExt
  <2>2. ASSUME NEW d \in ExtCall, d # c PROVE UiCallStands(extCall[d], extCall'[d])
    BY <1>1, <1>2, <2>2
  <2>3. QED
    BY <1>2, <2>1, <2>2 DEF UiCallStands
<1>3. CASE register(u, c)
  <2>1. \A b \in BOOLEAN : [[IdleExtCall EXCEPT !.op = "Register", !.pc = "client"] EXCEPT !.beside = b].op # "UnregisterUi"
    BY DEF IdleExtCall
  <2>2. QED
    BY <1>2, <1>3, <2>1 DEF register, Register
<1>4. CASE verify(u, c)
  <2>1. \A i \in ExtId, b \in BOOLEAN :
           [[IdleExtCall EXCEPT !.op = "Verify", !.pc = "handshake", !.id = i, !.seen = extRow[i]] EXCEPT !.beside = b].op # "UnregisterUi"
    BY DEF IdleExtCall
  <2>2. QED
    BY <1>2, <1>4, <2>1 DEF verify, Verify
<1>5. CASE rotateIdentity(u, c)
  <2>1. PICK i \in ExtId : BeginExt(c, [IdleExtCall EXCEPT !.op = "Rotate", !.pc = IF extRow[i].client THEN "rotate" ELSE "identity", !.id = i, !.seen = extRow[i]])
    BY <1>5 DEF rotateIdentity, RotateIdentitySecret
  <2>2. \A b \in BOOLEAN : [[IdleExtCall EXCEPT !.op = "Rotate", !.pc = IF extRow[i].client THEN "rotate" ELSE "identity", !.id = i,
                                                !.seen = extRow[i]] EXCEPT !.beside = b].op # "UnregisterUi"
    BY DEF IdleExtCall
  <2>3. QED
    BY <1>2, <2>1, <2>2
<1>6. CASE unregister(u, c)
  <2>1. \A i \in ExtId, b \in BOOLEAN :
           [[IdleExtCall EXCEPT !.op = "UnregisterBackend", !.pc = "disable", !.id = i, !.seen = extRow[i]] EXCEPT !.beside = b].op # "UnregisterUi"
    BY DEF IdleExtCall
  <2>2. QED
    BY <1>2, <1>6, <2>1 DEF unregister, UnregisterBackend
<1>7. ASSUME NEW choice \in UiExtensionDescriptor, RegisterUi(c, choice)
      PROVE  UNCHANGED extRow /\ \A d \in ExtCall : UiCallStands(extCall[d], extCall'[d])
  <2>1. CASE BeginExt(c, [IdleExtCall EXCEPT !.op = "RegisterUi", !.pc = "tx", !.seen.ui = descriptorFor(choice, NoExtRow)])
    <3>1. \A b \in BOOLEAN : [[IdleExtCall EXCEPT !.op = "RegisterUi", !.pc = "tx", !.seen.ui = descriptorFor(choice, NoExtRow)]
                                EXCEPT !.beside = b].op # "UnregisterUi"
      BY DEF IdleExtCall
    <3>2. QED
      BY <1>2, <2>1, <3>1
  <2>2. ASSUME NEW i \in getByName,
               BeginExt(c, [IdleExtCall EXCEPT !.op = "RegisterUi", !.pc = "tx", !.id = i,
                                               !.seen = [extRow[i] EXCEPT !.ui = descriptorFor(choice, extRow[i])]])
        PROVE  UNCHANGED extRow /\ \A d \in ExtCall : UiCallStands(extCall[d], extCall'[d])
    <3>1. \A b \in BOOLEAN : [[IdleExtCall EXCEPT !.op = "RegisterUi", !.pc = "tx", !.id = i,
                                                  !.seen = [extRow[i] EXCEPT !.ui = descriptorFor(choice, extRow[i])]]
                                EXCEPT !.beside = b].op # "UnregisterUi"
      BY DEF IdleExtCall
    <3>2. QED
      BY <1>2, <2>2, <3>1
  <2>3. QED
    BY <1>7, <2>1, <2>2 DEF RegisterUi
<1>8. CASE unregisterUi(u, c)
  <2>1. PICK i \in GetUi : BeginExt(c, [IdleExtCall EXCEPT !.op = "UnregisterUi", !.pc = "delete", !.id = i, !.seen = extRow[i]])
    BY <1>8 DEF unregisterUi, UnregisterUi
  <2>2. i \in ExtId /\ extRow[i].live
    BY DEF GetUi, getByName
  <2>3. UNCHANGED extRow /\ \E b \in BOOLEAN :
            extCall'[c] = [[IdleExtCall EXCEPT !.op = "UnregisterUi", !.pc = "delete", !.id = i, !.seen = extRow[i]] EXCEPT !.beside = b]
    BY <2>1 DEF BeginExt
  <2>4. extCall'[c].id = i /\ extCall'[c].seen = extRow[i]
    BY <2>3 DEF IdleExtCall
  <2>5. UiCallStands(extCall[c], extCall'[c])
    BY <2>2, <2>4 DEF UiCallStands
  <2>6. QED
    BY <1>1, <2>1, <2>3, <2>5
<1>9. QED
  BY <1>3, <1>4, <1>5, <1>6, <1>7, <1>8 DEF ExtensionRoutes, registerUi

\* Taking the UI of a backend away leaves the backend, its state and its client (UnregisterUi), whatever
\* became of the row since it was read.
LEMMA ExtensionStepLeavesBackend ==
  ASSUME ExtInv, UiSeenOK(extCall, extRow), [ExtensionNext]_extensionVars
  PROVE  UiSeenOK(extCall', extRow') /\ UiLeavesBackend
<1>1. ASSUME NEW c \in ExtCall, ExtStep(c) \/ RegisterTxFails(c) \/ ExtCallFails(c) PROVE UiSeenOK(extCall', extRow') /\ UiLeavesBackend
  <2>1. KindsStand(extRow, extRow') /\ BackendsStand(c)
    BY <1>1, ExtStepRows
  <2>2. /\ \A d \in ExtCall : UiCallStands(extCall[d], extCall'[d])
        /\ \A d \in ExtCall : d # c => extCall'[d] = extCall[d]
    BY <1>1, ExtStepOf
  <2>3. QED
    BY <2>1, <2>2, UiSeenKept DEF BackendsStand, UiLeavesBackend
<1>2. ASSUME UNCHANGED extRow, \A d \in ExtCall : UiCallStands(extCall[d], extCall'[d]) PROVE UiSeenOK(extCall', extRow') /\ UiLeavesBackend
  <2>1. KindsStand(extRow, extRow') /\ \A c \in ExtCall : BackendsStand(c)
    BY <1>2, ExtRowKinds, RowsSame
  <2>2. QED
    BY <1>2, <2>1, UiSeenKept DEF BackendsStand, UiLeavesBackend
<1>3. CASE UNCHANGED extensionVars
  BY <1>2, <1>3 DEF extensionVars, UiCallStands
<1>4. QED
  BY <1>1, <1>2, <1>3, ExtRequestOf DEF ExtensionNext

-----------------------------------------------------------------------------
(* The services together *)

ServicesInv ==
    /\ DeployInv /\ ReposInv /\ AddonInv /\ ExtInv /\ UiSeenOK(extCall, extRow)
    /\ ProxyInv /\ IdentityInv /\ UserGitInv

LEMMA ServicesInvInit == ASSUME ServicesInit PROVE ServicesInv
<1>1. ExtensionInit => UiSeenOK(extCall, extRow)
  BY IdleExtFacts DEF ExtensionInit, UiSeenOK
<1>2. QED
  BY <1>1, DeployInitInv, ReposInvInit, AddonInvInit, ExtInvInit, ProxyInvInit, IdentityInvInit, UserGitInvInit DEF ServicesInit, ServicesInv

\* A step of the services is a step of each component, or leaves it as it is.
LEMMA ServicesStepOfEach ==
  ASSUME [ServicesNext]_serviceVars
  PROVE  /\ [DeployNext]_deployVars /\ [ReposNext]_repoVars /\ [AddonNext]_addonVars /\ [ExtensionNext]_extensionVars
         /\ [ProxyNext]_proxyVars /\ [IdentityNext]_identityVars /\ [UserGitNext]_userGitVars
<1>1. CASE ServicesNext
  BY <1>1 DEF ServicesNext
<1>2. CASE UNCHANGED serviceVars
  BY <1>2 DEF serviceVars
<1>3. QED
  BY <1>1, <1>2

LEMMA ServicesInvStep == ASSUME ServicesInv, [ServicesNext]_serviceVars PROVE ServicesInv'
BY ServicesStepOfEach, DeployNextInv, ReposInvStep, AddonInvStep, ExtInvStep, ExtensionStepLeavesBackend, ProxyInvStep, IdentityInvStep,
   UserGitInvStep DEF ServicesInv

\* The inductive invariant of the services holds in every behaviour.
THEOREM ServicesInvariant == ServicesSpec => []ServicesInv
<1>1. ServicesInit => ServicesInv
  BY ServicesInvInit
<1>2. ServicesInv /\ [ServicesNext]_serviceVars => ServicesInv'
  BY ServicesInvStep
<1>3. QED
  BY <1>1, <1>2, PTL DEF ServicesSpec

\* What the rows say of repositories, the secret store and clusters is true there, wherever calls
\* overlap, fail or stop (applyWithEvent, Adopt, FinalizePRMerge, RotateWebhookSecret), and every
\* component is well typed.
THEOREM ServicesRecordsAreTrue == ServicesSpec => []RecordsAreTrue
<1>1. ServicesInv => RecordsAreTrue
  BY DeployInvGives, ReposInvGives, AddonInvGives, ExtInvGives, IdentityInvGives, UserGitInvGives
     DEF ServicesInv, ProxyInv, RecordsAreTrue, ServicesTypeOK
<1>2. QED
  BY <1>1, ServicesInvariant, PTL

\* Rows and Keycloak agree on clients and providers, over undone, overlapping and failing calls
\* (exthost Register, Verify and UnregisterBackend; tenancy identity.go and broker.go).
THEOREM ServicesClientsAgree == ServicesSpec => []ClientsAgree
<1>1. ServicesInv => ClientsAgree
  BY ExtInvGives, IdentityInvGives DEF ServicesInv, ClientsAgree
<1>2. QED
  BY <1>1, ServicesInvariant, PTL

\* A cached credential is that of the user who asked, alive and persisted, is not thrown away while
\* it is good, and an authorization is completed once (exthost proxy, usergit).
THEOREM ServicesTokensRight == ServicesSpec => []TokensRight
<1>1. ServicesInv => TokensRight
  BY UserGitInvGives DEF ServicesInv, ProxyInv, TokensRight
<1>2. QED
  BY <1>1, ServicesInvariant, PTL

\* Of the services together, as of Deploy alone: behind a gate nothing reaches the base branch that
\* was not approved for its instance.
THEOREM ServicesWrittenIsApproved == ServicesSpec => []WrittenIsApproved
<1>1. ServicesInv => WrittenIsApproved
  BY DEF ServicesInv, DeployInv
<1>2. QED
  BY <1>1, ServicesInvariant, PTL

\* No call that read a row before undoes what another has written since: pruning, once enabled, stays as
\* long as the row (UpsertClusterAddon), and the removal of a UI leaves the backend (UnregisterUi).
THEOREM ServicesRowsSurvive == ServicesSpec => RowsSurvive
<1>1. ServicesInv /\ [ServicesNext]_serviceVars => [PruneKept /\ UiLeavesBackend]_serviceVars
  BY ServicesStepOfEach, AddonStepKeepsPrune, ExtensionStepLeavesBackend DEF ServicesInv
<1>2. QED
  BY <1>1, ServicesInvariant, PTL DEF ServicesSpec, RowsSurvive
=============================================================================
