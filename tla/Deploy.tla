------------------------------- MODULE Deploy -------------------------------
(***************************************************************************)
(* internal/orchestrator: deploys, upgrades, rollbacks, spec updates and   *)
(* removals of instances of one gated or ungated catalog item on one       *)
(* cluster, their resumption after an approval (resume.go), and the        *)
(* finalization of merged pull requests (with internal/gitwebhook); the    *)
(* instance rows are internal/inventory's.                                 *)
(*                                                                         *)
(* A request is a task of several steps: load and gate, git write, queue   *)
(* the registration, record.  Each step is one call to the repository, the *)
(* queue or the database; tasks interleave and may end between two steps.  *)
(* The cluster's state, the catalog and the policies are other components: *)
(* a request they refuse ends where it is loaded, so only accepted ones    *)
(* are steps.                                                              *)
(***************************************************************************)
EXTENDS Caller, Integers, FiniteSets

CONSTANTS Inst,        \* instance ids: given names, and generated ones
          Version, Spec,
          Task,        \* requests and event deliveries being handled
          Approval,    \* approval request ids
          PullRequest, \* pull request URLs
          NoInst, NoPR, NoApproval, NoContent,
          RepoTeamOwner, \* the team that owns the repository, if it is a team's
          MaxDeployRequests, \* bound: requests
          MaxFaults    \* bound: tasks that end early and events delivered again

ASSUME DeployAssumption ==
    /\ NoInst \notin Inst /\ NoPR \notin PullRequest /\ NoApproval \notin Approval
    /\ MaxDeployRequests \in Nat /\ MaxFaults \in Nat

VARIABLES gated,      \* the item's approval policy asks for an approval
          commitPolicy, \* of the repository: direct or pull_request
          instance,   \* resource_instances
          files,      \* manifests on the base branch
          committed,  \* history: instances whose manifests ever reached it
          pull,       \* pull requests of the repository
          merges,     \* outbox: git.webhook.pr_merged events not yet handled
          registration, removal, \* the agent commands of an instance
          app,        \* applications on the cluster
          approval,   \* approval requests with what they ask for
          task,       \* tasks in progress
          asked, faults  \* bounds

worldVars == <<gated, commitPolicy>>
repoSideVars == <<files, committed, pull>>
clusterSideVars == <<registration, removal, app>>
deployVars == <<worldVars, instance, repoSideVars, merges, clusterSideVars, approval, task,
                asked, faults>>

Content == [version : Version, spec : Spec]
InstanceRow == [version : Version, spec : Spec, pr : PullRequest \cup {NoPR}]
CommandStatus == {"absent", "pending", "acked"}
ApprovalRow == [action : {"deploy", "update", "delete"}, inst : Inst, existing : BOOLEAN,
                content : Content, state : {"pending", "approved", "rejected", "handled"}]
PullRow == [inst : Inst, content : Content, merged : BOOLEAN]
\* A row that is absent is none of the rows.
ASSUME AbsentAssumption == NoContent \notin Content \cup InstanceRow \cup ApprovalRow \cup PullRow
Idle == [op |-> "idle"]
DeployRequest ==
    [op : {"create", "upgrade", "update"}, inst : Inst, content : Content,
     approval : Approval \cup {NoApproval}, pr : PullRequest \cup {NoPR}, changed : BOOLEAN,
     pc : {"git", "enqueue", "record"}]
    \cup [op : {"delete"}, inst : Inst, approval : Approval \cup {NoApproval},
          pc : {"git", "enqueue", "record"}]
    \cup [op : {"finalize"}, inst : Inst, pr : PullRequest, pc : {"enqueue", "record"}]

DeployTypeOK ==
    /\ gated \in BOOLEAN /\ commitPolicy \in {"direct", "pull_request"}
    /\ instance \in [Inst -> InstanceRow \cup {NoContent}]
    /\ files \in [Inst -> Content \cup {NoContent}] /\ committed \subseteq Inst
    /\ pull \in [PullRequest -> PullRow \cup {NoContent}]
    /\ merges \subseteq PullRequest
    /\ registration \in [Inst -> CommandStatus] /\ removal \in [Inst -> CommandStatus]
    /\ app \subseteq Inst
    /\ approval \in [Approval -> ApprovalRow \cup {NoContent}]
    /\ task \in [Task -> DeployRequest \cup {Idle}]
    /\ asked \in 0 .. MaxDeployRequests /\ faults \in 0 .. MaxFaults

DeployInit ==
    /\ gated \in BOOLEAN /\ commitPolicy \in {"direct", "pull_request"}
    /\ instance = [i \in Inst |-> NoContent] /\ files = [i \in Inst |-> NoContent]
    /\ committed = {} /\ pull = [p \in PullRequest |-> NoContent] /\ merges = {}
    /\ registration = [i \in Inst |-> "absent"] /\ removal = [i \in Inst |-> "absent"]
    /\ app = {} /\ approval = [a \in Approval |-> NoContent]
    /\ task = [t \in Task |-> Idle] /\ asked = 0 /\ faults = 0

Deployed == {i \in Inst : instance[i] # NoContent}
ContentOf(i) == [version |-> instance[i].version, spec |-> instance[i].spec]

-----------------------------------------------------------------------------
(* Requests: load and gate *)

\* authorizeOrg and enforceRepoWrite of a handler: a team's repository takes
\* writes of its members and of settings administrators only.
authorizeDeploy(u, relation) == Authorized(u, relation)
enforceRepoWrite(u) ==
    \/ Check(u, "tenant_settings_write")
    \/ RepoTeamOwner \in CallerTeamIDs(u)

\* Ids are given out once, in a fixed order; none when all are taken.
NextId(f) == LET free == {k \in DOMAIN f : f[k] = NoContent} IN {k \in free : k = CHOOSE x \in free : TRUE}

\* The accepted request either waits for an approval or becomes a task.
Gate(t, request, ask) ==
    /\ task[t] = Idle /\ asked < MaxDeployRequests /\ asked' = asked + 1
    /\ IF gated
       THEN \E a \in NextId(approval) :
              /\ approval' = [approval EXCEPT ![a] = ask]
              /\ UNCHANGED task
       ELSE task' = [task EXCEPT ![t] = request] /\ UNCHANGED approval
    /\ UNCHANGED <<worldVars, instance, repoSideVars, merges, clusterSideVars, faults>>

Writing(op, i, content, a) ==
    [op |-> op, inst |-> i, content |-> content, approval |-> a, pr |-> NoPR,
     changed |-> FALSE, pc |-> "git"]
Removing(i, a) == [op |-> "delete", inst |-> i, approval |-> a, pc |-> "git"]
Asking(action, i, existing, content) ==
    [action |-> action, inst |-> i, existing |-> existing, content |-> content, state |-> "pending"]

\* Deploy of an instance name, whether or not it is in use: the row's primary
\* key decides at the end.
DeployItem(t, i, content) ==
    Gate(t, Writing("create", i, content, NoApproval), Asking("deploy", i, FALSE, content))

\* Mutant: an upgrade is not gated.
revertUngated(t, i, version) ==
    /\ i \in Deployed /\ task[t] = Idle
    /\ task' = [task EXCEPT ![t] =
           Writing("upgrade", i, [ContentOf(i) EXCEPT !.version = version], NoApproval)]
    /\ UNCHANGED <<worldVars, instance, repoSideVars, merges, clusterSideVars, approval, asked, faults>>
\* revert: the stored spec at another version.
revert(t, i, version) ==
    /\ i \in Deployed
    /\ LET content == [ContentOf(i) EXCEPT !.version = version]
       IN Gate(t, Writing("upgrade", i, content, NoApproval), Asking("deploy", i, TRUE, content))
UpgradeInstance(t, i, version) == revert(t, i, version)
\* Rollback refuses the current version.
Rollback(t, i, version) ==
    i \in Deployed /\ instance[i].version # version /\ revert(t, i, version)

UpdateSpec(t, i, spec) ==
    /\ i \in Deployed
    /\ LET content == [ContentOf(i) EXCEPT !.spec = spec]
       IN Gate(t, Writing("update", i, content, NoApproval), Asking("update", i, TRUE, content))

DeleteInstance(t, i) ==
    /\ i \in Deployed
    /\ Gate(t, Removing(i, NoApproval), Asking("delete", i, TRUE, ContentOf(i)))

-----------------------------------------------------------------------------
(* ResumeHandler: an approved request *)

\* The approvals component decides (ApprovalContract).
DecideDeploy(a) ==
    /\ approval[a] # NoContent /\ approval[a].state = "pending"
    /\ \E s \in {"approved", "rejected"} : approval' = [approval EXCEPT ![a].state = s]
    /\ UNCHANGED <<worldVars, instance, repoSideVars, merges, clusterSideVars, task, asked, faults>>

\* UpdateSpecResume writes the approved spec at the version the row has now;
\* the other writes are the request's own content.
ResumeContent(a) ==
    IF approval[a].action = "update"
    THEN [ContentOf(approval[a].inst) EXCEPT !.spec = approval[a].content.spec]
    ELSE approval[a].content
ResumeTask(a) ==
    CASE approval[a].action = "delete" -> Removing(approval[a].inst, a)
      [] approval[a].action = "update" -> Writing("update", approval[a].inst, ResumeContent(a), a)
      [] OTHER -> Writing(IF approval[a].existing THEN "upgrade" ELSE "create",
                          approval[a].inst, ResumeContent(a), a)

\* ResumeHandler.Handle on approval.decided: delivered until it is handled, and
\* sometimes again.  An instance that is gone fails the delivery; a policy
\* violation settles it.
HandleDecided(t, a) ==
    /\ task[t] = Idle /\ approval[a] # NoContent
    /\ ~\E o \in Task : task[o] # Idle /\ task[o].op # "finalize" /\ task[o].approval = a
    /\ \/ approval[a].state = "approved" /\ UNCHANGED faults
       \/ /\ approval[a].state = "handled" /\ faults < MaxFaults
          /\ faults' = faults + 1
    /\ approval[a].existing => approval[a].inst \in Deployed
    /\ \/ task' = [task EXCEPT ![t] = ResumeTask(a)] /\ UNCHANGED approval
       \/ /\ approval[a].action = "deploy" /\ UNCHANGED task
          /\ approval' = [approval EXCEPT ![a].state = "handled"]
    /\ UNCHANGED <<worldVars, instance, repoSideVars, merges, clusterSideVars, asked>>

-----------------------------------------------------------------------------
(* applyWithEvent and deleteInstance: the steps of a task *)

At(t, pc) == task[t] # Idle /\ task[t].pc = pc
Write(t) == task[t].op \in {"create", "upgrade", "update"}
Acknowledged(t) ==
    IF task[t].op # "finalize" /\ task[t].approval # NoApproval
    THEN approval' = [approval EXCEPT ![task[t].approval].state = "handled"]
    ELSE UNCHANGED approval

\* Provider.CommitFiles on the base branch; the registration is queued next.
CommitFiles(t) ==
    /\ At(t, "git") /\ Write(t) /\ commitPolicy = "direct"
    /\ files' = [files EXCEPT ![task[t].inst] = task[t].content]
    /\ committed' = committed \cup {task[t].inst}
    /\ task' = [task EXCEPT ![t] =
           [@ EXCEPT !.pc = "enqueue", !.changed = files[task[t].inst] # task[t].content]]
    /\ UNCHANGED <<worldVars, instance, pull, merges, clusterSideVars, approval, asked, faults>>

\* Mutant: the registration is queued although the pull request is open.
OpenPREager(t) ==
    /\ At(t, "git") /\ Write(t) /\ commitPolicy = "pull_request"
    /\ \E p \in NextId(pull) :
          /\ pull' = [pull EXCEPT ![p] = [inst |-> task[t].inst, content |-> task[t].content,
                                          merged |-> FALSE]]
          /\ task' = [task EXCEPT ![t].pc = "enqueue", ![t].pr = p]
    /\ UNCHANGED <<worldVars, instance, files, committed, merges, clusterSideVars, approval, asked, faults>>
\* Provider.OpenPR; the registration waits for the merge.
OpenPR(t) ==
    /\ At(t, "git") /\ Write(t) /\ commitPolicy = "pull_request"
    /\ \E p \in NextId(pull) :
          /\ pull' = [pull EXCEPT ![p] = [inst |-> task[t].inst, content |-> task[t].content,
                                          merged |-> FALSE]]
          /\ task' = [task EXCEPT ![t] = [@ EXCEPT !.pc = "record", !.pr = p]]
    /\ UNCHANGED <<worldVars, instance, files, committed, merges, clusterSideVars, approval, asked, faults>>

\* Queue.Enqueue of a command id: a second one of the same id is dropped.
EnqueueOnce(command, i) == [command EXCEPT ![i] = IF @ = "absent" THEN "pending" ELSE @]
\* Mutant: the registration is never queued.
enqueueAppRegistrationSkipped(t) ==
    /\ At(t, "enqueue") /\ task[t].op # "delete"
    /\ task' = [task EXCEPT ![t].pc = "record"]
    /\ UNCHANGED <<worldVars, instance, repoSideVars, merges, clusterSideVars, approval, asked, faults>>
\* enqueueAppRegistration, id register-argocd-app:<instance>
enqueueAppRegistration(t) ==
    /\ At(t, "enqueue") /\ task[t].op # "delete"
    /\ registration' = EnqueueOnce(registration, task[t].inst)
    /\ task' = [task EXCEPT ![t].pc = "record"]
    /\ UNCHANGED <<worldVars, instance, repoSideVars, merges, removal, app, approval, asked, faults>>

\* The transaction that creates the row; a name in use is refused, which
\* settles a resumption.
CreateRefused(t) == At(t, "record") /\ task[t].op = "create" /\ task[t].inst \in Deployed
CreateInstance(t) ==
    /\ At(t, "record") /\ task[t].op = "create"
    /\ instance' = IF CreateRefused(t) THEN instance
                   ELSE [instance EXCEPT ![task[t].inst] =
                            [version |-> task[t].content.version, spec |-> task[t].content.spec,
                             pr |-> task[t].pr]]
    /\ Acknowledged(t) /\ task' = [task EXCEPT ![t] = Idle]
    /\ UNCHANGED <<worldVars, repoSideVars, merges, clusterSideVars, asked, faults>>

\* MarkDeployed stores the version, MarkSpecUpdated the spec; both fail when the
\* row is gone.
MarkDeployed(i, content, pr) ==
    instance' = [instance EXCEPT ![i] = [@ EXCEPT !.version = content.version, !.pr = pr]]
MarkSpecUpdated(i, content, pr) ==
    instance' = [instance EXCEPT ![i] = [@ EXCEPT !.spec = content.spec, !.pr = pr]]
RecordChange(t) ==
    /\ At(t, "record") /\ task[t].op \in {"upgrade", "update"}
    /\ IF task[t].inst \notin Deployed THEN UNCHANGED <<instance, approval>>
       ELSE /\ \/ task[t].op = "upgrade" /\ MarkDeployed(task[t].inst, task[t].content, task[t].pr)
               \/ task[t].op = "update" /\ MarkSpecUpdated(task[t].inst, task[t].content, task[t].pr)
            /\ Acknowledged(t)
    /\ task' = [task EXCEPT ![t] = Idle]
    /\ UNCHANGED <<worldVars, repoSideVars, merges, clusterSideVars, asked, faults>>

\* deleteInstance: the manifests go in a direct commit, then the agent is asked
\* to delete the application (best effort), then the row goes.
DeleteFiles(t) ==
    /\ At(t, "git") /\ task[t].op = "delete"
    /\ files' = [files EXCEPT ![task[t].inst] = NoContent]
    /\ task' = [task EXCEPT ![t].pc = "enqueue"]
    /\ UNCHANGED <<worldVars, instance, committed, pull, merges, clusterSideVars, approval, asked, faults>>
enqueueAppDeletion(t) ==
    /\ At(t, "enqueue") /\ task[t].op = "delete"
    /\ removal' = EnqueueOnce(removal, task[t].inst) \/ UNCHANGED removal
    /\ task' = [task EXCEPT ![t].pc = "record"]
    /\ UNCHANGED <<worldVars, instance, repoSideVars, merges, registration, app, approval, asked, faults>>
EraseInstance(t) ==
    /\ At(t, "record") /\ task[t].op = "delete"
    /\ IF task[t].inst \in Deployed
       THEN instance' = [instance EXCEPT ![task[t].inst] = NoContent] /\ Acknowledged(t)
       ELSE UNCHANGED <<instance, approval>>
    /\ task' = [task EXCEPT ![t] = Idle]
    /\ UNCHANGED <<worldVars, repoSideVars, merges, clusterSideVars, asked, faults>>

\* A step fails or the process stops; an unacknowledged event comes again.
TaskFails(t) ==
    /\ task[t] # Idle /\ faults < MaxFaults
    /\ faults' = faults + 1 /\ task' = [task EXCEPT ![t] = Idle]
    /\ UNCHANGED <<worldVars, instance, repoSideVars, merges, clusterSideVars, approval, asked>>

-----------------------------------------------------------------------------
(* Pull requests: merge, webhook, finalization *)

\* Somebody merges; the webhook's delivery (Ingress.Receive) appends an outbox
\* event, or is lost.
MergePR(p) ==
    /\ pull[p] # NoContent /\ ~pull[p].merged
    /\ pull' = [pull EXCEPT ![p].merged = TRUE]
    /\ files' = [files EXCEPT ![pull[p].inst] = pull[p].content]
    /\ committed' = committed \cup {pull[p].inst}
    /\ merges' = merges \cup {p} \/ UNCHANGED merges
    /\ UNCHANGED <<worldVars, instance, clusterSideVars, approval, task, asked, faults>>

\* MergeFinalizer.Handle and FinalizePRMerge: the instance that waits for this
\* URL; none is an acknowledgement.  The event stays until a delivery ends, and
\* may be delivered twice at once.
FindInstanceByPRURL(p) == {i \in Deployed : instance[i].pr = p}
FinalizePRMerge(t, p) ==
    /\ task[t] = Idle /\ p \in merges
    /\ IF FindInstanceByPRURL(p) = {}
       THEN merges' = merges \ {p} /\ UNCHANGED task
       ELSE /\ \E i \in FindInstanceByPRURL(p) :
                 task' = [task EXCEPT ![t] = [op |-> "finalize", inst |-> i, pr |-> p, pc |-> "enqueue"]]
            /\ UNCHANGED merges
    /\ UNCHANGED <<worldVars, instance, repoSideVars, clusterSideVars, approval, asked, faults>>

\* Mutant: the row is written whether or not it is still there.
markInstancePRMergedUpsert(t) ==
    /\ At(t, "record") /\ task[t].op = "finalize"
    /\ instance' = [instance EXCEPT ![task[t].inst] =
           IF @ = NoContent THEN [pr |-> NoPR] ELSE [@ EXCEPT !.pr = NoPR]]
    /\ merges' = merges \ {task[t].pr}
    /\ task' = [task EXCEPT ![t] = Idle]
    /\ UNCHANGED <<worldVars, repoSideVars, clusterSideVars, approval, asked, faults>>
\* markInstancePRMerged: any pending URL of the row is cleared.
markInstancePRMerged(t) ==
    /\ At(t, "record") /\ task[t].op = "finalize"
    /\ instance' = IF task[t].inst \in Deployed
                   THEN [instance EXCEPT ![task[t].inst].pr = NoPR] ELSE instance
    /\ merges' = merges \ {task[t].pr}
    /\ task' = [task EXCEPT ![t] = Idle]
    /\ UNCHANGED <<worldVars, repoSideVars, clusterSideVars, approval, asked, faults>>

-----------------------------------------------------------------------------
(* The agent (external) executes the queue *)

AgentRegisters(i) ==
    /\ registration[i] = "pending"
    /\ registration' = [registration EXCEPT ![i] = "acked"] /\ app' = app \cup {i}
    /\ UNCHANGED <<worldVars, instance, repoSideVars, merges, removal, approval, task, asked, faults>>
AgentRemoves(i) ==
    /\ removal[i] = "pending"
    /\ removal' = [removal EXCEPT ![i] = "acked"] /\ app' = app \ {i}
    /\ UNCHANGED <<worldVars, instance, repoSideVars, merges, registration, approval, task, asked, faults>>

-----------------------------------------------------------------------------
(* Handlers *)

httpDeploy(u, t) ==
    /\ authorizeDeploy(u, "deployments_create") /\ enforceRepoWrite(u)
    /\ \E i \in Inst, content \in Content : DeployItem(t, i, content)
httpUpgrade(u, t) ==
    /\ authorizeDeploy(u, "deployments_create") /\ enforceRepoWrite(u)
    /\ \E i \in Inst, version \in Version : UpgradeInstance(t, i, version)
httpUpdateInstance(u, t) ==
    /\ authorizeDeploy(u, "deployments_create") /\ enforceRepoWrite(u)
    /\ \E i \in Inst, spec \in Spec : UpdateSpec(t, i, spec)
httpDeleteInstance(u, t) ==
    /\ authorizeDeploy(u, "deployments_create") /\ enforceRepoWrite(u)
    /\ \E i \in Inst : DeleteInstance(t, i)
httpRollback(u, t) ==
    /\ authorizeDeploy(u, "deployments_create") /\ enforceRepoWrite(u)
    /\ \E i \in Inst, version \in Version : Rollback(t, i, version)
DeployRoutes(t) ==
    \E u \in User : \/ httpDeploy(u, t) \/ httpUpgrade(u, t) \/ httpUpdateInstance(u, t)
                    \/ httpDeleteInstance(u, t) \/ httpRollback(u, t)

TaskStep(t) ==
    \/ CommitFiles(t) \/ OpenPR(t) \/ enqueueAppRegistration(t) \/ CreateInstance(t)
    \/ RecordChange(t) \/ DeleteFiles(t) \/ enqueueAppDeletion(t) \/ EraseInstance(t)
    \/ markInstancePRMerged(t)

DeployNext ==
    \/ \E t \in Task : DeployRoutes(t) \/ TaskStep(t) \/ TaskFails(t)
    \/ \E t \in Task, a \in Approval : HandleDecided(t, a)
    \/ \E t \in Task, p \in PullRequest : FinalizePRMerge(t, p)
    \/ \E a \in Approval : DecideDeploy(a)
    \/ \E p \in PullRequest : MergePR(p)
    \/ \E i \in Inst : AgentRegisters(i) \/ AgentRemoves(i)

DeploySpec == DeployInit /\ [][DeployNext]_deployVars

-----------------------------------------------------------------------------
(* Properties *)

\* The agent is asked to register an instance's application only after its
\* manifests reached the base branch: after the commit, or after the merge of a
\* pull request, whatever was retried, delivered twice or lost.
RegisteredIsCommitted == \A i \in Inst : registration[i] # "absent" => i \in committed

\* A crash never leaves a recorded instance without its application: where the row
\* waits for no pull request and nobody ever asked to remove an application of that
\* name, it is on the cluster or its registration is queued.  (A name that was removed
\* before is another matter: EachLifeIsRegistered below.)
RecordedIsRegistered ==
    \A i \in Deployed : instance[i].pr = NoPR /\ removal[i] = "absent" => registration[i] = "pending" \/ i \in app

\* Behind a gate, the spec on the base branch was approved for that instance,
\* and so was the version, unless a spec update carried over a later one.
WrittenIsApproved ==
    gated => \A i \in Inst : files[i] # NoContent =>
        \E a \in Approval :
            /\ approval[a] # NoContent /\ approval[a].inst = i
            /\ approval[a].state \in {"approved", "handled"}
            /\ approval[a].content.spec = files[i].spec
            /\ approval[a].action = "update" \/ approval[a].content.version = files[i].version

-----------------------------------------------------------------------------
(* Statements the code does not keep: TLC finds a counterexample of each  *)
(* (README, "What the code does not keep").                               *)

\* ResumeHandler: "Deployed meanwhile (e.g. duplicate delivery) - idempotent
\* no-op."  A creation refused because the instance exists has changed nothing.
RefusedIsNoOp ==
    [][\A t \in Task : CreateRefused(t) /\ task'[t] = Idle => ~task[t].changed \/ faults' # faults]_deployVars

\* enqueueAppRegistration: "command ID = instance ID + generation".  The id has no
\* generation: a name that is deployed again after its removal finds the answered
\* command of its first life, and Enqueue drops the new one (as it drops a second removal).
EachLifeIsRegistered ==
    [][\A i \in Deployed' \ Deployed : instance'[i].pr = NoPR => registration[i] = "pending" \/ i \in app]_deployVars
=============================================================================
