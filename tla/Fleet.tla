------------------------------- MODULE Fleet -------------------------------
(***************************************************************************)
(* internal/fleetmanager: one staged rollout over cluster sets.  A stage   *)
(* seeds a target per member cluster, fans out commands up to its limit,   *)
(* waits for the agents' answers, and may be gated before and after.       *)
(*                                                                         *)
(* The advance loop (lease-gated), the handlers of Start and Resume and    *)
(* the approval handler all drive the same rows without a lock: each       *)
(* works on the rollout it read, and only the state column is compared     *)
(* when it writes.  A worker is one such call; its steps are its calls to  *)
(* the database and the queue.                                             *)
(***************************************************************************)
EXTENDS Caller, Integers, Sequences, FiniteSets

CONSTANTS FleetCluster, ClusterSet,
          SetSelects,    \* the clusters whose labels match a set's selector
          Stages,        \* the rollout's stages: [set, limit, before, after]
          FleetApproval, \* approval request ids
          FleetWorker,   \* handlers in progress
          Sweeper,       \* the advance loop
          NoFleetApproval,
          MaxFleetRequests, MaxFleetFaults  \* bounds

\* What CreateRollout accepts.
validateStages(stages) ==
    /\ stages # <<>>
    /\ \A i \in DOMAIN stages :
          /\ stages[i].set \in ClusterSet /\ stages[i].limit \in Nat
          /\ {stages[i].before, stages[i].after} \subseteq {"none", "wait", "approval"}
ASSUME FleetAssumption ==
    /\ validateStages(Stages)
    /\ Stages \in Seq([set : ClusterSet, limit : Nat, before : {"none", "wait", "approval"},
                        after : {"none", "wait", "approval"}])
    /\ IsFiniteSet(FleetCluster) /\ SetSelects \in [ClusterSet -> SUBSET FleetCluster]
    /\ Sweeper \notin FleetWorker /\ NoFleetApproval \notin FleetApproval
    /\ MaxFleetRequests \in Nat /\ MaxFleetFaults \in Nat

VARIABLES clusterSets,  \* cluster sets of the organization
          rollout,      \* rollouts row: state, current_stage, gate_context
          rolloutTarget,\* rollout_targets: status per stage and cluster
          fleetCmd,     \* agent_commands: apply and rollback, per stage and cluster
          gateRequest,  \* approval requests of gates
          worker,       \* calls in progress
          fleetAsked, fleetFaults  \* bounds

fleetVars == <<clusterSets, rollout, rolloutTarget, fleetCmd, gateRequest, worker,
               fleetAsked, fleetFaults>>

Stage == DOMAIN Stages
Workers == FleetWorker \cup {Sweeper}
RolloutState == {"absent", "pending", "running", "waiting_gate", "paused", "failed",
                 "completed", "rolled_back"}
RolloutGateContext ==
    [gate : {"none", "before", "after"}, type : {"none", "wait", "approval"},
     approval : FleetApproval \cup {NoFleetApproval}]
NoGate == [gate |-> "none", type |-> "none", approval |-> NoFleetApproval]
RolloutRow == [state : RolloutState, stage : 1 .. Len(Stages) + 1, gate : RolloutGateContext]
IdleWorker == [pc |-> "idle", row |-> [state |-> "absent", stage |-> 1, gate |-> NoGate],
               todo |-> {}, slots |-> 0, at |-> NoFleetApproval, request |-> NoFleetApproval]

FleetTypeOK ==
    /\ clusterSets \subseteq ClusterSet
    /\ rollout \in RolloutRow
    /\ rolloutTarget \in [Stage -> [FleetCluster -> {"absent", "pending", "delivered", "healthy", "failed"}]]
    /\ fleetCmd \in [{"apply", "rollback"} -> [Stage -> [FleetCluster -> {"absent", "pending", "acked", "nacked"}]]]
    /\ gateRequest \in [FleetApproval -> [stage : 0 .. Len(Stages) + 1, gate : {"none", "before", "after"},
                                          state : {"none", "pending", "approved", "rejected"}]]
    /\ worker \in [Workers ->
          [pc : {"idle", "start", "stop", "resume", "rollback", "rolledback", "rejected", "advance", "list",
                 "seed", "before", "ackFail", "ackTopUp", "ackAfter", "ackNext", "batch", "deliver", "mark",
                 "after", "next", "complete", "fail", "clear", "request", "link"},
           row : RolloutRow, todo : SUBSET FleetCluster, slots : 0 .. Cardinality(FleetCluster),
           at : FleetCluster \cup {NoFleetApproval}, request : FleetApproval \cup {NoFleetApproval}]]
    /\ fleetAsked \in 0 .. MaxFleetRequests /\ fleetFaults \in 0 .. MaxFleetFaults

FleetInit ==
    /\ clusterSets = ClusterSet
    /\ rollout = IdleWorker.row
    /\ rolloutTarget = [s \in Stage |-> [c \in FleetCluster |-> "absent"]]
    /\ fleetCmd = [k \in {"apply", "rollback"} |-> [s \in Stage |-> [c \in FleetCluster |-> "absent"]]]
    /\ gateRequest = [a \in FleetApproval |-> [stage |-> 0, gate |-> "none", state |-> "none"]]
    /\ worker = [w \in Workers |-> IdleWorker] /\ fleetAsked = 0 /\ fleetFaults = 0

\* rolloutTransitions
rolloutTransitions ==
    {<<"pending", "running">>, <<"pending", "failed">>,
     <<"running", "waiting_gate">>, <<"running", "paused">>, <<"running", "failed">>,
     <<"running", "completed">>, <<"running", "rolled_back">>,
     <<"waiting_gate", "running">>, <<"waiting_gate", "paused">>, <<"waiting_gate", "failed">>,
     <<"waiting_gate", "rolled_back">>,
     <<"paused", "running">>, <<"paused", "waiting_gate">>, <<"paused", "failed">>,
     <<"paused", "rolled_back">>,
     <<"failed", "rolled_back">>, <<"failed", "running">>, <<"completed", "rolled_back">>}
CanRolloutTransition(from, to) == <<from, to>> \in rolloutTransitions

\* ParseMaxConcurrency of a count, over the members of the stage.
ParseMaxConcurrency(s, members) ==
    IF Stages[s].limit > Cardinality(members) THEN Cardinality(members) ELSE Stages[s].limit

\* ClusterSetMembers and stageMembers; a deleted set is an error.
ClusterSetMembers(set) == SetSelects[set]
stageMembers(s) == ClusterSetMembers(Stages[s].set)
Resolvable(s) == Stages[s].set \in clusterSets

-----------------------------------------------------------------------------
(* Steps of a worker *)

pc(w) == worker[w].pc
Goto(w, label) == worker' = [worker EXCEPT ![w].pc = label]
FinishCall(w) == worker' = [worker EXCEPT ![w] = IdleWorker]

\* Store.setRolloutState: WHERE state = the state that was read.
setRolloutState(new, want) ==
    rollout' = IF rollout.state = want THEN new ELSE rollout

\* Service.transition from the row the worker read, and what it does next; an
\* illegal edge or a lost race ends the call.
transition(w, to, stage, gate, then) ==
    LET from == worker[w].row.state
        ok == CanRolloutTransition(from, to) /\ rollout.state = from
        new == [state |-> to, stage |-> stage, gate |-> gate]
    IN  /\ IF CanRolloutTransition(from, to)
           THEN setRolloutState(new, from) ELSE UNCHANGED rollout
        /\ IF ok /\ then # "idle" THEN worker' = [worker EXCEPT ![w].pc = then, ![w].row = new]
           ELSE FinishCall(w)
        /\ UNCHANGED <<clusterSets, rolloutTarget, fleetCmd, gateRequest, fleetAsked, fleetFaults>>

\* A handler reads the rollout.
LoadRollout(w, op) ==
    /\ w \in FleetWorker /\ pc(w) = "idle" /\ rollout.state # "absent"
    /\ worker' = [worker EXCEPT ![w] = [IdleWorker EXCEPT !.pc = op, !.row = rollout]]

StartRollout(w) == pc(w) = "start" /\ transition(w, "running", 1, NoGate, "advance")
StopRollout(w) ==
    pc(w) = "stop" /\ transition(w, "paused", worker[w].row.stage, worker[w].row.gate, "idle")
\* A rollout paused on a gate resumes into the gate.
ResumeRollout(w) ==
    /\ pc(w) = "resume"
    /\ transition(w, IF worker[w].row.gate = NoGate THEN "running" ELSE "waiting_gate",
                  worker[w].row.stage, worker[w].row.gate, "advance")

\* Rollback: the previous version for every member of every stage, the last
\* stage first; a command that is queued already is kept, and a deleted set ends
\* the call with the later stages queued.  Nothing reads these commands here, so
\* the loop that queues them is one step.
EnqueueRollback(w) ==
    LET queued == {s \in Stage : \A t \in Stage : t >= s => Resolvable(t)}
    IN  /\ pc(w) = "rollback" /\ worker[w].row.state \notin {"pending", "rolled_back"}
        /\ fleetCmd' = [fleetCmd EXCEPT !["rollback"] =
              [s \in Stage |-> [c \in FleetCluster |->
                  IF s \in queued /\ c \in stageMembers(s) /\ @[s][c] = "absent"
                  THEN "pending" ELSE @[s][c]]]]
        /\ IF queued = Stage THEN Goto(w, "rolledback") ELSE FinishCall(w)
        /\ UNCHANGED <<clusterSets, rollout, rolloutTarget, gateRequest, fleetAsked, fleetFaults>>
\* Then the state, from the one that was read before the commands were queued.
RollbackRollout(w) ==
    pc(w) = "rolledback" /\ transition(w, "rolled_back", worker[w].row.stage, NoGate, "idle")
RollbackRefused(w) ==
    /\ pc(w) = "rollback" /\ worker[w].row.state \in {"pending", "rolled_back"}
    /\ FinishCall(w)
    /\ UNCHANGED <<clusterSets, rollout, rolloutTarget, fleetCmd, gateRequest, fleetAsked, fleetFaults>>

\* clearGate: a before-gate re-enters its stage, an after-gate the next.
clearGate(w) ==
    /\ pc(w) = "clear"
    /\ transition(w, "running",
                  worker[w].row.stage + (IF worker[w].row.gate.gate = "after" THEN 1 ELSE 0),
                  NoGate, "idle")

\* ResumeHandler.Handle of a decision: gateApproved and gateRejected compare the
\* stage and the gate with the row they read, and ignore the request id.
GateDecided(w, a) ==
    /\ w \in FleetWorker /\ pc(w) = "idle" /\ gateRequest[a].state \in {"approved", "rejected"}
    /\ rollout.stage = gateRequest[a].stage /\ rollout.gate # NoGate
    /\ gateRequest[a].state = "approved" => rollout.gate.gate = gateRequest[a].gate
    /\ rollout.state \in {"waiting_gate", "paused"}
    /\ worker' = [worker EXCEPT ![w] = [IdleWorker EXCEPT !.row = rollout,
           !.pc = IF gateRequest[a].state = "approved" THEN "clear" ELSE "rejected"]]
    /\ UNCHANGED <<clusterSets, rollout, rolloutTarget, fleetCmd, gateRequest, fleetAsked, fleetFaults>>
gateRejected(w) ==
    pc(w) = "rejected" /\ transition(w, "failed", worker[w].row.stage, worker[w].row.gate, "idle")

\* enterGate: parks the rollout, then asks for the approval.
enterGate(w, which) ==
    LET s == worker[w].row.stage
        type == IF which = "before" THEN Stages[s].before ELSE Stages[s].after
    IN  pc(w) = which
        /\ transition(w, "waiting_gate", s,
                      [gate |-> which, type |-> type, approval |-> NoFleetApproval],
                      IF type = "approval" THEN "request" ELSE "idle")

\* requestGateApproval: the request is created, then linked to the gate if the
\* rollout is still parked there without one.
requestGateApproval(w) ==
    /\ pc(w) = "request"
    /\ \E a \in FleetApproval :
          /\ gateRequest[a].state = "none"
          /\ gateRequest' = [gateRequest EXCEPT ![a] =
                [stage |-> worker[w].row.stage, gate |-> worker[w].row.gate.gate, state |-> "pending"]]
          /\ worker' = [worker EXCEPT ![w].pc = "link", ![w].request = a]
    /\ UNCHANGED <<clusterSets, rollout, rolloutTarget, fleetCmd, fleetAsked, fleetFaults>>
setGateApproval(w) ==
    /\ pc(w) = "link"
    /\ rollout' = IF /\ rollout.state = "waiting_gate" /\ rollout.stage = worker[w].row.stage
                     /\ rollout.gate.gate = worker[w].row.gate.gate
                     /\ rollout.gate.approval = NoFleetApproval
                  THEN [rollout EXCEPT !.gate.approval = worker[w].request] ELSE rollout
    /\ FinishCall(w)
    /\ UNCHANGED <<clusterSets, rolloutTarget, fleetCmd, gateRequest, fleetAsked, fleetFaults>>

-----------------------------------------------------------------------------
(* advanceOnce *)

\* AdvanceSweep lists the active rollouts; advance re-reads each.
AdvanceSweep ==
    /\ pc(Sweeper) = "idle" /\ rollout.state \in {"running", "waiting_gate"}
    /\ Goto(Sweeper, "advance")
    /\ UNCHANGED <<clusterSets, rollout, rolloutTarget, fleetCmd, gateRequest, fleetAsked, fleetFaults>>

\* Mutant: a gate without its request is left alone.
advanceGateForgets == "idle"
advanceGate ==
    IF rollout.gate.type = "approval" /\ rollout.gate.approval = NoFleetApproval
    THEN "request" ELSE "idle"

\* The state decides: nothing to do, a gate that may be over, or a stage.
advanceOnce(w) ==
    /\ pc(w) = "advance"
    /\ \E next \in {"idle", "clear", "request", "complete", "list"} :
          /\ CASE rollout.state = "running" ->
                    next = IF rollout.stage > Len(Stages) THEN "complete" ELSE "list"
               [] rollout.state = "waiting_gate" /\ rollout.gate = NoGate -> next = "clear"
               [] rollout.state = "waiting_gate" /\ rollout.gate.type = "wait" ->
                    next \in {"idle", "clear"}
               [] rollout.state = "waiting_gate" -> next = advanceGate
               [] OTHER -> next = "idle"
          /\ worker' = [worker EXCEPT ![w] = [IdleWorker EXCEPT !.pc = next,
                !.row = IF next = "idle" THEN IdleWorker.row ELSE rollout]]
    /\ UNCHANGED <<clusterSets, rollout, rolloutTarget, fleetCmd, gateRequest, fleetAsked, fleetFaults>>

Seeded(s) == {c \in FleetCluster : rolloutTarget[s][c] # "absent"}

\* No targets yet: seed them, one upsert each.
SeedBegin(w) ==
    LET s == worker[w].row.stage
    IN  /\ pc(w) = "list" /\ Seeded(s) = {} /\ Resolvable(s)
        /\ worker' = [worker EXCEPT ![w].todo = stageMembers(s),
              ![w].pc = IF stageMembers(s) = {} THEN "fail" ELSE "seed"]
        /\ UNCHANGED <<clusterSets, rollout, rolloutTarget, fleetCmd, gateRequest, fleetAsked, fleetFaults>>
SeedUnresolved(w) ==
    /\ pc(w) = "list" /\ Seeded(worker[w].row.stage) = {} /\ ~Resolvable(worker[w].row.stage)
    /\ FinishCall(w)
    /\ UNCHANGED <<clusterSets, rollout, rolloutTarget, fleetCmd, gateRequest, fleetAsked, fleetFaults>>
\* Store.upsertTarget
upsertTarget(s, c, status) == rolloutTarget' = [rolloutTarget EXCEPT ![s][c] = status]
SeedTarget(w) ==
    LET s == worker[w].row.stage
    IN  /\ pc(w) = "seed"
        /\ \E c \in worker[w].todo :
              /\ upsertTarget(s, c, "pending")
              /\ IF worker[w].todo # {c} THEN worker' = [worker EXCEPT ![w].todo = @ \ {c}]
                 ELSE worker' = [worker EXCEPT ![w].todo = {},
                         ![w].pc = IF Stages[s].before # "none" THEN "before" ELSE "batch",
                         ![w].slots = ParseMaxConcurrency(s, stageMembers(s))]
        /\ UNCHANGED <<clusterSets, rollout, fleetCmd, gateRequest, fleetAsked, fleetFaults>>

\* Targets exist: listTargets and commandStatuses, and what their counts say to do
\* once the answers are carried over.
Reconciled(s) ==
    [c \in FleetCluster |->
        IF rolloutTarget[s][c] # "delivered" THEN rolloutTarget[s][c]
        ELSE CASE fleetCmd["apply"][s][c] = "acked" -> "healthy"
               [] fleetCmd["apply"][s][c] = "nacked" -> "failed"
               [] OTHER -> "delivered"]
ReconcileTargets(w) ==
    LET s == worker[w].row.stage
        t == Reconciled(s)
        active == {c \in FleetCluster : t[c] = "delivered"}
        pending == {c \in FleetCluster : t[c] = "pending"}
        free == ParseMaxConcurrency(s, stageMembers(s)) - Cardinality(active)
    IN  /\ pc(w) = "list" /\ Seeded(s) # {}
        /\ worker' = [worker EXCEPT ![w].todo = {c \in FleetCluster : t[c] # rolloutTarget[s][c]},
              ![w].slots = IF free > 0 THEN free ELSE 0,
              ![w].pc = IF \E c \in FleetCluster : t[c] = "failed" THEN "ackFail"
                        ELSE IF pending \cup active # {} THEN "ackTopUp"
                        ELSE IF Stages[s].after # "none" THEN "ackAfter" ELSE "ackNext"]
        /\ UNCHANGED <<clusterSets, rollout, rolloutTarget, fleetCmd, gateRequest, fleetAsked, fleetFaults>>
\* setTargetStatus, one target at a time, whatever the target has become meanwhile.
Acks == {"ackFail", "ackTopUp", "ackAfter", "ackNext"}
setTargetStatus(w) ==
    LET s == worker[w].row.stage
    IN  /\ pc(w) \in Acks
        /\ \E c \in worker[w].todo :
              /\ \/ fleetCmd["apply"][s][c] = "acked" /\ upsertTarget(s, c, "healthy")
                 \/ fleetCmd["apply"][s][c] = "nacked" /\ upsertTarget(s, c, "failed")
              /\ worker' = [worker EXCEPT ![w].todo = @ \ {c}]
        /\ UNCHANGED <<clusterSets, rollout, fleetCmd, gateRequest, fleetAsked, fleetFaults>>
\* A stage is topped up over the members its set has now.
TargetsReconciled(w) ==
    /\ pc(w) \in Acks /\ worker[w].todo = {}
    /\ CASE pc(w) = "ackFail" -> Goto(w, "fail")
         [] pc(w) = "ackAfter" -> Goto(w, "after")
         [] pc(w) = "ackNext" -> Goto(w, "next")
         [] pc(w) = "ackTopUp" /\ Resolvable(worker[w].row.stage) /\ worker[w].slots > 0 -> Goto(w, "batch")
         [] OTHER -> FinishCall(w)
    /\ UNCHANGED <<clusterSets, rollout, rolloutTarget, fleetCmd, gateRequest, fleetAsked, fleetFaults>>

\* deliverBatch lists the targets once and takes up to slots pending ones.
deliverBatch(w) ==
    LET pending == {c \in FleetCluster : rolloutTarget[worker[w].row.stage][c] = "pending"}
    IN  /\ pc(w) = "batch"
        /\ \E batch \in SUBSET pending :
              /\ Cardinality(batch) = IF worker[w].slots < Cardinality(pending)
                                      THEN worker[w].slots ELSE Cardinality(pending)
              /\ IF batch = {} THEN FinishCall(w)
                 ELSE worker' = [worker EXCEPT ![w].pc = "deliver", ![w].todo = batch]
        /\ UNCHANGED <<clusterSets, rollout, rolloutTarget, fleetCmd, gateRequest, fleetAsked, fleetFaults>>

\* Mutant: the target is marked although its command was not queued.
EnqueueRolloutSkipped(w) ==
    /\ pc(w) = "deliver"
    /\ \E c \in worker[w].todo : worker' = [worker EXCEPT ![w].pc = "mark", ![w].at = c]
    /\ UNCHANGED <<clusterSets, rollout, rolloutTarget, fleetCmd, gateRequest, fleetAsked, fleetFaults>>
\* For each: Enqueue of its command (commandFor names it after stage and
\* cluster, so a second one is dropped), then the upsert of its row.
EnqueueRollout(w) ==
    /\ pc(w) = "deliver"
    /\ \E c \in worker[w].todo :
          /\ fleetCmd' = [fleetCmd EXCEPT !["apply"][worker[w].row.stage][c] =
                IF @ = "absent" THEN "pending" ELSE @]
          /\ worker' = [worker EXCEPT ![w].pc = "mark", ![w].at = c]
    /\ UNCHANGED <<clusterSets, rollout, rolloutTarget, gateRequest, fleetAsked, fleetFaults>>
MarkDeliveredTarget(w) ==
    /\ pc(w) = "mark"
    /\ upsertTarget(worker[w].row.stage, worker[w].at, "delivered")
    /\ IF worker[w].todo = {worker[w].at} THEN FinishCall(w)
       ELSE worker' = [worker EXCEPT ![w].pc = "deliver", ![w].todo = @ \ {worker[w].at}]
    /\ UNCHANGED <<clusterSets, rollout, fleetCmd, gateRequest, fleetAsked, fleetFaults>>

\* advanceStage: running stays running, the stage is written whatever it was.
advanceStage(w) ==
    LET row == [worker[w].row EXCEPT !.stage = @ + 1, !.gate = NoGate]
    IN  /\ pc(w) = "next"
        /\ setRolloutState(row, worker[w].row.state)
        /\ IF rollout.state = worker[w].row.state THEN Goto(w, "advance") ELSE FinishCall(w)
        /\ UNCHANGED <<clusterSets, rolloutTarget, fleetCmd, gateRequest, fleetAsked, fleetFaults>>
failRollout(w) ==
    pc(w) = "fail" /\ transition(w, "failed", worker[w].row.stage, worker[w].row.gate, "idle")
CompleteRollout(w) ==
    pc(w) = "complete" /\ transition(w, "completed", worker[w].row.stage, NoGate, "idle")

WorkerStep(w) ==
    \/ StartRollout(w) \/ StopRollout(w) \/ ResumeRollout(w) \/ RollbackRollout(w)
    \/ EnqueueRollback(w) \/ RollbackRefused(w) \/ clearGate(w) \/ gateRejected(w)
    \/ enterGate(w, "before") \/ enterGate(w, "after")
    \/ requestGateApproval(w) \/ setGateApproval(w)
    \/ advanceOnce(w) \/ SeedBegin(w) \/ SeedUnresolved(w) \/ SeedTarget(w) \/ ReconcileTargets(w)
    \/ setTargetStatus(w) \/ TargetsReconciled(w)
    \/ deliverBatch(w) \/ EnqueueRollout(w) \/ MarkDeliveredTarget(w)
    \/ advanceStage(w) \/ failRollout(w) \/ CompleteRollout(w)

\* A call fails or its process dies between two steps.
WorkerFails(w) ==
    /\ pc(w) # "idle" /\ fleetFaults < MaxFleetFaults
    /\ fleetFaults' = fleetFaults + 1 /\ FinishCall(w)
    /\ UNCHANGED <<clusterSets, rollout, rolloutTarget, fleetCmd, gateRequest, fleetAsked>>

\* The agents answer, the approvers decide (external).  Nothing reads the
\* answers to rollback commands, so they are left out.
AgentAnswersRollout ==
    /\ \E s \in Stage, c \in FleetCluster, r \in {"acked", "nacked"} :
          /\ fleetCmd["apply"][s][c] = "pending"
          /\ fleetCmd' = [fleetCmd EXCEPT !["apply"][s][c] = r]
    /\ UNCHANGED <<clusterSets, rollout, rolloutTarget, gateRequest, worker, fleetAsked, fleetFaults>>
DecideGate ==
    /\ \E a \in FleetApproval, r \in {"approved", "rejected"} :
          /\ gateRequest[a].state = "pending"
          /\ gateRequest' = [gateRequest EXCEPT ![a].state = r]
    /\ UNCHANGED <<clusterSets, rollout, rolloutTarget, fleetCmd, worker, fleetAsked, fleetFaults>>

-----------------------------------------------------------------------------
(* Handlers *)

authorizeFleet(u, relation) ==
    Authorized(u, relation) /\ fleetAsked < MaxFleetRequests /\ fleetAsked' = fleetAsked + 1

\* CreateRollout after validateStages: every stage names an existing set.
httpCreateRollout(u) ==
    /\ authorizeFleet(u, "fleet_manage") /\ rollout.state = "absent"
    /\ \A s \in Stage : Resolvable(s)
    /\ rollout' = [rollout EXCEPT !.state = "pending"]
    /\ UNCHANGED <<clusterSets, rolloutTarget, fleetCmd, gateRequest, worker, fleetFaults>>
RolloutHandler(u, w, op) ==
    /\ authorizeFleet(u, "fleet_manage") /\ LoadRollout(w, op)
    /\ UNCHANGED <<clusterSets, rollout, rolloutTarget, fleetCmd, gateRequest, fleetFaults>>
httpStartRollout(u, w) == RolloutHandler(u, w, "start")
httpStopRollout(u, w) == RolloutHandler(u, w, "stop")
httpResumeRollout(u, w) == RolloutHandler(u, w, "resume")
httpRollbackRollout(u, w) == RolloutHandler(u, w, "rollback")
\* A set may go while a rollout names it.
httpDeleteClusterSet(u) ==
    /\ authorizeFleet(u, "fleet_manage")
    /\ \E set \in clusterSets : clusterSets' = clusterSets \ {set}
    /\ UNCHANGED <<rollout, rolloutTarget, fleetCmd, gateRequest, worker, fleetFaults>>

FleetRoutes ==
    \E u \in User :
        \/ httpCreateRollout(u) \/ httpDeleteClusterSet(u)
        \/ \E w \in FleetWorker : \/ httpStartRollout(u, w) \/ httpStopRollout(u, w)
                                  \/ httpResumeRollout(u, w) \/ httpRollbackRollout(u, w)

FleetNext ==
    \/ FleetRoutes \/ AdvanceSweep \/ AgentAnswersRollout \/ DecideGate
    \/ \E w \in Workers : WorkerStep(w) \/ WorkerFails(w)
    \/ \E w \in FleetWorker, a \in FleetApproval : GateDecided(w, a)

FleetSpec == FleetInit /\ [][FleetNext]_fleetVars

-----------------------------------------------------------------------------
(* Properties *)

\* The state only moves along the edges of the state machine, although every
\* caller decides on a row it read some steps ago.
RolloutFollowsMachine ==
    [][rollout'.state # rollout.state =>
          \/ <<rollout.state, rollout'.state>> = <<"absent", "pending">>
          \/ CanRolloutTransition(rollout.state, rollout'.state)]_fleetVars

\* A target that counts as delivered, healthy or failed has its command in the
\* queue, and a healthy one its agent's acknowledgement: no crash between the
\* queue and the target row makes a stage pass over a cluster that got nothing.
TargetBacked ==
    \A s \in Stage, c \in FleetCluster :
        /\ rolloutTarget[s][c] \in {"delivered", "healthy", "failed"} => fleetCmd["apply"][s][c] # "absent"
        /\ rolloutTarget[s][c] = "healthy" => fleetCmd["apply"][s][c] = "acked"

\* The request that a crash lost between parking on an approval gate and asking
\* for the approval is made by a later sweep (while the bound on ids allows it).
AskedAtGate == rollout.state = "waiting_gate" /\ rollout.gate.type = "approval"
               /\ rollout.gate.approval = NoFleetApproval
GateIsRequested == []<>(~AskedAtGate \/ \A a \in FleetApproval : gateRequest[a].state # "none")

\* A rollout moves, and only along its edges.
RolloutMovesOn == RolloutFollowsMachine /\ GateIsRequested
=============================================================================
