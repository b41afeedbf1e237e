------------------------------ MODULE Policies ------------------------------
(***************************************************************************)
(* internal/policyservice: the policies of one organization with their     *)
(* exemptions and evaluation, and a policy pack with its assignments,      *)
(* which an outbox handler distributes to the clusters.                    *)
(*                                                                         *)
(* Rows are read before the transaction that changes them, and an          *)
(* evaluation reads its policies and their exemptions one after the other. *)
(***************************************************************************)
EXTENDS Caller, Naturals

CONSTANTS PolicyId, PolicyName,
          Denying,          \* policies that deny the request under evaluation
          ExemptionId, NoPolicy,
          PackTarget,       \* targets of an assignment
          TargetMembers,    \* the clusters each target resolves to
          PolicyCall,       \* calls in progress at once
          MaxExemption,     \* MaxExemptionDuration, in ticks of the clock
          MaxPolicyTime, MaxPolicyRequests, MaxPolicyFaults  \* bounds

ASSUME PolicyAssumption ==
    /\ Denying \subseteq PolicyId /\ NoPolicy \notin PolicyId /\ DOMAIN TargetMembers = PackTarget
    /\ PolicyName # {} /\ ExemptionId # {} /\ PackTarget # {}
    /\ {MaxExemption, MaxPolicyTime, MaxPolicyRequests, MaxPolicyFaults} \subseteq Nat

VARIABLES policy,       \* policies rows
          exemption,    \* exemptions rows
          evaluation,   \* an evaluation in progress, and its decision
          pack,         \* the policy_packs row exists
          assignment,   \* policy_assignments: targets the pack is assigned to
          assigned,     \* EventPolicyPackAssigned events that are not handled yet
          bundle,       \* agent_commands: clusters with an apply-bundle command
          policyCall,   \* calls in progress
          policyNow, policyAsked, policyFaults  \* clock and bounds

policyVars == <<policy, exemption, evaluation, pack, assignment, assigned, bundle, policyCall,
                policyNow, policyAsked, policyFaults>>

PackCluster == UNION {TargetMembers[t] : t \in PackTarget}
\* used: the id was given out; ids are not given out again.
PolicyRow == [used : BOOLEAN, exists : BOOLEAN, name : PolicyName, enabled : BOOLEAN]
Exemption == [policy : PolicyId \cup {NoPolicy}, state : {"pending", "approved", "rejected"},
              expires : 0 .. MaxPolicyTime + MaxExemption]
PolicyCallRow == [pc : {"idle", "decide", "delete", "distribute"}, exemption : ExemptionId, target : PackTarget,
                  seen : SUBSET PackTarget, todo : SUBSET PackCluster]
IdlePolicyCall == [pc |-> "idle", exemption |-> CHOOSE e \in ExemptionId : TRUE, target |-> CHOOSE t \in PackTarget : TRUE,
                   seen |-> {}, todo |-> {}]
NoEvaluation == [pc |-> "idle", now |-> 0, todo |-> {}, denied |-> {}, exempted |-> {}]

\* Rows, events, commands and calls are well formed.
PolicyTypeOK ==
    /\ policy \in [PolicyId -> PolicyRow] /\ exemption \in [ExemptionId -> Exemption]
    /\ evaluation \in [pc : {"idle", "next", "done"}, now : 0 .. MaxPolicyTime, todo : SUBSET PolicyId,
                       denied : SUBSET PolicyId, exempted : SUBSET PolicyId]
    /\ pack \in BOOLEAN /\ assignment \subseteq PackTarget /\ assigned \subseteq PackTarget
    /\ bundle \subseteq PackCluster
    /\ policyCall \in [PolicyCall -> PolicyCallRow]
    /\ policyNow \in 0 .. MaxPolicyTime /\ policyAsked \in 0 .. MaxPolicyRequests
    /\ policyFaults \in 0 .. MaxPolicyFaults

PolicyInit ==
    /\ policy = [p \in PolicyId |-> [used |-> FALSE, exists |-> FALSE, name |-> CHOOSE n \in PolicyName : TRUE, enabled |-> FALSE]]
    /\ exemption = [e \in ExemptionId |-> [policy |-> NoPolicy, state |-> "pending", expires |-> 0]]
    /\ evaluation = NoEvaluation
    /\ pack = FALSE /\ assignment = {} /\ assigned = {} /\ bundle = {}
    /\ policyCall = [c \in PolicyCall |-> IdlePolicyCall]
    /\ policyNow = 0 /\ policyAsked = 0 /\ policyFaults = 0

policyRowsSame == UNCHANGED <<exemption, evaluation, pack, assignment, assigned, bundle, policyCall,
                              policyNow, policyFaults>>
packSame == UNCHANGED <<policy, exemption, evaluation, policyNow>>

-----------------------------------------------------------------------------
(* Policies *)

\* PolicyNameExists in the transaction, and the unique index behind it.
PolicyNameExists(n, except) == \E p \in PolicyId \ {except} : policy[p].exists /\ policy[p].name = n
insertPolicy(p, n) ==
    ~policy[p].used /\ policy' = [policy EXCEPT ![p] = [used |-> TRUE, exists |-> TRUE, name |-> n, enabled |-> TRUE]]
updatePolicyRow(p, n, on) ==
    policy[p].exists /\ policy' = [policy EXCEPT ![p].name = n, ![p].enabled = on]
\* The exemptions of a policy go with it (ON DELETE CASCADE).
deletePolicyRow(p) ==
    /\ policy[p].exists /\ policy' = [policy EXCEPT ![p].exists = FALSE, ![p].enabled = FALSE]
    /\ exemption' = [e \in ExemptionId |-> IF exemption[e].policy = p
                        THEN [exemption[e] EXCEPT !.policy = NoPolicy] ELSE exemption[e]]
CreatePolicy ==
    (\E p \in PolicyId, n \in PolicyName : ~PolicyNameExists(n, p) /\ insertPolicy(p, n)) /\ policyRowsSame
UpdatePolicy ==
    /\ \E p \in PolicyId, n \in PolicyName, on \in BOOLEAN : ~PolicyNameExists(n, p) /\ updatePolicyRow(p, n, on)
    /\ policyRowsSame
DeletePolicy ==
    /\ \E p \in PolicyId : deletePolicyRow(p)
    /\ UNCHANGED <<evaluation, pack, assignment, assigned, bundle, policyCall, policyNow, policyFaults>>

\* validateExemptionExpiry: in the future, and not beyond the longest duration.
validateExemptionExpiry(expires) == expires > policyNow /\ expires <= policyNow + MaxExemption
CreateExemption(e, p, expires) ==
    /\ exemption[e] = [policy |-> NoPolicy, state |-> "pending", expires |-> 0]
    /\ exemption' = [exemption EXCEPT ![e] = [policy |-> p, state |-> "pending", expires |-> expires]]
RequestExemption ==
    /\ \E e \in ExemptionId, p \in PolicyId, x \in 1 .. MaxPolicyTime + MaxExemption :
          policy[p].exists /\ validateExemptionExpiry(x) /\ CreateExemption(e, p, x)
    /\ UNCHANGED <<policy, evaluation, pack, assignment, assigned, bundle, policyCall, policyNow, policyFaults>>
\* DecideExemption reads the row, and writes it where it is still pending.
GetExemption(e) == exemption[e].policy # NoPolicy /\ exemption[e].state = "pending"
DecideExemption(c, e) ==
    /\ policyCall[c].pc = "idle" /\ GetExemption(e)
    /\ policyCall' = [policyCall EXCEPT ![c] = [IdlePolicyCall EXCEPT !.pc = "decide", !.exemption = e]]
    /\ UNCHANGED <<policy, exemption, evaluation, pack, assignment, assigned, bundle, policyNow, policyFaults>>
SetExemptionState(e, state) ==
    exemption' = IF exemption[e].policy # NoPolicy /\ exemption[e].state = "pending"
                 THEN [exemption EXCEPT ![e].state = state] ELSE exemption
DecideExemptionWrites(c) ==
    /\ policyCall[c].pc = "decide"
    /\ \E state \in {"approved", "rejected"} : SetExemptionState(policyCall[c].exemption, state)
    /\ policyCall' = [policyCall EXCEPT ![c] = IdlePolicyCall]
    /\ UNCHANGED <<policy, evaluation, pack, assignment, assigned, bundle, policyNow, policyAsked, policyFaults>>

\* ListPolicies, and those that apply.
ListPolicies == {p \in PolicyId : policy[p].exists /\ policy[p].enabled}
\* OPAEvaluator.Eval: what a policy says of the request.
Eval(p) == p \in Denying
\* evaluate (of PreFlight and RenderCheck): the time and the enabled policies are
\* read once, and the exemptions of each policy that denies when it is its turn.
evaluate ==
    /\ evaluation.pc = "idle"
    /\ evaluation' = [NoEvaluation EXCEPT !.pc = "next", !.now = policyNow,
                         !.todo = {p \in ListPolicies : Eval(p)}]
    /\ UNCHANGED <<policy, exemption, pack, assignment, assigned, bundle, policyCall, policyNow, policyFaults>>
\* The two points where policies are asked: a request and its rendered manifests.
PreFlight == evaluate
RenderCheck == evaluate
\* Mutant: an exemption is good for ever.
ListValidExemptionsForever(p, now) == {e \in ExemptionId : exemption[e].policy = p /\ exemption[e].state = "approved"}
ListValidExemptions(p, now) ==
    {e \in ExemptionId : exemption[e].policy = p /\ exemption[e].state = "approved" /\ exemption[e].expires > now}
EvalPolicy ==
    /\ evaluation.pc = "next"
    /\ \/ \E p \in evaluation.todo : evaluation' =
             [evaluation EXCEPT !.todo = @ \ {p},
                 !.denied = IF ListValidExemptions(p, evaluation.now) = {} THEN @ \cup {p} ELSE @,
                 !.exempted = IF ListValidExemptions(p, evaluation.now) = {} THEN @ ELSE @ \cup {p}]
       \/ evaluation.todo = {} /\ evaluation' = [evaluation EXCEPT !.pc = "done"]
    /\ UNCHANGED <<policy, exemption, pack, assignment, assigned, bundle, policyCall, policyNow, policyAsked, policyFaults>>
EvaluationReturns ==
    /\ evaluation.pc = "done" /\ evaluation' = NoEvaluation
    /\ UNCHANGED <<policy, exemption, pack, assignment, assigned, bundle, policyCall, policyNow, policyAsked, policyFaults>>
PolicyTick ==
    /\ policyNow < MaxPolicyTime /\ policyNow' = policyNow + 1
    /\ UNCHANGED <<policy, exemption, evaluation, pack, assignment, assigned, bundle, policyCall, policyAsked, policyFaults>>

-----------------------------------------------------------------------------
(* Packs *)

CreatePolicyPack ==
    /\ ~pack /\ pack' = TRUE /\ UNCHANGED <<assignment, assigned, bundle, policyCall, policyFaults>> /\ packSame
\* Assign: the assignment and its event, in one transaction.
CreateAssignment(t) == t \notin assignment /\ assignment' = assignment \cup {t}
Assign(t) ==
    /\ pack /\ CreateAssignment(t) /\ assigned' = assigned \cup {t}
    /\ UNCHANGED <<pack, bundle, policyCall, policyFaults>> /\ packSame
\* Unassign recalls neither the event nor what was distributed.
DeleteAssignment(t) == t \in assignment /\ assignment' = assignment \ {t}
Unassign(t) ==
    /\ pack /\ DeleteAssignment(t)
    /\ UNCHANGED <<pack, assigned, bundle, policyCall, policyFaults>> /\ packSame
\* DeletePolicyPack: the assignments are read first; the transaction deletes those
\* and fails if one is gone, and the pack takes later ones with it.
ListAssignments == assignment
DeletePolicyPack(c, force) ==
    /\ policyCall[c].pc = "idle" /\ pack /\ (ListAssignments = {} \/ force)
    /\ policyCall' = [policyCall EXCEPT ![c] = [IdlePolicyCall EXCEPT !.pc = "delete", !.seen = ListAssignments]]
    /\ UNCHANGED <<pack, assignment, assigned, bundle, policyFaults>> /\ packSame
\* ON DELETE CASCADE takes the assignments.
deletePackRow == pack /\ pack' = FALSE /\ assignment' = {}
DeletePolicyPackWrites(c) ==
    /\ policyCall[c].pc = "delete" /\ policyCall' = [policyCall EXCEPT ![c] = IdlePolicyCall]
    /\ \/ policyCall[c].seen \subseteq assignment /\ deletePackRow
       \/ ~(pack /\ policyCall[c].seen \subseteq assignment) /\ UNCHANGED <<pack, assignment>>
    /\ UNCHANGED <<assigned, bundle, policyAsked, policyFaults>> /\ packSame

targetClusters(t) == TargetMembers[t]
\* DistributeHandler.Handle: the pack and the clusters are read, and a command is
\* queued per cluster under an id of the pack and the cluster.
HandleAssigned(c, t) ==
    /\ policyCall[c].pc = "idle" /\ t \in assigned
    /\ \/ ~pack /\ assigned' = assigned \ {t} /\ UNCHANGED policyCall
       \/ /\ pack /\ UNCHANGED assigned
          /\ policyCall' = [policyCall EXCEPT ![c] = [IdlePolicyCall EXCEPT !.pc = "distribute", !.target = t,
                                                         !.todo = targetClusters(t)]]
    /\ UNCHANGED <<pack, assignment, bundle, policyAsked, policyFaults>> /\ packSame
\* Mutant: a fan-out that stopped half-way counts as handled.
distributeAcks(c) ==
    /\ policyCall[c].pc = "distribute"
    /\ \/ \E x \in policyCall[c].todo : bundle' = bundle \cup {x}
       \/ policyCall[c].todo = {} /\ UNCHANGED bundle
    /\ assigned' = assigned \ {policyCall[c].target} /\ policyCall' = [policyCall EXCEPT ![c] = IdlePolicyCall]
    /\ UNCHANGED <<pack, assignment, policyAsked, policyFaults>> /\ packSame
distribute(c) ==
    /\ policyCall[c].pc = "distribute"
    /\ \/ \E x \in policyCall[c].todo :
             /\ bundle' = bundle \cup {x} /\ UNCHANGED assigned
             /\ policyCall' = [policyCall EXCEPT ![c].todo = @ \ {x}]
       \/ /\ policyCall[c].todo = {} /\ assigned' = assigned \ {policyCall[c].target} /\ UNCHANGED bundle
          /\ policyCall' = [policyCall EXCEPT ![c] = IdlePolicyCall]
    /\ UNCHANGED <<pack, assignment, policyAsked, policyFaults>> /\ packSame
\* A call fails or its replica stops: the event is delivered again.
PolicyCallFails(c) ==
    /\ policyCall[c].pc # "idle" /\ policyFaults < MaxPolicyFaults /\ policyFaults' = policyFaults + 1
    /\ policyCall' = [policyCall EXCEPT ![c] = IdlePolicyCall]
    /\ UNCHANGED <<pack, assignment, assigned, bundle, policyAsked>> /\ packSame

-----------------------------------------------------------------------------
(* Handlers *)

authorizePolicy(u, relation) ==
    /\ Authorized(u, relation)
    /\ policyAsked < MaxPolicyRequests /\ policyAsked' = policyAsked + 1
httpCreatePolicy(u) == authorizePolicy(u, "policies_manage") /\ CreatePolicy
httpUpdatePolicy(u) == authorizePolicy(u, "policies_manage") /\ UpdatePolicy
httpDeletePolicy(u) == authorizePolicy(u, "policies_manage") /\ DeletePolicy
httpEvaluate(u) == authorizePolicy(u, "deployments_create") /\ (PreFlight \/ RenderCheck)
httpRequestExemption(u) == authorizePolicy(u, "deployments_create") /\ RequestExemption
httpDecideExemption(u) ==
    authorizePolicy(u, "policies_manage") /\ \E c \in PolicyCall, e \in ExemptionId : DecideExemption(c, e)
httpCreatePack(u) == authorizePolicy(u, "policies_manage") /\ CreatePolicyPack
httpAssignPack(u) == authorizePolicy(u, "policies_manage") /\ \E t \in PackTarget : Assign(t)
httpUnassignPack(u) == authorizePolicy(u, "policies_manage") /\ \E t \in PackTarget : Unassign(t)
httpDeletePack(u) ==
    authorizePolicy(u, "tenant_admin") /\ \E c \in PolicyCall, f \in BOOLEAN : DeletePolicyPack(c, f)
PolicyRoutes ==
    \E u \in User :
        \/ httpCreatePolicy(u) \/ httpUpdatePolicy(u) \/ httpDeletePolicy(u) \/ httpEvaluate(u)
        \/ httpRequestExemption(u) \/ httpDecideExemption(u) \/ httpCreatePack(u) \/ httpAssignPack(u)
        \/ httpUnassignPack(u) \/ httpDeletePack(u)

PolicyHandle(c) == distribute(c) \/ \E t \in PackTarget : HandleAssigned(c, t)
PolicyCallReturns(c) == DecideExemptionWrites(c) \/ DeletePolicyPackWrites(c)
PolicyNext ==
    \/ PolicyRoutes \/ EvalPolicy \/ EvaluationReturns \/ PolicyTick
    \/ \E c \in PolicyCall : PolicyCallReturns(c) \/ PolicyHandle(c) \/ PolicyCallFails(c)

-----------------------------------------------------------------------------
(* Properties *)

\* A decided exemption stays as decided, whoever else read it while it was
\* pending, until its policy is deleted.
ExemptionFinal ==
    [][\A e \in ExemptionId :
          exemption[e].state # "pending" /\ exemption'[e].policy # NoPolicy
              => exemption'[e].state = exemption[e].state]_policyVars

\* A request that passes although a policy denies it had an exemption that was
\* valid when its evaluation began (or the policy went away under it).
PassedIsExempt ==
    evaluation.pc = "done" =>
        \A p \in evaluation.exempted :
            policy[p].exists => \E e \in ExemptionId : /\ exemption[e].policy = p
                                                       /\ exemption[e].state = "approved"
                                                       /\ exemption[e].expires > evaluation.now

\* A pack that is assigned reaches every cluster of the target, after failures
\* and half-done fan-outs too (unless it is unassigned or deleted).
AssignedIsDistributed ==
    \A t \in PackTarget : []<>(t \in assignment => TargetMembers[t] \subseteq bundle)
=============================================================================
