------------------------------ MODULE Approvals ------------------------------
(***************************************************************************)
(* internal/approvals: the approval workflow.  A request waits as pending  *)
(* until it is decided, cancelled by its requester, or expired by the      *)
(* sweep.  Decide and Cancel read and authorize first and then run a       *)
(* transaction whose UPDATE is conditional on state = 'pending'; ExpireSweep *)
(* lists the expired requests first and updates them one transaction at a  *)
(* time.  The transaction also records the audit row and the outbox event. *)
(***************************************************************************)
EXTENDS Sequences, FiniteSets

CONSTANTS Request,      \* approval request ids
          Actor,        \* subjects that call the API
          Sweeper,      \* replicas that may run the expiry sweep
          PlatformOps,  \* actors with clusters.register or org_creator
          NoActor,
          Policy        \* how a request is decided: lifecycle when Action # "",
                        \* otherwise the policy of its catalog item

ASSUME ApprovalsAssumption ==
    /\ PlatformOps \subseteq Actor /\ NoActor \notin Actor
    /\ Policy \in [Request -> {"lifecycle", "peer", "platform"}]

VARIABLES st,         \* approval_requests.state, "none" before the row exists
          requester,  \* approval_requests.requester
          approver,   \* approval_requests.approver
          pastDue,    \* expires_at has passed
          op,         \* the call an actor has authorized and not yet committed
          swept,      \* requests an expiry sweep has listed and not yet updated
          log         \* outcome events of the request on the outbox, in order

approvalVars == <<st, requester, approver, pastDue, op, swept, log>>

NoOp == [kind |-> "idle", req |-> "none"]
Settled == {"approved", "rejected", "cancelled", "expired"}
OpKind == {"approved", "rejected", "cancelled"}

ApprovalsTypeOK ==
    /\ st \in [Request -> {"none", "pending"} \cup Settled]
    /\ requester \in [Request -> Actor \cup {NoActor}]
    /\ approver \in [Request -> Actor \cup {NoActor}]
    /\ pastDue \in [Request -> BOOLEAN]
    /\ op \in [Actor -> [kind : OpKind, req : Request] \cup {NoOp}]
    /\ swept \in [Sweeper -> SUBSET Request]
    /\ log \in [Request -> Seq(Settled)]

ApprovalsInit ==
    /\ st = [q \in Request |-> "none"]
    /\ requester = [q \in Request |-> NoActor]
    /\ approver = [q \in Request |-> NoActor]
    /\ pastDue = [q \in Request |-> FALSE]
    /\ op = [a \in Actor |-> NoOp]
    /\ swept = [w \in Sweeper |-> {}]
    /\ log = [q \in Request |-> <<>>]

\* Gate (policy other than auto) and RequestLifecycleApproval: insert the row.
CreateRequest(q, a) ==
    /\ st[q] = "none"
    /\ st' = [st EXCEPT ![q] = "pending"]
    /\ requester' = [requester EXCEPT ![q] = a]
    /\ UNCHANGED <<approver, pastDue, op, swept, log>>

\* Mutant: the requester of a lifecycle operation may decide it.
MayDecideOwn(a, q) ==
    IF Policy[q] = "peer" THEN a # requester[q] ELSE a \in PlatformOps

\* A lifecycle request (Action # "") is decided by another actor who holds
\* platform operations.
AuthorizeLifecycleApprover(a, q) == a # requester[q] /\ a \in PlatformOps

\* Otherwise the catalog item's policy rules.
CheckApprover(a, q) ==
    /\ Policy[q] = "peer" => a # requester[q]
    /\ Policy[q] = "platform" => a \in PlatformOps

MayDecide(a, q) ==
    IF Policy[q] = "lifecycle" THEN AuthorizeLifecycleApprover(a, q) ELSE CheckApprover(a, q)

\* Decide up to its transaction: the request is read, found pending, and the
\* approver authorized.
BeginDecide(a, q, outcome) ==
    /\ op[a] = NoOp /\ st[q] = "pending" /\ MayDecide(a, q)
    /\ op' = [op EXCEPT ![a] = [kind |-> outcome, req |-> q]]
    /\ UNCHANGED <<st, requester, approver, pastDue, swept, log>>

BeginCancel(a, q) ==
    /\ op[a] = NoOp /\ st[q] = "pending" /\ a = requester[q]
    /\ op' = [op EXCEPT ![a] = [kind |-> "cancelled", req |-> q]]
    /\ UNCHANGED <<st, requester, approver, pastDue, swept, log>>

\* Mutant: the UPDATE is not conditional on state = 'pending'.
SettleRowAlways(q, s) ==
    st' = [st EXCEPT ![q] = s] /\ log' = [log EXCEPT ![q] = Append(log[q], s)]
\* Mutant: the event is appended before the UPDATE, whether or not it hits.
SettleRowEager(q, s) ==
    /\ st' = [st EXCEPT ![q] = IF st[q] = "pending" THEN s ELSE st[q]]
    /\ log' = [log EXCEPT ![q] = Append(log[q], s)]

\* The conditional UPDATE and the outbox row of one transaction.
SettleRow(q, s) ==
    IF st[q] = "pending"
    THEN st' = [st EXCEPT ![q] = s] /\ log' = [log EXCEPT ![q] = Append(log[q], s)]
    ELSE UNCHANGED <<st, log>>

\* The transaction of Decide or Cancel commits, or finds the request settled
\* by someone else meanwhile (ErrAlreadyDecided).
CommitOp(a) ==
    LET q == op[a].req
        s == op[a].kind
    IN  /\ op[a] # NoOp
        /\ SettleRow(q, s)
        /\ approver' = IF st[q] = "pending" /\ s # "cancelled"
                       THEN [approver EXCEPT ![q] = a] ELSE approver
        /\ op' = [op EXCEPT ![a] = NoOp]
        /\ UNCHANGED <<requester, pastDue, swept>>

\* The transaction is rolled back (database error, cancelled request).
AbortOp(a) ==
    /\ op[a] # NoOp
    /\ op' = [op EXCEPT ![a] = NoOp]
    /\ UNCHANGED <<st, requester, approver, pastDue, swept, log>>

\* expires_at passes.
PassDue(q) ==
    /\ st[q] = "pending" /\ ~pastDue[q]
    /\ pastDue' = [pastDue EXCEPT ![q] = TRUE]
    /\ UNCHANGED <<st, requester, approver, op, swept, log>>

\* Mutant: the sweep lists the requests that are not due.
SweepListEarly(w) ==
    LET due == {q \in Request : st[q] = "pending" /\ ~pastDue[q]}
    IN  /\ swept[w] = {} /\ due # {}
        /\ swept' = [swept EXCEPT ![w] = due]
        /\ UNCHANGED <<st, requester, approver, pastDue, op, log>>

\* ExpireSweep: listExpired, then one transaction per listed request.
SweepList(w) ==
    LET due == {q \in Request : st[q] = "pending" /\ pastDue[q]}
    IN  /\ swept[w] = {} /\ due # {}
        /\ swept' = [swept EXCEPT ![w] = due]
        /\ UNCHANGED <<st, requester, approver, pastDue, op, log>>

\* Mutant: the sweep writes a state the schema does not know.
SweepOneUnknown(w, q) ==
    /\ q \in swept[w]
    /\ SettleRow(q, "lapsed")
    /\ swept' = [swept EXCEPT ![w] = swept[w] \ {q}]
    /\ UNCHANGED <<requester, approver, pastDue, op>>

SweepOne(w, q) ==
    /\ q \in swept[w]
    /\ SettleRow(q, "expired")
    /\ swept' = [swept EXCEPT ![w] = swept[w] \ {q}]
    /\ UNCHANGED <<requester, approver, pastDue, op>>

\* A failed transaction, or the loss of the lease, ends the sweep.
SweepAbort(w) ==
    /\ swept[w] # {}
    /\ swept' = [swept EXCEPT ![w] = {}]
    /\ UNCHANGED <<st, requester, approver, pastDue, op, log>>

Call(a) ==
    \/ \E q \in Request : BeginCancel(a, q)
    \/ \E q \in Request, s \in {"approved", "rejected"} : BeginDecide(a, q, s)
    \/ CommitOp(a) \/ AbortOp(a)

Sweep(w) == SweepList(w) \/ (\E q \in Request : SweepOne(w, q)) \/ SweepAbort(w)

\* Everything but the creation of requests, which the gated operation drives.
Workflow ==
    \/ \E a \in Actor : Call(a)
    \/ \E w \in Sweeper : Sweep(w)
    \/ \E q \in Request : PassDue(q)

Create == \E q \in Request, a \in Actor : CreateRequest(q, a)

ApprovalsNext == Create \/ Workflow

ApprovalsSpec == ApprovalsInit /\ [][ApprovalsNext]_approvalVars

\* RunExpiryLoop sweeps on a ticker, and expires_at is a wall-clock time.  A
\* sweep that fails forever is excluded by the strong fairness on SweepOne.
ApprovalsFairness ==
    /\ \A q \in Request : WF_approvalVars(PassDue(q))
    /\ \E w \in Sweeper :
        /\ WF_approvalVars(SweepList(w))
        /\ \A q \in Request : SF_approvalVars(SweepOne(w, q))

ApprovalsFairSpec == ApprovalsSpec /\ ApprovalsFairness

-----------------------------------------------------------------------------
(* Properties *)

\* Whatever races between deciders, the canceller and the sweeps, a request is
\* settled once and exactly that outcome is on the outbox: the resume handlers
\* never see a second or a different decision.
OneOutcome ==
    \A q \in Request :
        log[q] = IF st[q] \in Settled THEN <<st[q]>> ELSE <<>>

\* A lifecycle or peer request is never decided by its requester, even though
\* the check happens before the transaction that settles it.
NoSelfDecision ==
    \A q \in Request :
        (Policy[q] # "platform" /\ st[q] \in {"approved", "rejected"}) =>
            approver[q] # requester[q] /\ approver[q] # NoActor

\* Every pending request is settled in the end, if only by its expiry.
PendingSettles == \A q \in Request : st[q] = "pending" ~> st[q] \in Settled

\* The workflow implements its contract.
Contract == INSTANCE ApprovalContract WITH outcome <- st, announced <- log
ContractSpec == Contract!ContractSpec
=============================================================================
