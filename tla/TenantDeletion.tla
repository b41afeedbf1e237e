--------------------------- MODULE TenantDeletion ---------------------------
(***************************************************************************)
(* internal/tenancy deletion.go and deletion_resume.go: the decommission   *)
(* of one tenant.  DeleteTenant freezes the organization and opens a       *)
(* lifecycle approval; DeletionResumeHandler receives the outcome from the *)
(* outbox (at least once, possibly on two replicas at the same time) and   *)
(* tears the tenant down or restores it; RetryDeletion and the start-up    *)
(* scan resume a failed or crashed teardown.  The tuple writer sweeps and  *)
(* re-seeds the OpenFGA tuples from its own events.                        *)
(*                                                                         *)
(* Approvals enter through their contract (ApprovalContract, implemented   *)
(* by Approvals), the outbox through what Outbox shows of it: an outcome   *)
(* is delivered until it is acked or MaxDeliver deliveries are used up.    *)
(***************************************************************************)
EXTENDS ApprovalContract, Integers, FiniteSets

CONSTANTS Worker,       \* goroutines that may run the teardown
          Caller,       \* concurrent DELETE /tenants/{org} calls
          NoReq,        \* no approval request
          MaxDeliver,   \* delivery budget of an outcome event
          MaxNaks,      \* bound: redeliveries of tuple-writer events
          MaxFaults     \* bound: crashes and failing teardown steps

ASSUME TenantDeletionAssumption ==
    /\ NoReq \notin Request
    /\ MaxDeliver \in Nat \ {0} /\ MaxNaks \in Nat /\ MaxFaults \in Nat

VARIABLES orgSt,      \* organizations.status, "gone" without a row
          del,        \* the tenant_deletions row
          cluster,    \* a cluster of the org: none, live, revoked
          kcOrg,      \* the Keycloak organization exists
          kcGroup,    \* the Keycloak group tree exists
          tuples,     \* the org's tuples are in OpenFGA
          archived,   \* archive_audit has run
          terminal,   \* where the latest tenant.deleted audit row is
          call,       \* DeleteTenant calls in progress
          run,        \* what each worker is doing
          tries,      \* deliveries of the outcome event of a request
          acked,      \* the outcome event is settled
          scanDue,    \* the lease of the resume scan was just acquired
          twq,        \* events the tuple writer has not processed
          naks,       \* tuple-writer redeliveries still to come
          faults      \* crashes and failures still to come

orgVars == <<orgSt, del, cluster, kcOrg, kcGroup, tuples, archived, terminal>>
evVars == <<tries, acked>>
twVars == <<twq, naks>>
vars == <<contractVars, orgVars, call, run, evVars, scanDue, twVars, faults>>

\* deletionSteps: 1 revoke_clusters, 2 archive_audit, 3 fga_cleanup,
\* 4 delete_keycloak_org, 5 delete_org_row; step is the last completed one.
Step == 0 .. 4
NoDel == [state |-> "none", step |-> 0, force |-> FALSE, approval |-> NoReq]
Idle == [pc |-> "idle", req |-> NoReq, step |-> 0, force |-> FALSE, snap |-> FALSE]
NoCall == [pc |-> "idle", force |-> FALSE, req |-> NoReq]

DelRow == [state : {"none", "awaiting", "deleting", "failed"}, step : Step,
           force : BOOLEAN, approval : Request \cup {NoReq}]
CallState == [pc : {"idle", "checked", "frozen", "opened"},
              force : BOOLEAN, req : Request \cup {NoReq}]
RunState == [pc : {"idle", "approve", "restore", "retry", "load", "work", "group", "mark"},
             req : Request \cup {NoReq}, step : Step, force : BOOLEAN, snap : BOOLEAN]

TypeOK ==
    /\ outcome \in [Request -> {"none", "pending"} \cup Settlement]
    /\ orgSt \in {"active", "deleting", "gone"}
    /\ del \in DelRow
    /\ cluster \in {"none", "live", "revoked"}
    /\ kcOrg \in BOOLEAN /\ kcGroup \in BOOLEAN /\ tuples \in BOOLEAN /\ archived \in BOOLEAN
    /\ terminal \in {"none", "live", "archived"}
    /\ call \in [Caller -> CallState]
    /\ run \in [Worker -> RunState]
    /\ tries \in [Request -> 0 .. MaxDeliver]
    /\ acked \in [Request -> BOOLEAN]
    /\ scanDue \in BOOLEAN
    /\ twq \in Seq({"deleting", "restored"})
    /\ naks \in 0 .. MaxNaks /\ faults \in 0 .. MaxFaults

Init ==
    /\ ContractInit
    /\ orgSt = "active" /\ del = NoDel /\ cluster \in {"none", "live"}
    /\ kcOrg = TRUE /\ kcGroup = TRUE /\ tuples = TRUE
    /\ archived = FALSE /\ terminal = "none"
    /\ call = [c \in Caller |-> NoCall]
    /\ run = [w \in Worker |-> Idle]
    /\ tries = [q \in Request |-> 0]
    /\ acked = [q \in Request |-> FALSE]
    /\ scanDue = TRUE
    /\ twq = <<>>
    /\ naks = MaxNaks /\ faults = MaxFaults

-----------------------------------------------------------------------------
(* DeleteTenant *)

\* The org is read and is not frozen yet; ListDeletionBlockers finds nothing,
\* or force is set.  A frozen org only has its approval id returned.
RequestRead(c, force) ==
    /\ call[c] = NoCall /\ orgSt = "active"
    /\ force \/ cluster # "live"
    /\ call' = [call EXCEPT ![c] = [pc |-> "checked", force |-> force, req |-> NoReq]]
    /\ UNCHANGED <<contractVars, orgVars, run, evVars, scanDue, twVars, faults>>

\* The freeze transaction: status, tracking row and tenant.deleting event; the
\* primary key of tenant_deletions, and its foreign key, roll a second one back.
Freeze(c) ==
    /\ call[c].pc = "checked"
    /\ \/ /\ del.state = "none" /\ orgSt # "gone"
          /\ orgSt' = "deleting"
          /\ del' = [state |-> "awaiting", step |-> 0, force |-> call[c].force, approval |-> NoReq]
          /\ twq' = Append(twq, "deleting")
          /\ call' = [call EXCEPT ![c].pc = "frozen"]
       \/ /\ del.state # "none" \/ orgSt = "gone"
          /\ call' = [call EXCEPT ![c] = NoCall]
          /\ UNCHANGED <<orgSt, del, twq>>
    /\ UNCHANGED <<contractVars, cluster, kcOrg, kcGroup, tuples, archived, terminal,
                   run, evVars, scanDue, naks, faults>>

\* RequestLifecycleApproval (its row refers to the organization).
OpenApproval(c, q) ==
    /\ call[c].pc = "frozen" /\ orgSt # "gone"
    /\ Open(q)
    /\ call' = [call EXCEPT ![c].pc = "opened", ![c].req = q]
    /\ UNCHANGED <<orgVars, run, evVars, scanDue, twVars, faults>>

\* SetTenantDeletionApproval: an UPDATE by org id, whatever the row is by now.
LinkApproval(c) ==
    /\ call[c].pc = "opened"
    /\ del' = IF del.state = "none" THEN del ELSE [del EXCEPT !.approval = call[c].req]
    /\ call' = [call EXCEPT ![c] = NoCall]
    /\ UNCHANGED <<contractVars, orgSt, cluster, kcOrg, kcGroup, tuples, archived, terminal,
                   run, evVars, scanDue, twVars, faults>>

\* The call is cut short: database error, client gone, process killed.
CallAborts(c) ==
    /\ call[c] # NoCall /\ faults > 0
    /\ faults' = faults - 1
    /\ call' = [call EXCEPT ![c] = NoCall]
    /\ UNCHANGED <<contractVars, orgVars, run, evVars, scanDue, twVars>>

-----------------------------------------------------------------------------
(* The neighbours: approvals, clusterregistry, the tuple writer *)

\* A request of the org is decided, cancelled or expires.
Decision(q, s) ==
    /\ orgSt # "gone" /\ Settle(q, s)
    /\ UNCHANGED <<orgVars, call, run, evVars, scanDue, twVars, faults>>

\* CreateCluster does not look at the status of the organization.
RegisterCluster ==
    /\ orgSt # "gone" /\ cluster = "none"
    /\ cluster' = "live"
    /\ UNCHANGED <<contractVars, orgSt, del, kcOrg, kcGroup, tuples, archived, terminal,
                   call, run, evVars, scanDue, twVars, faults>>

\* TupleWriter.Handle for tenant.deleting and tenant.restored.
WriteTuples ==
    /\ twq # <<>>
    /\ tuples' = (Head(twq) = "restored")
    /\ twq' = Tail(twq)
    /\ UNCHANGED <<contractVars, orgSt, del, cluster, kcOrg, kcGroup, archived, terminal,
                   call, run, evVars, scanDue, naks, faults>>

\* OpenFGA fails: the event is redelivered behind the ones that follow it.
NakTuples ==
    /\ naks > 0 /\ Len(twq) > 1
    /\ naks' = naks - 1
    /\ twq' = Append(Tail(twq), Head(twq))
    /\ UNCHANGED <<contractVars, orgVars, call, run, evVars, scanDue, faults>>

-----------------------------------------------------------------------------
(* DeletionResumeHandler.Handle *)

\* EventTypes: approval.decided and approval.cancelled, not approval.expired.
Subscribed(q) == outcome[q] \in {"approved", "rejected", "cancelled"}

\* Mutant: no delivery budget.
DeliverableForever(q) == Subscribed(q) /\ ~acked[q]

Deliverable(q) == Subscribed(q) /\ ~acked[q] /\ tries[q] < MaxDeliver

\* Mutant: everything but a rejection runs the teardown.
HandleOutcomeDefault(w, q) ==
    /\ run[w] = Idle /\ Deliverable(q)
    /\ tries' = [tries EXCEPT ![q] = tries[q] + 1]
    /\ run' = IF orgSt = "gone" THEN run
              ELSE [run EXCEPT ![w] =
                       [Idle EXCEPT !.pc = IF outcome[q] # "rejected" THEN "approve" ELSE "restore",
                                    !.req = q, !.snap = del.state # "none"]]
    /\ UNCHANGED <<contractVars, orgVars, call, acked, scanDue, twVars, faults>>

\* approvals.Get fails once the request has cascaded away with the org, and
\* the delivery is spent; otherwise the outcome selects the operation.
\* restoreOrg reads the snapshot before its transaction.
HandleOutcome(w, q) ==
    /\ run[w] = Idle /\ Deliverable(q)
    /\ tries' = [tries EXCEPT ![q] = tries[q] + 1]
    /\ run' = IF orgSt = "gone" THEN run
              ELSE [run EXCEPT ![w] =
                       [Idle EXCEPT !.pc = IF outcome[q] = "approved" THEN "approve" ELSE "restore",
                                    !.req = q, !.snap = del.state # "none"]]
    /\ UNCHANGED <<contractVars, orgVars, call, acked, scanDue, twVars, faults>>

\* The worker is done; the handler's nil error is acked (the ack may be lost).
Done(w) ==
    /\ run' = [run EXCEPT ![w] = Idle]
    /\ \/ run[w].req # NoReq /\ acked' = [acked EXCEPT ![run[w].req] = TRUE]
       \/ UNCHANGED acked

\* The worker gives up with an error: the event, if any, is Nak'd.
GiveUp(w) ==
    /\ run' = [run EXCEPT ![w] = Idle]
    /\ UNCHANGED acked

\* UpdateTenantDeletion: an unconditional UPDATE by org id.
SetDel(state, step) ==
    del' = IF del.state = "none" THEN del ELSE [del EXCEPT !.state = state, !.step = step]

MarkDeletionApproved(w) ==
    /\ run[w].pc = "approve"
    /\ SetDel("deleting", 0)
    /\ run' = [run EXCEPT ![w].pc = "load"]
    /\ UNCHANGED <<contractVars, orgSt, cluster, kcOrg, kcGroup, tuples, archived, terminal,
                   call, evVars, scanDue, twVars, faults>>

\* Mutant: restoreOrg leaves the tracking row behind.
RestoreOrgKeepsRow(w) ==
    /\ run[w].pc = "restore"
    /\ orgSt' = IF orgSt = "gone" THEN "gone" ELSE "active"
    /\ twq' = IF run[w].snap THEN Append(twq, "restored") ELSE twq
    /\ Done(w)
    /\ UNCHANGED <<contractVars, del, cluster, kcOrg, kcGroup, tuples, archived, terminal,
                   call, tries, scanDue, naks, faults>>

\* restoreOrg's transaction, for a denial and for a cancellation.
RestoreOrg(w) ==
    /\ run[w].pc = "restore"
    /\ orgSt' = IF orgSt = "gone" THEN "gone" ELSE "active"
    /\ del' = NoDel
    /\ twq' = IF run[w].snap THEN Append(twq, "restored") ELSE twq
    /\ Done(w)
    /\ UNCHANGED <<contractVars, cluster, kcOrg, kcGroup, tuples, archived, terminal,
                   call, tries, scanDue, naks, faults>>

-----------------------------------------------------------------------------
(* RetryDeletion and ResumePendingDeletions *)

\* The row is read and found failed ...
RetryRead(w) ==
    /\ run[w] = Idle /\ del.state = "failed"
    /\ run' = [run EXCEPT ![w] = [Idle EXCEPT !.pc = "retry", !.step = del.step]]
    /\ UNCHANGED <<contractVars, orgVars, call, evVars, scanDue, twVars, faults>>

\* ... and set back to deleting at the step that was read.
RetryReset(w) ==
    /\ run[w].pc = "retry"
    /\ SetDel("deleting", run[w].step)
    /\ run' = [run EXCEPT ![w].pc = "load"]
    /\ UNCHANGED <<contractVars, orgSt, cluster, kcOrg, kcGroup, tuples, archived, terminal,
                   call, evVars, scanDue, twVars, faults>>

\* The scan, once per acquisition of the tenant-deletion-resume lease.
ResumeScan(w) ==
    /\ run[w] = Idle /\ scanDue
    /\ scanDue' = FALSE
    /\ run' = IF del.state \in {"deleting", "failed"}
              THEN [run EXCEPT ![w] = [Idle EXCEPT !.pc = "load"]] ELSE run
    /\ UNCHANGED <<contractVars, orgVars, call, evVars, twVars, faults>>

-----------------------------------------------------------------------------
(* Deleter.Run *)

Load(w) ==
    /\ run[w].pc = "load"
    /\ \/ del.state = "none" /\ Done(w)
       \/ del.state = "awaiting" /\ GiveUp(w)
       \/ /\ del.state \in {"deleting", "failed"}
          /\ run' = [run EXCEPT ![w].pc = "work", ![w].step = del.step, ![w].force = del.force]
          /\ UNCHANGED acked
    /\ UNCHANGED <<contractVars, orgVars, call, tries, scanDue, twVars, faults>>

\* Worker w is about to run step n.
At(w, n) == run[w].pc = "work" /\ run[w].step + 1 = n

StepRevokeClusters(w) ==
    /\ At(w, 1)
    /\ cluster' = IF run[w].force /\ cluster = "live" THEN "revoked" ELSE cluster
    /\ run' = [run EXCEPT ![w].pc = "mark"]
    /\ UNCHANGED <<contractVars, orgSt, del, kcOrg, kcGroup, tuples, archived, terminal,
                   call, evVars, scanDue, twVars, faults>>

\* One transaction, the mark included.
StepArchiveAudit(w) ==
    /\ At(w, 2)
    /\ archived' = TRUE
    /\ terminal' = IF terminal = "live" THEN "archived" ELSE terminal
    /\ SetDel("deleting", 2)
    /\ run' = [run EXCEPT ![w].step = 2]
    /\ UNCHANGED <<contractVars, orgSt, cluster, kcOrg, kcGroup, tuples,
                   call, evVars, scanDue, twVars, faults>>

StepFGACleanup(w) ==
    /\ At(w, 3)
    /\ tuples' = FALSE
    /\ run' = [run EXCEPT ![w].pc = "mark"]
    /\ UNCHANGED <<contractVars, orgSt, del, cluster, kcOrg, kcGroup, archived, terminal,
                   call, evVars, scanDue, twVars, faults>>

\* Keycloak organization first, then the group tree.
StepDeleteKeycloakOrg(w) ==
    /\ At(w, 4) /\ orgSt # "gone"
    /\ kcOrg' = FALSE
    /\ run' = [run EXCEPT ![w].pc = "group"]
    /\ UNCHANGED <<contractVars, orgSt, del, cluster, kcGroup, tuples, archived, terminal,
                   call, evVars, scanDue, twVars, faults>>

DeleteKeycloakGroup(w) ==
    /\ run[w].pc = "group"
    /\ kcGroup' = FALSE
    /\ run' = [run EXCEPT ![w].pc = "mark"]
    /\ UNCHANGED <<contractVars, orgSt, del, cluster, kcOrg, tuples, archived, terminal,
                   call, evVars, scanDue, twVars, faults>>

MarkDone(w) ==
    /\ run[w].pc = "mark"
    /\ SetDel("deleting", run[w].step + 1)
    /\ run' = [run EXCEPT ![w].pc = "work", ![w].step = run[w].step + 1]
    /\ UNCHANGED <<contractVars, orgSt, cluster, kcOrg, kcGroup, tuples, archived, terminal,
                   call, evVars, scanDue, twVars, faults>>

\* One transaction: the tenant.deleted audit row, the organization and, by
\* cascade, the tracking row.  It succeeds on an org that is already gone.
StepDeleteOrgRow(w) ==
    /\ At(w, 5)
    /\ terminal' = "live"
    /\ orgSt' = "gone"
    /\ del' = NoDel
    /\ Done(w)
    /\ UNCHANGED <<contractVars, cluster, kcOrg, kcGroup, tuples, archived,
                   call, tries, scanDue, twVars, faults>>

Running(w) == run[w].pc \in {"work", "group", "mark"}

\* Mutant: the failed step is recorded as the completed one.
StepFailsAdvances(w) ==
    /\ Running(w) /\ run[w].step < 4
    /\ faults > 0 /\ faults' = faults - 1
    /\ SetDel("failed", run[w].step + 1)
    /\ GiveUp(w)
    /\ UNCHANGED <<contractVars, orgSt, cluster, kcOrg, kcGroup, tuples, archived, terminal,
                   call, tries, scanDue, twVars>>
\* Mutant: the failure is swallowed and the event acked.
StepFailsSwallowed(w) ==
    /\ Running(w)
    /\ faults > 0 /\ faults' = faults - 1
    /\ Done(w)
    /\ UNCHANGED <<contractVars, orgVars, call, tries, scanDue, twVars>>

\* A step fails: the row becomes delete_failed at the step in memory (that
\* write may fail as well).  Looking up an org that is gone always fails.
StepFails(w) ==
    /\ Running(w)
    /\ \/ At(w, 4) /\ orgSt = "gone" /\ UNCHANGED faults
       \/ faults > 0 /\ faults' = faults - 1
    /\ SetDel("failed", run[w].step) \/ UNCHANGED del
    /\ GiveUp(w)
    /\ UNCHANGED <<contractVars, orgSt, cluster, kcOrg, kcGroup, tuples, archived, terminal,
                   call, tries, scanDue, twVars>>

\* The process of w dies or is shut down (the failure cannot be recorded with
\* a cancelled context); the lease moves on and the new holder scans.
Crash(w) ==
    /\ run[w] # Idle /\ faults > 0
    /\ faults' = faults - 1
    /\ GiveUp(w)
    /\ scanDue' = TRUE
    /\ UNCHANGED <<contractVars, orgVars, call, tries, twVars>>

-----------------------------------------------------------------------------

DeleteTenant(c) ==
    \/ \E force \in BOOLEAN : RequestRead(c, force)
    \/ Freeze(c) \/ (\E q \in Request : OpenApproval(c, q)) \/ LinkApproval(c)

Teardown(w) ==
    \/ Load(w) \/ StepRevokeClusters(w) \/ StepArchiveAudit(w) \/ StepFGACleanup(w)
    \/ StepDeleteKeycloakOrg(w) \/ DeleteKeycloakGroup(w) \/ MarkDone(w) \/ StepDeleteOrgRow(w)

\* What a worker does on its own once it has begun.
Continue(w) == MarkDeletionApproved(w) \/ RestoreOrg(w) \/ RetryReset(w) \/ Teardown(w)

Begin(w) == (\E q \in Request : HandleOutcome(w, q)) \/ RetryRead(w) \/ ResumeScan(w)

Next ==
    \/ \E c \in Caller : DeleteTenant(c) \/ CallAborts(c)
    \/ \E q \in Request, s \in Settlement : Decision(q, s)
    \/ \E w \in Worker : Begin(w) \/ Continue(w) \/ StepFails(w) \/ Crash(w)
    \/ RegisterCluster \/ WriteTuples \/ NakTuples

Spec == Init /\ [][Next]_vars

\* The dispatcher delivers, a started handler or scan goes on, and the lease
\* is acquired by someone, who scans.  Nothing obliges an operator to retry.
Fairness ==
    /\ \A w \in Worker : WF_vars(Continue(w) \/ (StepFails(w) /\ orgSt = "gone"))
    /\ \A q \in Request : WF_vars(\E w \in Worker : HandleOutcome(w, q))
    /\ WF_vars(\E w \in Worker : ResumeScan(w))

FairSpec == Spec /\ Fairness

-----------------------------------------------------------------------------
(* Properties *)

\* Something the teardown destroys is gone.
Damaged == cluster = "revoked" \/ archived \/ ~kcOrg \/ ~kcGroup \/ orgSt = "gone"

\* Nothing of the tenant is destroyed before a decommission was approved, not
\* by the start-up scan, a retry, or a redelivered outcome (ListPending-
\* TenantDeletions and Run both exclude rows that await their decision).
TeardownApproved == Damaged => \E q \in Request : outcome[q] = "approved"

\* Resuming never skips a step: whatever crashes, concurrent runs, retries and
\* resets of the row, an organization whose row is gone has had its audit
\* archived and its Keycloak organization and groups deleted.
GoneIsClean == orgSt = "gone" => archived /\ ~kcOrg /\ ~kcGroup

\* An organization is frozen exactly as long as a deletion tracks it, so a
\* frozen tenant can always be found, retried or restored.
FrozenIffTracked == (orgSt = "deleting") <=> (del.state # "none")

\* A teardown in progress is never abandoned: it completes, fails visibly (so
\* that RetryDeletion accepts it), or the tenant is restored.
TeardownProgresses == []<>(del.state # "deleting")

-----------------------------------------------------------------------------
(* Statements the code does not keep: TLC finds a counterexample of each  *)
(* (README, "What the code does not keep").                               *)

\* "There is no undo past approval" (ADR 0006): an active tenant still has its
\* Keycloak organization and groups.
NoUndo == orgSt = "active" => kcOrg /\ kcGroup

\* "The terminal tenant.deleted audit row stays in the live stream" (ADR 0006).
TerminalAuditLive == orgSt = "gone" => terminal = "live"

\* Once the tuple writer has caught up, a restored tenant has its tuples
\* ("without it ... every org-scoped FGA check keeps failing", restoreOrg).
RestoredHasTuples == (orgSt = "active" /\ twq = <<>>) => tuples
=============================================================================
