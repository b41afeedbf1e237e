------------------------ MODULE TenantDeletionProofs ------------------------
(***************************************************************************)
(* Proofs about TenantDeletion for every set of requests, workers and      *)
(* callers and every delivery and fault budget: type correctness, and that *)
(* a teardown is approved, tracked and complete whatever crashes, retries, *)
(* redeliveries and concurrent runs happen.                                *)
(***************************************************************************)
EXTENDS TenantDeletion, TLAPS

Pc == {"idle", "approve", "restore", "retry", "load", "work", "group", "mark"}

\* Where a worker can be between the effect of a step and its mark: the
\* archive and the final step are transactions and have no such point.
MarkAt ==
    \A w \in Worker :
        /\ run[w].pc = "mark" => run[w].step \in {0, 2, 3}
        /\ run[w].pc = "group" => run[w].step = 3

TInv == TypeOK /\ MarkAt

\* The idle records are well typed.
LEMMA IdleTypes == Idle \in RunState /\ NoCall \in CallState /\ NoDel \in DelRow
BY DEF Idle, RunState, NoCall, CallState, NoDel, DelRow, Step

\* Moving a worker to another point of the program keeps its record typed.
LEMMA RunAtPc ==
  ASSUME run \in [Worker -> RunState], NEW w \in Worker, NEW p \in Pc
  PROVE  [run EXCEPT ![w].pc = p] \in [Worker -> RunState]
<1>1. [run[w] EXCEPT !.pc = p] \in RunState
  BY DEF RunState, Pc
<1>2. QED
  BY <1>1

\* So does completing a step ...
LEMMA RunAtStep ==
  ASSUME run \in [Worker -> RunState], NEW w \in Worker, NEW n \in Step
  PROVE  [run EXCEPT ![w].step = n] \in [Worker -> RunState]
<1>1. [run[w] EXCEPT !.step = n] \in RunState
  BY DEF RunState, Pc
<1>2. QED
  BY <1>1

\* ... going on to the next one ...
LEMMA RunAtPcStep ==
  ASSUME run \in [Worker -> RunState], NEW w \in Worker, NEW p \in Pc, NEW n \in Step
  PROVE  [run EXCEPT ![w].pc = p, ![w].step = n] \in [Worker -> RunState]
<1>1. [run[w] EXCEPT !.pc = p, !.step = n] \in RunState
  BY DEF RunState, Pc
<1>2. QED
  BY <1>1

\* ... and taking over the state of the row.
LEMMA RunLoaded ==
  ASSUME run \in [Worker -> RunState], NEW w \in Worker, NEW p \in Pc, NEW n \in Step, NEW f \in BOOLEAN
  PROVE  [run EXCEPT ![w].pc = p, ![w].step = n, ![w].force = f] \in [Worker -> RunState]
<1>1. [run[w] EXCEPT !.pc = p, !.step = n, !.force = f] \in RunState
  BY DEF RunState, Pc
<1>2. QED
  BY <1>1

\* UpdateTenantDeletion keeps the row typed.
LEMMA SetDelType ==
  ASSUME del \in DelRow, NEW s \in {"deleting", "failed"}, NEW n \in Step, SetDel(s, n)
  PROVE  del' \in DelRow
BY DEF DelRow, SetDel

\* The fields of a worker's record.
LEMMA RunFields ==
  ASSUME TypeOK, NEW w \in Worker
  PROVE  /\ run[w] \in RunState /\ run[w].step \in Step /\ run[w].force \in BOOLEAN
         /\ run[w].req \in Request \cup {NoReq} /\ del.step \in Step /\ del.force \in BOOLEAN
BY DEF TypeOK, RunState, DelRow

\* Every step preserves the type invariant.
LEMMA TypePreserved ==
  ASSUME TInv, [Next]_vars
  PROVE  TypeOK'
<1> USE TenantDeletionAssumption DEF TInv
<1>1. CASE UNCHANGED vars
  BY <1>1 DEF TypeOK, vars, orgVars, evVars, twVars, contractVars
<1>2. ASSUME NEW c \in Caller, NEW force \in BOOLEAN, RequestRead(c, force)
      PROVE  TypeOK'
  <2>1. call' \in [Caller -> CallState]
    BY <1>2, IdleTypes DEF TypeOK, RequestRead, CallState
  <2>2. QED
    BY <1>2, <2>1 DEF TypeOK, RequestRead, orgVars, evVars, twVars, contractVars
<1>3. ASSUME NEW c \in Caller, Freeze(c)
      PROVE  TypeOK'
  <2>1. del' \in DelRow
    BY <1>3 DEF TypeOK, Freeze, DelRow, CallState, Step
  <2>2. call' \in [Caller -> CallState]
    <3>1. [call[c] EXCEPT !.pc = "frozen"] \in CallState
      BY DEF TypeOK, CallState
    <3>2. CASE call' = [call EXCEPT ![c].pc = "frozen"]
      BY <3>1, <3>2 DEF TypeOK
    <3>3. CASE call' = [call EXCEPT ![c] = NoCall]
      BY <3>3, IdleTypes DEF TypeOK
    <3>4. QED
      BY <1>3, <3>2, <3>3 DEF Freeze
  <2>3. twq' \in Seq({"deleting", "restored"})
    <3>1. Append(twq, "deleting") \in Seq({"deleting", "restored"})
      BY DEF TypeOK
    <3>2. QED
      BY <1>3, <3>1 DEF TypeOK, Freeze
  <2>4. QED
    BY <1>3, <2>1, <2>2, <2>3 DEF TypeOK, Freeze, orgVars, evVars, twVars, contractVars
<1>4. ASSUME NEW c \in Caller, NEW q \in Request, OpenApproval(c, q)
      PROVE  TypeOK'
  <2>1. call' \in [Caller -> CallState]
    BY <1>4, IdleTypes DEF TypeOK, OpenApproval, CallState
  <2>2. outcome' \in [Request -> {"none", "pending"} \cup Settlement]
    BY <1>4 DEF TypeOK, OpenApproval, Open, orgVars, evVars, twVars, contractVars
  <2>3. QED
    BY <1>4, <2>1, <2>2 DEF TypeOK, OpenApproval, orgVars, evVars, twVars, contractVars
<1>5. ASSUME NEW c \in Caller, LinkApproval(c)
      PROVE  TypeOK'
  <2>1. del' \in DelRow
    BY <1>5 DEF TypeOK, LinkApproval, DelRow, CallState
  <2>2. call' \in [Caller -> CallState]
    BY <1>5, IdleTypes DEF TypeOK, LinkApproval
  <2>3. QED
    BY <1>5, <2>1, <2>2 DEF TypeOK, LinkApproval, orgVars, evVars, twVars, contractVars
<1>6. ASSUME NEW c \in Caller, CallAborts(c)
      PROVE  TypeOK'
  <2>1. call' \in [Caller -> CallState]
    BY <1>6, IdleTypes DEF TypeOK, CallAborts
  <2>2. QED
    BY <1>6, <2>1 DEF TypeOK, CallAborts, orgVars, evVars, twVars, contractVars
<1>7. ASSUME NEW q \in Request, NEW s \in Settlement, Decision(q, s)
      PROVE  TypeOK'
  <2>1. outcome' \in [Request -> {"none", "pending"} \cup Settlement]
    BY <1>7 DEF TypeOK, Decision, Settle, orgVars, evVars, twVars, contractVars
  <2>2. QED
    BY <1>7, <2>1 DEF TypeOK, Decision, orgVars, evVars, twVars, contractVars
<1>8. CASE RegisterCluster
  BY <1>8 DEF TypeOK, RegisterCluster, orgVars, evVars, twVars, contractVars
<1>9. CASE WriteTuples
  BY <1>9 DEF TypeOK, WriteTuples, orgVars, evVars, twVars, contractVars
<1>10. CASE NakTuples
  BY <1>10 DEF TypeOK, NakTuples, orgVars, evVars, twVars, contractVars
<1>11. ASSUME NEW w \in Worker, NEW q \in Request, HandleOutcome(w, q)
      PROVE  TypeOK'
  <2>1. run' \in [Worker -> RunState]
    BY <1>11, RunFields DEF TypeOK, HandleOutcome, Idle, RunState, Step
  <2>2. tries' \in [Request -> 0 .. MaxDeliver]
    BY <1>11 DEF TypeOK, HandleOutcome, Deliverable
  <2>3. QED
    BY <1>11, <2>1, <2>2 DEF TypeOK, HandleOutcome, orgVars, evVars, twVars, contractVars
<1>12. ASSUME NEW w \in Worker, MarkDeletionApproved(w)
      PROVE  TypeOK'
  <2>1. run' \in [Worker -> RunState]
    BY <1>12, RunAtPc DEF TypeOK, MarkDeletionApproved, Pc
  <2>2. del' \in DelRow
    BY <1>12, SetDelType DEF TypeOK, MarkDeletionApproved, Step
  <2>3. QED
    BY <1>12, <2>1, <2>2 DEF TypeOK, MarkDeletionApproved, orgVars, evVars, twVars, contractVars
<1>13. ASSUME NEW w \in Worker, RestoreOrg(w)
      PROVE  TypeOK'
  <2>1. run' \in [Worker -> RunState]
    BY <1>13, IdleTypes DEF TypeOK, RestoreOrg, Done
  <2>2. del' \in DelRow
    BY <1>13, IdleTypes DEF RestoreOrg
  <2>3. acked' \in [Request -> BOOLEAN]
    BY <1>13, RunFields DEF TypeOK, RestoreOrg, Done
  <2>4. twq' \in Seq({"deleting", "restored"})
    BY <1>13 DEF TypeOK, RestoreOrg
  <2>5. QED
    BY <1>13, <2>1, <2>2, <2>3, <2>4 DEF TypeOK, RestoreOrg, orgVars, evVars, twVars, contractVars
<1>14. ASSUME NEW w \in Worker, RetryRead(w)
      PROVE  TypeOK'
  <2>1. run' \in [Worker -> RunState]
    BY <1>14, RunFields DEF TypeOK, RetryRead, Idle, RunState, Step
  <2>2. QED
    BY <1>14, <2>1 DEF TypeOK, RetryRead, orgVars, evVars, twVars, contractVars
<1>15. ASSUME NEW w \in Worker, RetryReset(w)
      PROVE  TypeOK'
  <2>1. run' \in [Worker -> RunState]
    BY <1>15, RunAtPc DEF TypeOK, RetryReset, Pc
  <2>2. del' \in DelRow
    BY <1>15, SetDelType, RunFields DEF TypeOK, RetryReset
  <2>3. QED
    BY <1>15, <2>1, <2>2 DEF TypeOK, RetryReset, orgVars, evVars, twVars, contractVars
<1>16. ASSUME NEW w \in Worker, ResumeScan(w)
      PROVE  TypeOK'
  <2>1. run' \in [Worker -> RunState]
    BY <1>16, RunFields DEF TypeOK, ResumeScan, Idle, RunState, Step
  <2>2. QED
    BY <1>16, <2>1 DEF TypeOK, ResumeScan, orgVars, evVars, twVars, contractVars
<1>17. ASSUME NEW w \in Worker, Load(w)
      PROVE  TypeOK'
  <2>1. run' \in [Worker -> RunState]
    <3>1. "work" \in Pc /\ del.step \in Step /\ del.force \in BOOLEAN
      BY RunFields, <1>17 DEF Pc
    <3>2. [run EXCEPT ![w].pc = "work", ![w].step = del.step, ![w].force = del.force]
            \in [Worker -> RunState]
      BY <3>1, RunLoaded DEF TypeOK
    <3>3. [run EXCEPT ![w] = Idle] \in [Worker -> RunState]
      BY IdleTypes DEF TypeOK
    <3>4. QED
      BY <1>17, <3>2, <3>3 DEF Load, Done, GiveUp
  <2>2. acked' \in [Request -> BOOLEAN]
    BY <1>17, RunFields DEF TypeOK, Load, Done, GiveUp
  <2>3. QED
    BY <1>17, <2>1, <2>2 DEF TypeOK, Load, orgVars, evVars, twVars, contractVars
<1>18. ASSUME NEW w \in Worker, StepRevokeClusters(w)
      PROVE  TypeOK'
  <2>1. run' \in [Worker -> RunState]
    BY <1>18, RunAtPc DEF TypeOK, StepRevokeClusters, Pc
  <2>2. QED
    BY <1>18, <2>1 DEF TypeOK, StepRevokeClusters, orgVars, evVars, twVars, contractVars
<1>19. ASSUME NEW w \in Worker, StepArchiveAudit(w)
      PROVE  TypeOK'
  <2>1. 2 \in Step
    BY DEF Step
  <2>2. run' \in [Worker -> RunState]
    BY <1>19, RunAtStep, <2>1 DEF TypeOK, StepArchiveAudit
  <2>3. del' \in DelRow
    BY <1>19, SetDelType DEF TypeOK, StepArchiveAudit, Step
  <2>4. QED
    BY <1>19, <2>2, <2>3 DEF TypeOK, StepArchiveAudit, orgVars, evVars, twVars, contractVars
<1>20. ASSUME NEW w \in Worker, StepFGACleanup(w)
      PROVE  TypeOK'
  <2>1. run' \in [Worker -> RunState]
    BY <1>20, RunAtPc DEF TypeOK, StepFGACleanup, Pc
  <2>2. QED
    BY <1>20, <2>1 DEF TypeOK, StepFGACleanup, orgVars, evVars, twVars, contractVars
<1>21. ASSUME NEW w \in Worker, StepDeleteKeycloakOrg(w)
      PROVE  TypeOK'
  <2>1. run' \in [Worker -> RunState]
    BY <1>21, RunAtPc DEF TypeOK, StepDeleteKeycloakOrg, Pc
  <2>2. QED
    BY <1>21, <2>1 DEF TypeOK, StepDeleteKeycloakOrg, orgVars, evVars, twVars, contractVars
<1>22. ASSUME NEW w \in Worker, DeleteKeycloakGroup(w)
      PROVE  TypeOK'
  <2>1. run' \in [Worker -> RunState]
    BY <1>22, RunAtPc DEF TypeOK, DeleteKeycloakGroup, Pc
  <2>2. QED
    BY <1>22, <2>1 DEF TypeOK, DeleteKeycloakGroup, orgVars, evVars, twVars, contractVars
<1>23. ASSUME NEW w \in Worker, MarkDone(w)
      PROVE  TypeOK'
  <2>1. run[w].step + 1 \in Step
    BY <1>23 DEF MarkDone, MarkAt, Step
  <2>2. run' \in [Worker -> RunState]
    BY <1>23, RunAtPcStep, <2>1 DEF TypeOK, MarkDone, Pc
  <2>3. del' \in DelRow
    BY <1>23, SetDelType, <2>1 DEF TypeOK, MarkDone
  <2>4. QED
    BY <1>23, <2>2, <2>3 DEF TypeOK, MarkDone, orgVars, evVars, twVars, contractVars
<1>24. ASSUME NEW w \in Worker, StepDeleteOrgRow(w)
      PROVE  TypeOK'
  <2>1. run' \in [Worker -> RunState]
    BY <1>24, IdleTypes DEF TypeOK, StepDeleteOrgRow, Done
  <2>2. del' \in DelRow
    BY <1>24, IdleTypes DEF StepDeleteOrgRow
  <2>3. acked' \in [Request -> BOOLEAN]
    BY <1>24, RunFields DEF TypeOK, StepDeleteOrgRow, Done
  <2>4. QED
    BY <1>24, <2>1, <2>2, <2>3 DEF TypeOK, StepDeleteOrgRow, orgVars, evVars, twVars, contractVars
<1>25. ASSUME NEW w \in Worker, StepFails(w)
      PROVE  TypeOK'
  <2>1. run' \in [Worker -> RunState]
    BY <1>25, IdleTypes DEF TypeOK, StepFails, GiveUp
  <2>2. del' \in DelRow
    BY <1>25, SetDelType, RunFields DEF TypeOK, StepFails
  <2>3. QED
    BY <1>25, <2>1, <2>2 DEF TypeOK, StepFails, GiveUp, Running, At, orgVars, evVars, twVars, contractVars
<1>26. ASSUME NEW w \in Worker, Crash(w)
      PROVE  TypeOK'
  <2>1. run' \in [Worker -> RunState]
    BY <1>26, IdleTypes DEF TypeOK, Crash, GiveUp
  <2>2. QED
    BY <1>26, <2>1 DEF TypeOK, Crash, GiveUp, orgVars, evVars, twVars, contractVars
<1>27. QED
  BY <1>1, <1>2, <1>3, <1>4, <1>5, <1>6, <1>7, <1>8, <1>9, <1>10, <1>11, <1>12, <1>13, <1>14, <1>15, <1>16, <1>17, <1>18, <1>19, <1>20, <1>21, <1>22, <1>23, <1>24, <1>25, <1>26
     DEF Next, DeleteTenant, Begin, Continue, Teardown

\* Every step preserves MarkAt.
LEMMA MarkAtPreserved ==
  ASSUME TInv, [Next]_vars
  PROVE  MarkAt'
<1> USE DEF TInv
<1>1. CASE run' = run
  BY <1>1 DEF MarkAt
<1>2. ASSUME NEW w \in Worker, NEW q \in Request, HandleOutcome(w, q)
      PROVE  MarkAt'
  BY <1>2 DEF MarkAt, TypeOK, RunState, Step, Idle, HandleOutcome
<1>3. ASSUME NEW w \in Worker, MarkDeletionApproved(w)
      PROVE  MarkAt'
  BY <1>3 DEF MarkAt, TypeOK, RunState, Step, Idle, MarkDeletionApproved
<1>4. ASSUME NEW w \in Worker, RestoreOrg(w)
      PROVE  MarkAt'
  BY <1>4 DEF MarkAt, TypeOK, RunState, Step, Idle, RestoreOrg, Done
<1>5. ASSUME NEW w \in Worker, RetryRead(w)
      PROVE  MarkAt'
  BY <1>5 DEF MarkAt, TypeOK, RunState, Step, Idle, RetryRead
<1>6. ASSUME NEW w \in Worker, RetryReset(w)
      PROVE  MarkAt'
  BY <1>6 DEF MarkAt, TypeOK, RunState, Step, Idle, RetryReset
<1>7. ASSUME NEW w \in Worker, ResumeScan(w)
      PROVE  MarkAt'
  BY <1>7 DEF MarkAt, TypeOK, RunState, Step, Idle, ResumeScan
<1>8. ASSUME NEW w \in Worker, Load(w)
      PROVE  MarkAt'
  <2>1. CASE run' = [run EXCEPT ![w].pc = "work", ![w].step = del.step, ![w].force = del.force]
    BY <2>1 DEF MarkAt, TypeOK, RunState
  <2>2. CASE run' = [run EXCEPT ![w] = Idle]
    BY <2>2 DEF MarkAt, TypeOK, Idle
  <2>3. QED
    BY <1>8, <2>1, <2>2 DEF Load, Done, GiveUp
<1>9. ASSUME NEW w \in Worker, StepRevokeClusters(w)
      PROVE  MarkAt'
  BY <1>9 DEF MarkAt, TypeOK, RunState, Step, Idle, StepRevokeClusters, At
<1>10. ASSUME NEW w \in Worker, StepArchiveAudit(w)
      PROVE  MarkAt'
  BY <1>10 DEF MarkAt, TypeOK, RunState, Step, Idle, StepArchiveAudit, At
<1>11. ASSUME NEW w \in Worker, StepFGACleanup(w)
      PROVE  MarkAt'
  BY <1>11 DEF MarkAt, TypeOK, RunState, Step, Idle, StepFGACleanup, At
<1>12. ASSUME NEW w \in Worker, StepDeleteKeycloakOrg(w)
      PROVE  MarkAt'
  BY <1>12 DEF MarkAt, TypeOK, RunState, Step, Idle, StepDeleteKeycloakOrg, At
<1>13. ASSUME NEW w \in Worker, DeleteKeycloakGroup(w)
      PROVE  MarkAt'
  BY <1>13 DEF MarkAt, TypeOK, RunState, Step, Idle, DeleteKeycloakGroup
<1>14. ASSUME NEW w \in Worker, MarkDone(w)
      PROVE  MarkAt'
  BY <1>14 DEF MarkAt, TypeOK, RunState, Step, Idle, MarkDone
<1>15. ASSUME NEW w \in Worker, StepDeleteOrgRow(w)
      PROVE  MarkAt'
  BY <1>15 DEF MarkAt, TypeOK, RunState, Step, Idle, StepDeleteOrgRow, At, Done
<1>16. ASSUME NEW w \in Worker, StepFails(w)
      PROVE  MarkAt'
  BY <1>16 DEF MarkAt, TypeOK, RunState, Step, Idle, StepFails, GiveUp
<1>17. ASSUME NEW w \in Worker, Crash(w)
      PROVE  MarkAt'
  BY <1>17 DEF MarkAt, TypeOK, RunState, Step, Idle, Crash, GiveUp
<1>18. QED
  BY <1>1, <1>2, <1>3, <1>4, <1>5, <1>6, <1>7, <1>8, <1>9, <1>10, <1>11, <1>12, <1>13, <1>14, <1>15, <1>16, <1>17
     DEF Next, vars, DeleteTenant, Begin, Continue, Teardown, RequestRead, Freeze, OpenApproval,
         LinkApproval, CallAborts, Decision, RegisterCluster, WriteTuples, NakTuples

-----------------------------------------------------------------------------

Approved == \E q \in Request : outcome[q] = "approved"

\* Nobody is past the point of no return, in the row or in memory, without an
\* approval: a worker that loads, retries or runs got there from an approved
\* outcome or from a row that was already deleting or failed.
ApprovedFirst ==
    /\ del.state \in {"deleting", "failed"} => Approved
    /\ \A w \in Worker : run[w].pc \notin {"idle", "restore"} => Approved
    /\ TeardownApproved

\* The irreversible effects of the steps up to n have happened.
StepDone(n) == (n >= 2 => archived) /\ (n >= 4 => ~kcOrg /\ ~kcGroup)

\* A recorded step is a completed one, in the row and in every worker's memory.
StepsDone ==
    /\ StepDone(del.step)
    /\ \A w \in Worker :
        /\ run[w].pc \in {"retry", "work", "group", "mark"} => StepDone(run[w].step)
        /\ run[w].pc = "group" => ~kcOrg
        /\ run[w].pc = "mark" /\ run[w].step = 3 => ~kcOrg /\ ~kcGroup
    /\ GoneIsClean

IInv == TInv /\ FrozenIffTracked /\ ApprovedFirst /\ StepsDone

\* An approval is never taken back.
LEMMA ApprovedStable ==
  ASSUME TypeOK, Approved, [Next]_vars
  PROVE  Approved'
<1>1. CASE outcome' = outcome
  BY <1>1 DEF Approved
<1>2. ASSUME NEW q \in Request, Open(q) \/ \E s \in Settlement : Settle(q, s)
      PROVE  Approved'
  BY <1>2 DEF Approved, TypeOK, Open, Settle
<1>3. QED
  BY <1>1, <1>2
     DEF Next, vars, contractVars, DeleteTenant, Begin, Continue, Teardown, RequestRead, Freeze,
         OpenApproval, LinkApproval, CallAborts, Decision, RegisterCluster, WriteTuples, NakTuples,
         HandleOutcome, MarkDeletionApproved, RestoreOrg, RetryRead, RetryReset, ResumeScan, Load,
         StepRevokeClusters, StepArchiveAudit, StepFGACleanup, StepDeleteKeycloakOrg,
         DeleteKeycloakGroup, MarkDone, StepDeleteOrgRow, StepFails, Crash

\* Every step preserves FrozenIffTracked.
LEMMA FrozenPreserved ==
  ASSUME IInv, [Next]_vars
  PROVE  FrozenIffTracked'
<1> USE DEF IInv, TInv
<1>1. CASE UNCHANGED vars
  BY <1>1 DEF FrozenIffTracked, TypeOK, DelRow, vars, orgVars, evVars, twVars, contractVars
<1>2. ASSUME NEW c \in Caller, NEW force \in BOOLEAN, RequestRead(c, force)
      PROVE  FrozenIffTracked'
  BY <1>2 DEF FrozenIffTracked, TypeOK, DelRow, RequestRead, orgVars, evVars, twVars, contractVars
<1>3. ASSUME NEW c \in Caller, Freeze(c)
      PROVE  FrozenIffTracked'
  BY <1>3 DEF FrozenIffTracked, TypeOK, DelRow, Freeze, orgVars, evVars, twVars, contractVars
<1>4. ASSUME NEW c \in Caller, NEW q \in Request, OpenApproval(c, q)
      PROVE  FrozenIffTracked'
  BY <1>4 DEF FrozenIffTracked, TypeOK, DelRow, OpenApproval, Open, orgVars, evVars, twVars, contractVars
<1>5. ASSUME NEW c \in Caller, LinkApproval(c)
      PROVE  FrozenIffTracked'
  BY <1>5 DEF FrozenIffTracked, TypeOK, DelRow, LinkApproval, orgVars, evVars, twVars, contractVars
<1>6. ASSUME NEW c \in Caller, CallAborts(c)
      PROVE  FrozenIffTracked'
  BY <1>6 DEF FrozenIffTracked, TypeOK, DelRow, CallAborts, orgVars, evVars, twVars, contractVars
<1>7. ASSUME NEW q \in Request, NEW s \in Settlement, Decision(q, s)
      PROVE  FrozenIffTracked'
  BY <1>7 DEF FrozenIffTracked, TypeOK, DelRow, Decision, Settle, orgVars, evVars, twVars, contractVars
<1>8. CASE RegisterCluster
  BY <1>8 DEF FrozenIffTracked, TypeOK, DelRow, RegisterCluster, orgVars, evVars, twVars, contractVars
<1>9. CASE WriteTuples
  BY <1>9 DEF FrozenIffTracked, TypeOK, DelRow, WriteTuples, orgVars, evVars, twVars, contractVars
<1>10. CASE NakTuples
  BY <1>10 DEF FrozenIffTracked, TypeOK, DelRow, NakTuples, orgVars, evVars, twVars, contractVars
<1>11. ASSUME NEW w \in Worker, NEW q \in Request, HandleOutcome(w, q)
      PROVE  FrozenIffTracked'
  BY <1>11 DEF FrozenIffTracked, TypeOK, DelRow, HandleOutcome, orgVars, evVars, twVars, contractVars
<1>12. ASSUME NEW w \in Worker, MarkDeletionApproved(w)
      PROVE  FrozenIffTracked'
  BY <1>12 DEF FrozenIffTracked, TypeOK, DelRow, MarkDeletionApproved, SetDel, orgVars, evVars, twVars, contractVars
<1>13. ASSUME NEW w \in Worker, RestoreOrg(w)
      PROVE  FrozenIffTracked'
  BY <1>13 DEF FrozenIffTracked, TypeOK, DelRow, RestoreOrg, NoDel, orgVars, evVars, twVars, contractVars
<1>14. ASSUME NEW w \in Worker, RetryRead(w)
      PROVE  FrozenIffTracked'
  BY <1>14 DEF FrozenIffTracked, TypeOK, DelRow, RetryRead, orgVars, evVars, twVars, contractVars
<1>15. ASSUME NEW w \in Worker, RetryReset(w)
      PROVE  FrozenIffTracked'
  BY <1>15 DEF FrozenIffTracked, TypeOK, DelRow, RetryReset, SetDel, orgVars, evVars, twVars, contractVars
<1>16. ASSUME NEW w \in Worker, ResumeScan(w)
      PROVE  FrozenIffTracked'
  BY <1>16 DEF FrozenIffTracked, TypeOK, DelRow, ResumeScan, orgVars, evVars, twVars, contractVars
<1>17. ASSUME NEW w \in Worker, Load(w)
      PROVE  FrozenIffTracked'
  BY <1>17 DEF FrozenIffTracked, TypeOK, DelRow, Load, Done, orgVars, evVars, twVars, contractVars
<1>18. ASSUME NEW w \in Worker, StepRevokeClusters(w)
      PROVE  FrozenIffTracked'
  BY <1>18 DEF FrozenIffTracked, TypeOK, DelRow, StepRevokeClusters, At, orgVars, evVars, twVars, contractVars
<1>19. ASSUME NEW w \in Worker, StepArchiveAudit(w)
      PROVE  FrozenIffTracked'
  BY <1>19 DEF FrozenIffTracked, TypeOK, DelRow, StepArchiveAudit, SetDel, orgVars, evVars, twVars, contractVars
<1>20. ASSUME NEW w \in Worker, StepFGACleanup(w)
      PROVE  FrozenIffTracked'
  BY <1>20 DEF FrozenIffTracked, TypeOK, DelRow, StepFGACleanup, At, orgVars, evVars, twVars, contractVars
<1>21. ASSUME NEW w \in Worker, StepDeleteKeycloakOrg(w)
      PROVE  FrozenIffTracked'
  BY <1>21 DEF FrozenIffTracked, TypeOK, DelRow, StepDeleteKeycloakOrg, At, orgVars, evVars, twVars, contractVars
<1>22. ASSUME NEW w \in Worker, DeleteKeycloakGroup(w)
      PROVE  FrozenIffTracked'
  BY <1>22 DEF FrozenIffTracked, TypeOK, DelRow, DeleteKeycloakGroup, orgVars, evVars, twVars, contractVars
<1>23. ASSUME NEW w \in Worker, MarkDone(w)
      PROVE  FrozenIffTracked'
  BY <1>23 DEF FrozenIffTracked, TypeOK, DelRow, MarkDone, SetDel, orgVars, evVars, twVars, contractVars
<1>24. ASSUME NEW w \in Worker, StepDeleteOrgRow(w)
      PROVE  FrozenIffTracked'
  BY <1>24 DEF FrozenIffTracked, TypeOK, DelRow, StepDeleteOrgRow, NoDel, orgVars, evVars, twVars, contractVars
<1>25. ASSUME NEW w \in Worker, StepFails(w)
      PROVE  FrozenIffTracked'
  BY <1>25 DEF FrozenIffTracked, TypeOK, DelRow, StepFails, SetDel, orgVars, evVars, twVars, contractVars
<1>26. ASSUME NEW w \in Worker, Crash(w)
      PROVE  FrozenIffTracked'
  BY <1>26 DEF FrozenIffTracked, TypeOK, DelRow, Crash, GiveUp, orgVars, evVars, twVars, contractVars
<1>27. QED
  BY <1>1, <1>2, <1>3, <1>4, <1>5, <1>6, <1>7, <1>8, <1>9, <1>10, <1>11, <1>12, <1>13, <1>14, <1>15, <1>16, <1>17, <1>18, <1>19, <1>20, <1>21, <1>22, <1>23, <1>24, <1>25, <1>26
     DEF Next, DeleteTenant, Begin, Continue, Teardown
\* Every step preserves ApprovedFirst: an approval, once there, stays, so only
\* steps taken without one matter.
LEMMA ApprovedFirstPreserved ==
  ASSUME IInv, [Next]_vars
  PROVE  ApprovedFirst'
<1> USE DEF IInv, TInv
<1>1. CASE Approved
  BY <1>1, ApprovedStable DEF ApprovedFirst, TeardownApproved, Approved
<1>2. CASE ~Approved
  <2>1. /\ del.state \in {"none", "awaiting"}
        /\ \A w \in Worker : run[w].pc \in {"idle", "restore"}
        /\ ~Damaged
    BY <1>2 DEF ApprovedFirst, TeardownApproved, Approved, TypeOK, DelRow, RunState
  <2>2. SUFFICES ASSUME ~Approved'
                 PROVE  /\ del'.state \in {"none", "awaiting"}
                        /\ \A v \in Worker : run'[v].pc \in {"idle", "restore"}
                        /\ ~Damaged'
    BY DEF ApprovedFirst, TeardownApproved, Approved
  <2> DEFINE Safe == /\ del'.state \in {"none", "awaiting"}
                     /\ \A v \in Worker : run'[v].pc \in {"idle", "restore"}
                     /\ ~Damaged'
  <2>3. CASE UNCHANGED vars
    BY <2>1, <2>3 DEF vars, orgVars, Damaged
  <2>4. ASSUME NEW c \in Caller, NEW force \in BOOLEAN, RequestRead(c, force)
        PROVE  Safe
    BY <1>2, <2>1, <2>4 DEF RequestRead, Damaged, orgVars
  <2>5. ASSUME NEW c \in Caller, Freeze(c)
        PROVE  Safe
    BY <1>2, <2>1, <2>5 DEF Freeze, Damaged, orgVars
  <2>6. ASSUME NEW c \in Caller, NEW q \in Request, OpenApproval(c, q)
        PROVE  Safe
    BY <1>2, <2>1, <2>6 DEF OpenApproval, Damaged, orgVars
  <2>7. ASSUME NEW c \in Caller, LinkApproval(c)
        PROVE  Safe
    BY <1>2, <2>1, <2>7 DEF LinkApproval, TypeOK, DelRow, Damaged, orgVars
  <2>8. ASSUME NEW c \in Caller, CallAborts(c)
        PROVE  Safe
    BY <1>2, <2>1, <2>8 DEF CallAborts, Damaged, orgVars
  <2>9. ASSUME NEW q \in Request, NEW s \in Settlement, Decision(q, s)
        PROVE  Safe
    BY <1>2, <2>1, <2>9 DEF Decision, Damaged, orgVars
  <2>10. CASE RegisterCluster
    BY <1>2, <2>1, <2>10 DEF RegisterCluster, Damaged, orgVars
  <2>11. CASE WriteTuples
    BY <1>2, <2>1, <2>11 DEF WriteTuples, Damaged, orgVars
  <2>12. CASE NakTuples
    BY <1>2, <2>1, <2>12 DEF NakTuples, Damaged, orgVars
  <2>13. ASSUME NEW w \in Worker, NEW q \in Request, HandleOutcome(w, q)
        PROVE  Safe
    BY <1>2, <2>1, <2>13 DEF HandleOutcome, Deliverable, Subscribed, Approved, Idle, TypeOK, RunState, Damaged, orgVars
  <2>14. ASSUME NEW w \in Worker, MarkDeletionApproved(w)
        PROVE  Safe
    BY <2>1, <2>14 DEF MarkDeletionApproved, At, Running
  <2>15. ASSUME NEW w \in Worker, RestoreOrg(w)
        PROVE  Safe
    BY <1>2, <2>1, <2>15 DEF RestoreOrg, Done, NoDel, Idle, TypeOK, Damaged, orgVars
  <2>16. ASSUME NEW w \in Worker, RetryRead(w)
        PROVE  Safe
    BY <1>2, <2>1, <2>16 DEF RetryRead, Damaged, orgVars
  <2>17. ASSUME NEW w \in Worker, RetryReset(w)
        PROVE  Safe
    BY <2>1, <2>17 DEF RetryReset, At, Running
  <2>18. ASSUME NEW w \in Worker, ResumeScan(w)
        PROVE  Safe
    BY <1>2, <2>1, <2>18 DEF ResumeScan, Damaged, orgVars
  <2>19. ASSUME NEW w \in Worker, Load(w)
        PROVE  Safe
    BY <2>1, <2>19 DEF Load, At, Running
  <2>20. ASSUME NEW w \in Worker, StepRevokeClusters(w)
        PROVE  Safe
    BY <2>1, <2>20 DEF StepRevokeClusters, At, Running
  <2>21. ASSUME NEW w \in Worker, StepArchiveAudit(w)
        PROVE  Safe
    BY <2>1, <2>21 DEF StepArchiveAudit, At, Running
  <2>22. ASSUME NEW w \in Worker, StepFGACleanup(w)
        PROVE  Safe
    BY <2>1, <2>22 DEF StepFGACleanup, At, Running
  <2>23. ASSUME NEW w \in Worker, StepDeleteKeycloakOrg(w)
        PROVE  Safe
    BY <2>1, <2>23 DEF StepDeleteKeycloakOrg, At, Running
  <2>24. ASSUME NEW w \in Worker, DeleteKeycloakGroup(w)
        PROVE  Safe
    BY <2>1, <2>24 DEF DeleteKeycloakGroup, At, Running
  <2>25. ASSUME NEW w \in Worker, MarkDone(w)
        PROVE  Safe
    BY <2>1, <2>25 DEF MarkDone, At, Running
  <2>26. ASSUME NEW w \in Worker, StepDeleteOrgRow(w)
        PROVE  Safe
    BY <2>1, <2>26 DEF StepDeleteOrgRow, At, Running
  <2>27. ASSUME NEW w \in Worker, StepFails(w)
        PROVE  Safe
    BY <2>1, <2>27 DEF StepFails, At, Running
  <2>28. ASSUME NEW w \in Worker, Crash(w)
        PROVE  Safe
    BY <1>2, <2>1, <2>28 DEF Crash, GiveUp, Idle, TypeOK, Damaged, orgVars
  <2>29. QED
    BY <2>3, <2>4, <2>5, <2>6, <2>7, <2>8, <2>9, <2>10, <2>11, <2>12, <2>13, <2>14, <2>15, <2>16, <2>17, <2>18, <2>19, <2>20, <2>21, <2>22, <2>23, <2>24, <2>25, <2>26, <2>27, <2>28 DEF Next, DeleteTenant, Begin, Continue, Teardown
<1>3. QED
  BY <1>1, <1>2

\* The irreversible effects are never undone.
LEMMA EffectsMonotone ==
  ASSUME TypeOK, [Next]_vars
  PROVE  /\ archived => archived'
         /\ ~kcOrg => ~kcOrg'
         /\ ~kcGroup => ~kcGroup'
<1>1. CASE UNCHANGED <<archived, kcOrg, kcGroup>>
  BY <1>1
<1>2. ASSUME NEW w \in Worker,
             StepArchiveAudit(w) \/ StepDeleteKeycloakOrg(w) \/ DeleteKeycloakGroup(w)
      PROVE  (archived => archived') /\ (~kcOrg => ~kcOrg') /\ (~kcGroup => ~kcGroup')
  BY <1>2 DEF StepArchiveAudit, StepDeleteKeycloakOrg, DeleteKeycloakGroup
<1>3. QED
  BY <1>1, <1>2
     DEF Next, vars, orgVars, DeleteTenant, Begin, Continue, Teardown, RequestRead, Freeze,
         OpenApproval, LinkApproval, CallAborts, Decision, RegisterCluster, WriteTuples, NakTuples,
         HandleOutcome, MarkDeletionApproved, RestoreOrg, RetryRead, RetryReset, ResumeScan, Load,
         StepRevokeClusters, StepFGACleanup, MarkDone, StepDeleteOrgRow, StepFails, Crash

\* Every step preserves StepsDone.
LEMMA StepsDonePreserved ==
  ASSUME IInv, [Next]_vars
  PROVE  StepsDone'
<1> USE DEF IInv, TInv
<1> DEFINE After(n) == (n >= 2 => archived') /\ (n >= 4 => ~kcOrg' /\ ~kcGroup')
           Mem(v) == /\ run'[v].pc \in {"retry", "work", "group", "mark"} => After(run'[v].step)
                     /\ run'[v].pc = "group" => ~kcOrg'
                     /\ run'[v].pc = "mark" /\ run'[v].step = 3 => ~kcOrg' /\ ~kcGroup'
           New == After(del'.step) /\ (\A v \in Worker : Mem(v)) /\ GoneIsClean'
<1>a. \A n \in Step : StepDone(n) => After(n)
  BY EffectsMonotone DEF StepDone
<1>b. \A v \in Worker : run'[v] = run[v] => Mem(v)
  BY <1>a, EffectsMonotone, RunFields DEF StepsDone
<1>c. del' = del => After(del'.step)
  BY <1>a DEF StepsDone, TypeOK, DelRow
<1>d. orgSt' = orgSt => GoneIsClean'
  BY EffectsMonotone DEF StepsDone, GoneIsClean
<1>e. After(0)
  OBVIOUS
<1>f. SUFFICES New
  BY DEF StepsDone, StepDone
<1> HIDE DEF After
<1>1. CASE run' = run /\ orgSt' = orgSt /\ del' = del
  BY <1>1, <1>b, <1>c, <1>d
<1>2. ASSUME NEW c \in Caller, Freeze(c)
      PROVE  New
  <2>1. del' = del \/ del'.step = 0
    BY <1>2 DEF Freeze
  <2>2. orgSt' # "gone" \/ orgSt' = orgSt
    BY <1>2 DEF Freeze
  <2>3. QED
    BY <1>2, <2>1, <2>2, <1>b, <1>c, <1>d, <1>e DEF Freeze, GoneIsClean
<1>3. ASSUME NEW c \in Caller, LinkApproval(c)
      PROVE  New
  <2>1. del'.step = del.step
    BY <1>3 DEF LinkApproval, TypeOK, DelRow
  <2>2. After(del'.step)
    BY <2>1, <1>a DEF StepsDone, TypeOK, DelRow
  <2>3. QED
    BY <1>3, <2>2, <1>b, <1>d DEF LinkApproval
<1>4. ASSUME NEW w \in Worker, NEW q \in Request, HandleOutcome(w, q)
      PROVE  New
  <2>1. run'[w] = run[w] \/ run'[w].pc \in {"approve", "restore"}
    BY <1>4 DEF HandleOutcome, TypeOK, Idle
  <2>2. \A v \in Worker : v # w => run'[v] = run[v]
    BY <1>4 DEF HandleOutcome, TypeOK
  <2>3. QED
    BY <1>4, <2>1, <2>2, <1>b, <1>c, <1>d DEF HandleOutcome, orgVars
<1>5. ASSUME NEW w \in Worker, MarkDeletionApproved(w)
      PROVE  New
  <2>1. run'[w].pc = "load" /\ \A v \in Worker : v # w => run'[v] = run[v]
    BY <1>5 DEF MarkDeletionApproved, TypeOK, RunState
  <2>2. del' = del \/ del'.step = 0
    BY <1>5 DEF MarkDeletionApproved, SetDel, TypeOK, DelRow
  <2>3. QED
    BY <1>5, <2>1, <2>2, <1>b, <1>c, <1>d, <1>e DEF MarkDeletionApproved
<1>6. ASSUME NEW w \in Worker, RestoreOrg(w)
      PROVE  New
  <2>1. run'[w].pc = "idle" /\ \A v \in Worker : v # w => run'[v] = run[v]
    BY <1>6 DEF RestoreOrg, Done, Idle, TypeOK
  <2>2. del'.step = 0 /\ (orgSt' = "gone" => orgSt = "gone")
    BY <1>6 DEF RestoreOrg, NoDel
  <2>3. QED
    BY <2>1, <2>2, <1>b, <1>e, EffectsMonotone DEF StepsDone, GoneIsClean
<1>7. ASSUME NEW w \in Worker, RetryRead(w)
      PROVE  New
  <2>1. /\ run'[w].pc = "retry" /\ run'[w].step = del.step
        /\ \A v \in Worker : v # w => run'[v] = run[v]
    BY <1>7 DEF RetryRead, Idle, TypeOK
  <2>2. After(run'[w].step)
    BY <1>7, <2>1, <1>c DEF RetryRead, orgVars
  <2>3. QED
    BY <1>7, <2>1, <2>2, <1>b, <1>c, <1>d DEF RetryRead, orgVars
<1>8. ASSUME NEW w \in Worker, RetryReset(w)
      PROVE  New
  <2>1. run'[w].pc = "load" /\ \A v \in Worker : v # w => run'[v] = run[v]
    BY <1>8 DEF RetryReset, TypeOK, RunState
  <2>2. StepDone(run[w].step)
    BY <1>8 DEF RetryReset, StepsDone
  <2>3. del' = del \/ del'.step = run[w].step
    BY <1>8 DEF RetryReset, SetDel, TypeOK, DelRow
  <2>4. After(del'.step)
    BY <2>2, <2>3, <1>a, <1>c, RunFields
  <2>5. QED
    BY <1>8, <2>1, <2>4, <1>b, <1>d DEF RetryReset
<1>9. ASSUME NEW w \in Worker, ResumeScan(w)
      PROVE  New
  <2>1. /\ run'[w] = run[w] \/ run'[w].pc = "load"
        /\ \A v \in Worker : v # w => run'[v] = run[v]
    BY <1>9 DEF ResumeScan, Idle, TypeOK
  <2>2. QED
    BY <1>9, <2>1, <1>b, <1>c, <1>d DEF ResumeScan, orgVars
<1>10. ASSUME NEW w \in Worker, Load(w)
      PROVE  New
  <2>1. /\ run'[w].pc = "idle" \/ (run'[w].pc = "work" /\ run'[w].step = del.step)
        /\ \A v \in Worker : v # w => run'[v] = run[v]
    <3>1. CASE run' = [run EXCEPT ![w].pc = "work", ![w].step = del.step, ![w].force = del.force]
      BY <3>1 DEF TypeOK, RunState
    <3>2. CASE run' = [run EXCEPT ![w] = Idle]
      BY <3>2 DEF TypeOK, Idle
    <3>3. QED
      BY <1>10, <3>1, <3>2 DEF Load, Done, GiveUp
  <2>2. After(del'.step) /\ del' = del
    BY <1>10, <1>c DEF Load, orgVars
  <2>3. QED
    BY <1>10, <2>1, <2>2, <1>b, <1>d DEF Load, orgVars
<1>11. ASSUME NEW w \in Worker, StepRevokeClusters(w)
      PROVE  New
  <2>1. /\ run'[w].pc = "mark" /\ run'[w].step = run[w].step /\ run[w].step # 3
        /\ \A v \in Worker : v # w => run'[v] = run[v]
    BY <1>11, RunFields DEF StepRevokeClusters, At, TypeOK, RunState, Step
  <2>2. After(run[w].step)
    BY <1>11, <1>a, RunFields DEF StepRevokeClusters, At, StepsDone
  <2>3. QED
    BY <1>11, <2>1, <2>2, <1>b, <1>c, <1>d DEF StepRevokeClusters
<1>12. ASSUME NEW w \in Worker, StepFGACleanup(w)
      PROVE  New
  <2>1. /\ run'[w].pc = "mark" /\ run'[w].step = run[w].step /\ run[w].step # 3
        /\ \A v \in Worker : v # w => run'[v] = run[v]
    BY <1>12, RunFields DEF StepFGACleanup, At, TypeOK, RunState, Step
  <2>2. After(run[w].step)
    BY <1>12, <1>a, RunFields DEF StepFGACleanup, At, StepsDone
  <2>3. QED
    BY <1>12, <2>1, <2>2, <1>b, <1>c, <1>d DEF StepFGACleanup
<1>13. ASSUME NEW w \in Worker, StepArchiveAudit(w)
      PROVE  New
  <2>1. /\ run'[w].pc = "work" /\ run'[w].step = 2
        /\ \A v \in Worker : v # w => run'[v] = run[v]
    BY <1>13 DEF StepArchiveAudit, At, TypeOK, RunState
  <2>2. After(2)
    BY <1>13 DEF StepArchiveAudit, After
  <2>3. del' = del \/ del'.step = 2
    BY <1>13 DEF StepArchiveAudit, SetDel, TypeOK, DelRow
  <2>4. After(del'.step)
    BY <2>2, <2>3, <1>c
  <2>5. QED
    BY <1>13, <2>1, <2>2, <2>4, <1>b, <1>d DEF StepArchiveAudit
<1>14. ASSUME NEW w \in Worker, StepDeleteKeycloakOrg(w)
      PROVE  New
  <2>1. /\ run'[w].pc = "group" /\ run'[w].step = run[w].step
        /\ \A v \in Worker : v # w => run'[v] = run[v]
    BY <1>14 DEF StepDeleteKeycloakOrg, TypeOK, RunState
  <2>2. After(run[w].step) /\ ~kcOrg'
    BY <1>14, <1>a, RunFields DEF StepDeleteKeycloakOrg, At, StepsDone
  <2>3. QED
    BY <1>14, <2>1, <2>2, <1>b, <1>c, <1>d DEF StepDeleteKeycloakOrg
<1>15. ASSUME NEW w \in Worker, DeleteKeycloakGroup(w)
      PROVE  New
  <2>1. /\ run'[w].pc = "mark" /\ run'[w].step = run[w].step
        /\ \A v \in Worker : v # w => run'[v] = run[v]
    BY <1>15 DEF DeleteKeycloakGroup, TypeOK, RunState
  <2>2. After(run[w].step) /\ ~kcOrg' /\ ~kcGroup'
    BY <1>15, <1>a, RunFields DEF DeleteKeycloakGroup, StepsDone
  <2>3. QED
    BY <1>15, <2>1, <2>2, <1>b, <1>c, <1>d DEF DeleteKeycloakGroup
<1>16. ASSUME NEW w \in Worker, MarkDone(w)
      PROVE  New
  <2>1. /\ run'[w].pc = "work" /\ run'[w].step = run[w].step + 1
        /\ \A v \in Worker : v # w => run'[v] = run[v]
    BY <1>16 DEF MarkDone, TypeOK, RunState
  <2>2. StepDone(run[w].step + 1)
    BY <1>16, RunFields DEF MarkDone, StepsDone, StepDone, MarkAt
  <2>3. After(run[w].step + 1)
    BY <1>16, <2>2, <1>a DEF MarkDone, MarkAt, Step
  <2>4. del' = del \/ del'.step = run[w].step + 1
    BY <1>16 DEF MarkDone, SetDel, TypeOK, DelRow
  <2>5. After(del'.step)
    BY <2>3, <2>4, <1>c
  <2>6. QED
    BY <1>16, <2>1, <2>3, <2>5, <1>b, <1>d DEF MarkDone
<1>17. ASSUME NEW w \in Worker, StepDeleteOrgRow(w)
      PROVE  New
  <2>1. run'[w].pc = "idle" /\ \A v \in Worker : v # w => run'[v] = run[v]
    BY <1>17 DEF StepDeleteOrgRow, Done, Idle, TypeOK
  <2>2. run[w].step = 4 /\ StepDone(run[w].step)
    BY <1>17, RunFields DEF StepDeleteOrgRow, At, StepsDone, Step
  <2>3. archived' /\ ~kcOrg' /\ ~kcGroup'
    BY <1>17, <2>2, EffectsMonotone DEF StepDone
  <2>4. del'.step = 0
    BY <1>17 DEF StepDeleteOrgRow, NoDel
  <2>5. QED
    BY <2>1, <2>3, <2>4, <1>b, <1>e DEF GoneIsClean
<1>18. ASSUME NEW w \in Worker, StepFails(w)
      PROVE  New
  <2>1. run'[w].pc = "idle" /\ \A v \in Worker : v # w => run'[v] = run[v]
    BY <1>18 DEF StepFails, GiveUp, Idle, TypeOK
  <2>2. StepDone(run[w].step)
    BY <1>18 DEF StepFails, Running, StepsDone
  <2>3. del' = del \/ del'.step = run[w].step
    BY <1>18 DEF StepFails, SetDel, TypeOK, DelRow
  <2>4. After(del'.step)
    BY <2>2, <2>3, <1>a, <1>c, RunFields
  <2>5. QED
    BY <1>18, <2>1, <2>4, <1>b, <1>d DEF StepFails
<1>19. ASSUME NEW w \in Worker, Crash(w)
      PROVE  New
  <2>1. run'[w].pc = "idle" /\ \A v \in Worker : v # w => run'[v] = run[v]
    BY <1>19 DEF Crash, GiveUp, Idle, TypeOK
  <2>2. QED
    BY <1>19, <2>1, <1>b, <1>c, <1>d DEF Crash, orgVars
<1>20. QED
  BY <1>1, <1>2, <1>3, <1>4, <1>5, <1>6, <1>7, <1>8, <1>9, <1>10, <1>11, <1>12, <1>13, <1>14, <1>15, <1>16, <1>17, <1>18, <1>19
     DEF Next, vars, orgVars, DeleteTenant, Begin, Continue, Teardown, RequestRead, OpenApproval,
         CallAborts, Decision, RegisterCluster, WriteTuples, NakTuples

-----------------------------------------------------------------------------

\* The inductive invariant holds initially ...
LEMMA InitIInv == Init => IInv
<1> SUFFICES ASSUME Init PROVE IInv
  OBVIOUS
<1> USE TenantDeletionAssumption
<1>1. TypeOK
  <2>1. /\ outcome \in [Request -> {"none", "pending"} \cup Settlement]
        /\ twq \in Seq({"deleting", "restored"})
        /\ naks \in 0 .. MaxNaks /\ faults \in 0 .. MaxFaults
        /\ tries \in [Request -> 0 .. MaxDeliver]
    BY DEF Init, ContractInit
  <2>2. QED
    BY <2>1, IdleTypes DEF Init, TypeOK
<1>2. MarkAt /\ FrozenIffTracked
  BY DEF Init, MarkAt, Idle, FrozenIffTracked, NoDel
<1>3. ApprovedFirst
  BY DEF Init, ApprovedFirst, TeardownApproved, Damaged, Idle, NoDel
<1>4. StepsDone
  BY DEF Init, StepsDone, StepDone, GoneIsClean, Idle, NoDel
<1>5. QED
  BY <1>1, <1>2, <1>3, <1>4 DEF IInv, TInv

\* ... and is preserved by every step.
LEMMA NextIInv == IInv /\ [Next]_vars => IInv'
<1> SUFFICES ASSUME IInv, [Next]_vars PROVE IInv'
  OBVIOUS
<1>1. TInv'
  BY TypePreserved, MarkAtPreserved DEF IInv, TInv
<1>2. QED
  BY <1>1, FrozenPreserved, ApprovedFirstPreserved, StepsDonePreserved DEF IInv

\* Every reachable state of the decommission satisfies the inductive invariant.
THEOREM InvariantHolds == Spec => []IInv
BY InitIInv, NextIInv, PTL DEF Spec

\* The rows, the calls and the runs of the decommission are well typed.
THEOREM TypeCorrect == Spec => []TypeOK
<1>1. IInv => TypeOK
  BY DEF IInv, TInv
<1>2. QED
  BY InvariantHolds, <1>1, PTL

\* Neither the start-up scan, nor RetryDeletion, nor a redelivered outcome
\* destroys anything of a tenant before a decommission of it was approved.
THEOREM NeverUnapproved == Spec => []TeardownApproved
<1>1. IInv => TeardownApproved
  BY DEF IInv, ApprovedFirst
<1>2. QED
  BY InvariantHolds, <1>1, PTL

\* Deleter.Run never skips a step, however it is resumed: an organization
\* whose row is deleted has been archived and removed from Keycloak.
THEOREM NeverSkips == Spec => []GoneIsClean
<1>1. IInv => GoneIsClean
  BY DEF IInv, StepsDone
<1>2. QED
  BY InvariantHolds, <1>1, PTL

\* An organization is frozen exactly while a tenant_deletions row tracks it.
THEOREM NeverLost == Spec => []FrozenIffTracked
<1>1. IInv => FrozenIffTracked
  BY DEF IInv
<1>2. QED
  BY InvariantHolds, <1>1, PTL
=============================================================================
