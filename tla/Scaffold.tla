------------------------------ MODULE Scaffold ------------------------------
(***************************************************************************)
(* internal/scaffold: one scaffold run, a list of steps with effects       *)
(* outside the database (a repository, an application, a catalog item, a   *)
(* team), driven by the reconcile loop of every replica, held at an        *)
(* approval gate after rendering, cancelled and retried by its users.      *)
(*                                                                         *)
(* claimNext takes a row lock and gives it back when its transaction ends, *)
(* before driveRun begins; runLock is a mutex of one process.  A driver is *)
(* the loop of one replica and works on the run and the steps it read.     *)
(***************************************************************************)
EXTENDS Caller, Naturals, Sequences

CONSTANTS Driver,            \* replicas that run the reconcile loop
          ScaffoldKind,      \* kinds of templates: "component", "gitops-repo"
          RequiresApproval,  \* what the template's manifest says
          RunApproval,       \* approval request ids
          NoHold,            \* no approvalId among the outputs
          MaxAttempts,       \* attempts of a step (cfg.MaxAttempts)
          MaxScaffoldRequests, MaxDriverCrashes, MaxStepFailures  \* bounds

ASSUME ScaffoldAssumption ==
    /\ ScaffoldKind \subseteq {"component", "gitops-repo"} /\ RequiresApproval \in BOOLEAN
    /\ NoHold \notin RunApproval /\ {MaxAttempts, MaxScaffoldRequests, MaxDriverCrashes, MaxStepFailures} \subseteq Nat

VARIABLES run,        \* scaffold_runs row: phase, cancelled_at, the hold of the outputs
          runStep,    \* scaffold_run_steps: state (a completed one has its result), attempts
          effect,     \* what the steps left outside the run's rows
          approval,   \* approval requests of the run
          driver,     \* driveRun in progress, per replica
          resume,     \* ResumeHandler: the event it is at, and the requests whose event it is done with
          scaffoldAsked, driverCrashes, stepFailures  \* bounds

scaffoldVars == <<run, runStep, effect, approval, driver, resume, scaffoldAsked, driverCrashes,
                  stepFailures>>

\* stepNames and stepNamesGitOpsRepo
stepOrderForKind(kind) ==
    IF kind = "gitops-repo"
    THEN <<"rendering", "creating-repo", "registering-repo", "attaching-root-app", "binding-rbac">>
    ELSE <<"rendering", "creating-repo", "creating-pipeline", "registering-catalog", "binding-rbac">>
allStepNames ==
    {"rendering", "creating-repo", "creating-pipeline", "registering-catalog", "registering-repo",
     "attaching-root-app", "binding-rbac"}
\* What each step does outside the run's rows, in order; every effect can be
\* repeated, because its target is looked up, upserted or named after the run.
stepRendering == <<>>
stepCreatingRepo == <<"repository", "skeleton commit">>
stepCreatingPipeline == <<"application command">>
stepRegisteringCatalog == <<"catalog item">>
stepRegisteringRepo == <<"git repository row">>
stepAttachingRootApp == <<"root application", "application command">>
stepBindingRBAC(kind) == IF kind = "gitops-repo" THEN <<>> ELSE <<"team", "member">>
stepFuncs(kind, n) ==
    CASE n = "rendering" -> stepRendering
      [] n = "creating-repo" -> stepCreatingRepo
      [] n = "creating-pipeline" -> stepCreatingPipeline
      [] n = "registering-catalog" -> stepRegisteringCatalog
      [] n = "registering-repo" -> stepRegisteringRepo
      [] n = "attaching-root-app" -> stepAttachingRootApp
      [] n = "binding-rbac" -> stepBindingRBAC(kind)
Effects(fs, k) == {fs[i] : i \in 1 .. k}
StepEffects(kind, n) == Effects(stepFuncs(kind, n), Len(stepFuncs(kind, n)))
ScaffoldEffect ==
    UNION {StepEffects(kind, n) : kind \in {"component", "gitops-repo"}, n \in allStepNames}
ScaffoldTerminal == {"completed", "failed"}
ScaffoldPhase == allStepNames \cup ScaffoldTerminal \cup {"absent", "pending", "pending_approval"}
ScaffoldRunRow == [phase : ScaffoldPhase, kind : {"component", "gitops-repo"}, cancelled : BOOLEAN,
                   hold : RunApproval \cup {NoHold}]
ScaffoldStepRow == [state : {"pending", "failed", "completed"}, attempts : 0 .. MaxStepFailures]
\* A driver's copy of the run and its steps; RunSteps marks the step that met the cancellation.
DriverStepRow == [state : {"pending", "failed", "completed", "cancelled"}, attempts : 0 .. MaxStepFailures]
DriverRow == [pc : {"idle", "step", "persist", "gate", "park", "cancelled", "exhausted"},
              run : ScaffoldRunRow, steps : [allStepNames -> DriverStepRow], at : allStepNames,
              request : RunApproval \cup {NoHold}]
ResumeRow == [pc : {"idle", "approved", "rejected"}, request : RunApproval \cup {NoHold},
              hold : RunApproval \cup {NoHold}, done : SUBSET (RunApproval \cup {NoHold})]
NoRun == [phase |-> "absent", kind |-> "component", cancelled |-> FALSE, hold |-> NoHold]
FreshSteps == [n \in allStepNames |-> [state |-> "pending", attempts |-> 0]]
IdleDriver == [pc |-> "idle", run |-> NoRun, steps |-> FreshSteps, at |-> "rendering",
               request |-> NoHold]

HandlerIdle(done) == [pc |-> "idle", request |-> NoHold, hold |-> NoHold, done |-> done]

ScaffoldTypeOK ==
    /\ run \in ScaffoldRunRow
    /\ runStep \in [allStepNames -> ScaffoldStepRow]
    /\ effect \subseteq ScaffoldEffect
    /\ approval \in [RunApproval -> {"none", "pending", "approved", "rejected", "expired"}]
    /\ driver \in [Driver -> DriverRow]
    /\ resume \in ResumeRow
    /\ scaffoldAsked \in 0 .. MaxScaffoldRequests /\ driverCrashes \in 0 .. MaxDriverCrashes
    /\ stepFailures \in 0 .. MaxStepFailures

ScaffoldInit ==
    /\ run = NoRun /\ runStep = FreshSteps /\ effect = {}
    /\ approval = [a \in RunApproval |-> "none"]
    /\ driver = [d \in Driver |-> IdleDriver] /\ resume = HandlerIdle({})
    /\ scaffoldAsked = 0 /\ driverCrashes = 0 /\ stepFailures = 0

\* Mutant: a step that failed is passed over.
RemainingSkipsFailed(r, steps) ==
    {i \in DOMAIN stepOrderForKind(r.kind) : steps[stepOrderForKind(r.kind)[i]].state = "pending"}
\* The places of the steps of a run that are not completed, and the first of these steps.
Remaining(r, steps) ==
    {i \in DOMAIN stepOrderForKind(r.kind) : steps[stepOrderForKind(r.kind)[i]].state # "completed"}
FirstRemaining(r, steps) ==
    stepOrderForKind(r.kind)[CHOOSE i \in Remaining(r, steps) : \A j \in Remaining(r, steps) : i <= j]
\* nextPhaseForRun
nextPhaseForRun(r, steps, last) ==
    IF Remaining(r, steps) = {} THEN last ELSE FirstRemaining(r, steps)

\* Store.UpdateRunPhase: an unconditional update of one row, if it is there.
UpdateRunPhase(phase, hold) ==
    run' = IF run.phase = "absent" THEN run ELSE [run EXCEPT !.phase = phase, !.hold = hold]

-----------------------------------------------------------------------------
(* driveRun *)

\* Mutant: a phase is missing from the query.
ClaimNextRunnableMisses ==
    /\ run.phase \in {"pending", "rendering", "creating-repo", "creating-pipeline", "binding-rbac"}
    /\ ~run.cancelled
\* ClaimNextRunnable (the phases its query lists) and ClaimNextCancelled; the
\* backoff of a failed step is over at some time.
ClaimNextRunnable ==
    /\ run.phase \in {"pending", "rendering", "creating-repo", "creating-pipeline",
                      "registering-catalog", "binding-rbac"}
    /\ ~run.cancelled
ClaimNextCancelled == run.cancelled /\ run.phase \notin ScaffoldTerminal

\* The run and its steps are read again under runLock.
driveRun(d) ==
    /\ driver[d].pc = "idle" /\ run.phase # "absent" /\ (ClaimNextRunnable \/ ClaimNextCancelled)
    /\ driver' = [driver EXCEPT ![d] = [IdleDriver EXCEPT !.run = run, !.steps = runStep,
          !.pc = IF runStep["rendering"].state = "completed" THEN "gate" ELSE "step"]]
    /\ UNCHANGED <<run, runStep, effect, approval, resume, scaffoldAsked, driverCrashes, stepFailures>>

Todo(d) == Remaining(driver[d].run, driver[d].steps)
NextTodo(d) == FirstRemaining(driver[d].run, driver[d].steps)
\* The copy of a driver, with step n settled as row.
WithSettled(dr, n, row) == [dr EXCEPT !.pc = "persist", !.at = n, !.steps = [@ EXCEPT ![n] = row]]

\* RunSteps, before a step: isCancelled reads the row.
StepCancelled(d) ==
    /\ driver[d].pc = "step" /\ Todo(d) # {} /\ run.cancelled
    /\ LET n == NextTodo(d)
       IN  driver' = [driver EXCEPT ![d] = WithSettled(@, n, [@.steps[n] EXCEPT !.state = "cancelled"])]
    /\ UNCHANGED <<run, runStep, effect, approval, resume, scaffoldAsked, driverCrashes, stepFailures>>

\* A step function has all its effects, or fails after some of them.
StepFunc(d) ==
    /\ driver[d].pc = "step" /\ Todo(d) # {} /\ ~run.cancelled
    /\ LET n == NextTodo(d)
           fs == stepFuncs(driver[d].run.kind, n)
       IN  \/ /\ effect' = effect \cup Effects(fs, Len(fs)) /\ UNCHANGED stepFailures
              /\ driver' = [driver EXCEPT ![d] = WithSettled(@, n, [@.steps[n] EXCEPT !.state = "completed"])]
           \/ /\ stepFailures < MaxStepFailures /\ stepFailures' = stepFailures + 1
              /\ \E k \in 0 .. Len(fs) : effect' = effect \cup Effects(fs, k)
              /\ driver' = [driver EXCEPT ![d] =
                    WithSettled(@, n, [state |-> "failed", attempts |-> @.steps[n].attempts + 1])]
    /\ UNCHANGED <<run, runStep, approval, resume, scaffoldAsked, driverCrashes>>

\* Mutant: a step that met the cancellation is stored with the runner's own word for it.
onUpdateRaw(d) ==
    LET n == driver[d].at
        st == driver[d].steps[n]
    IN  /\ driver[d].pc = "persist" /\ runStep' = [runStep EXCEPT ![n] = st]
        /\ UpdateRunPhase(n, driver[d].run.hold)
        /\ driver' = [driver EXCEPT ![d].pc = IF st.state = "cancelled" THEN "cancelled" ELSE "idle"]
        /\ UNCHANGED <<effect, approval, resume, scaffoldAsked, driverCrashes, stepFailures>>
\* onUpdate stores the step that settled, the run's phase and its outputs.
onUpdate(d) ==
    LET n == driver[d].at
        st == driver[d].steps[n]
    IN  /\ driver[d].pc = "persist"
        /\ runStep' = [runStep EXCEPT ![n] = IF st.state = "cancelled" THEN [st EXCEPT !.state = "failed"] ELSE st]
        /\ UpdateRunPhase(n, driver[d].run.hold)
        /\ driver' = [driver EXCEPT ![d].pc =
              CASE st.state = "cancelled" -> "cancelled"
                [] st.state = "completed" -> IF n = "rendering" THEN "gate" ELSE "step"
                [] st.attempts > MaxAttempts -> "exhausted"
                [] OTHER -> "idle"]
        /\ UNCHANGED <<effect, approval, resume, scaffoldAsked, driverCrashes, stepFailures>>

\* maybeGate between the first step and the others; the request is created, and
\* the run is parked with it in a later transaction.
maybeGatePasses(d) ==
    run.cancelled \/ driver[d].run.hold # NoHold \/ ~RequiresApproval
maybeGate(d) ==
    /\ driver[d].pc = "gate"
    /\ \/ /\ maybeGatePasses(d)
          /\ driver' = [driver EXCEPT ![d].pc = "step"] /\ UNCHANGED approval
       \/ /\ ~maybeGatePasses(d)
          /\ LET fresh == {a \in RunApproval : approval[a] = "none"}
                 a == CHOOSE x \in fresh : TRUE
             IN /\ fresh # {} /\ approval' = [approval EXCEPT ![a] = "pending"]
                /\ driver' = [driver EXCEPT ![d].pc = "park", ![d].request = a]
    /\ UNCHANGED <<run, runStep, effect, resume, scaffoldAsked, driverCrashes, stepFailures>>
ParkForApproval(d) ==
    /\ driver[d].pc = "park"
    /\ UpdateRunPhase("pending_approval", driver[d].request)
    /\ driver' = [driver EXCEPT ![d] = IdleDriver]
    /\ UNCHANGED <<runStep, effect, approval, resume, scaffoldAsked, driverCrashes, stepFailures>>

\* finalize: the phase is written whatever it is by now.
finalize(d) ==
    /\ \/ driver[d].pc \in {"cancelled", "exhausted"} /\ UpdateRunPhase("failed", driver[d].run.hold)
       \/ driver[d].pc = "step" /\ Todo(d) = {} /\ UpdateRunPhase("completed", driver[d].run.hold)
    /\ driver' = [driver EXCEPT ![d] = IdleDriver]
    /\ UNCHANGED <<runStep, effect, approval, resume, scaffoldAsked, driverCrashes, stepFailures>>

DriverStep(d) ==
    \/ driveRun(d) \/ StepCancelled(d) \/ StepFunc(d) \/ onUpdate(d) \/ maybeGate(d)
    \/ ParkForApproval(d) \/ finalize(d)

\* A replica stops, or a transaction fails: what it had in memory is lost.
DriverCrash(d) ==
    /\ driver[d].pc # "idle" /\ driverCrashes < MaxDriverCrashes
    /\ driverCrashes' = driverCrashes + 1 /\ driver' = [driver EXCEPT ![d] = IdleDriver]
    /\ UNCHANGED <<run, runStep, effect, approval, resume, scaffoldAsked, stepFailures>>

\* reapExpired: DeleteTerminalRuns after RunTTL, which outlasts every drive.  The next run is
\* another one, with effects and requests of its own.
reapExpired ==
    /\ run.phase \in ScaffoldTerminal /\ \A d \in Driver : driver[d].pc = "idle"
    /\ resume.pc = "idle"
    /\ run' = NoRun /\ runStep' = FreshSteps /\ effect' = {}
    /\ approval' = [a \in RunApproval |-> "none"] /\ resume' = HandlerIdle({})
    /\ UNCHANGED <<driver, scaffoldAsked, driverCrashes, stepFailures>>

-----------------------------------------------------------------------------
(* The approval, and its resume handler *)

\* Approvers decide, or the request expires or is withdrawn, with an event of its own (external).
DecideRun ==
    /\ \E a \in RunApproval, outcome \in {"approved", "rejected", "expired"} :
          approval[a] = "pending" /\ approval' = [approval EXCEPT ![a] = outcome]
    /\ UNCHANGED <<run, runStep, effect, driver, resume, scaffoldAsked, driverCrashes, stepFailures>>

\* ResumeHandler.Handle hears of decisions only, each until it returns without an error.  It
\* reads the run, which must be parked (for this request or another one), and writes it later.
HandleRunDecided(a) ==
    /\ resume.pc = "idle" /\ approval[a] \in {"approved", "rejected"} /\ a \notin resume.done
    /\ \/ /\ run.phase = "pending_approval"
          /\ resume' = [resume EXCEPT !.pc = approval[a], !.request = a, !.hold = run.hold]
       \/ /\ run.phase \notin {"absent", "pending_approval"} /\ resume' = [resume EXCEPT !.done = @ \cup {a}]
    /\ UNCHANGED <<run, runStep, effect, approval, driver, scaffoldAsked, driverCrashes, stepFailures>>
\* The event may be handed over again although the run was written.
ResumeRun ==
    /\ resume.pc # "idle"
    /\ \/ resume.pc = "approved" /\ UpdateRunPhase(nextPhaseForRun(run, runStep, "creating-repo"), run.hold)
       \/ resume.pc = "rejected" /\ UpdateRunPhase("failed", resume.hold)
    /\ \E done \in {resume.done, resume.done \cup {resume.request}} : resume' = HandlerIdle(done)
    /\ UNCHANGED <<runStep, effect, approval, driver, scaffoldAsked, driverCrashes, stepFailures>>
\* The process stops, or the transaction fails: the event is handed over again.
ResumeFails ==
    /\ resume.pc # "idle" /\ resume' = HandlerIdle(resume.done)
    /\ driverCrashes < MaxDriverCrashes /\ driverCrashes' = driverCrashes + 1
    /\ UNCHANGED <<run, runStep, effect, approval, driver, scaffoldAsked, stepFailures>>
ResumeStep == ResumeRun \/ \E a \in RunApproval : HandleRunDecided(a)

-----------------------------------------------------------------------------
(* Handlers *)

authorizeScaffold(u) ==
    /\ Authorized(u, "deployments_create")
    /\ scaffoldAsked < MaxScaffoldRequests /\ scaffoldAsked' = scaffoldAsked + 1

\* CreateRun: the unique idempotency key keeps a second submission out.
CreateRun ==
    /\ run.phase = "absent"
    /\ \E kind \in ScaffoldKind : run' = [NoRun EXCEPT !.phase = "pending", !.kind = kind]
    /\ UNCHANGED <<runStep, effect, approval, driver, resume, driverCrashes, stepFailures>>
\* SetCancelled: WHERE cancelled_at IS NULL and the phase is not terminal.
SetCancelled == /\ run.phase \notin ScaffoldTerminal \cup {"absent"} /\ ~run.cancelled
                /\ run' = [run EXCEPT !.cancelled = TRUE]
CancelRun ==
    SetCancelled /\ UNCHANGED <<runStep, effect, approval, driver, resume, driverCrashes, stepFailures>>
\* ResetForRetry: steps that are not completed begin again, and the hold is
\* dropped, so that the gate asks again.
ResetForRetry(next) ==
    /\ run.phase = "failed"
    /\ run' = [run EXCEPT !.phase = next, !.cancelled = FALSE, !.hold = NoHold]
    /\ runStep' = [n \in allStepNames |-> IF runStep[n].state = "completed" THEN runStep[n]
                                          ELSE [state |-> "pending", attempts |-> 0]]
RetryRun ==
    /\ ResetForRetry(nextPhaseForRun(run, runStep, "pending"))
    /\ UNCHANGED <<effect, approval, driver, resume, driverCrashes, stepFailures>>

httpCreateRun(u) == authorizeScaffold(u) /\ CreateRun
httpCreateScaffold(u) == authorizeScaffold(u) /\ CreateRun
httpCancelRun(u) == authorizeScaffold(u) /\ CancelRun
httpRetryRun(u) == authorizeScaffold(u) /\ RetryRun
ScaffoldRoutes ==
    \E u \in User :
        httpCreateRun(u) \/ httpCreateScaffold(u) \/ httpCancelRun(u) \/ httpRetryRun(u)

ScaffoldNext ==
    \/ ScaffoldRoutes
    \/ \E d \in Driver : DriverStep(d) \/ DriverCrash(d)
    \/ reapExpired \/ DecideRun \/ ResumeStep \/ ResumeFails

-----------------------------------------------------------------------------
(* Properties *)

\* A run that is shown as completed has left every effect of its template,
\* whatever crashed, failed half-way, was cancelled or retried on the way.
CompletedRunIsDone ==
    run.phase = "completed" =>
        \A i \in DOMAIN stepOrderForKind(run.kind) :
            StepEffects(run.kind, stepOrderForKind(run.kind)[i]) \subseteq effect

\* The run is parked, and its approvers can still decide.
AwaitsDecision == run.phase = "pending_approval" /\ run.hold \in RunApproval /\ approval[run.hold] = "pending"
\* No loop and no event takes the run further; a cancellation by a user does: it is parked and
\* its request expired, or was decided and the handler returned before the run was parked; or
\* it stopped in a phase of the gitops-repo kind that ClaimNextRunnable does not list.
Stranded ==
    \/ /\ run.phase = "pending_approval" /\ run.hold \in RunApproval
       /\ approval[run.hold] = "expired" \/ run.hold \in resume.done
    \/ run.phase \in {"registering-repo", "attaching-root-app"} /\ \A d \in Driver : driver[d].pc = "idle"
\* A gate that has run out of the model's request ids (a bound).
GateSpent ==
    /\ \A a \in RunApproval : approval[a] # "none"
    /\ \E d \in Driver : driver[d].pc = "gate" /\ ~maybeGatePasses(d)
\* A run does not stay in the middle: again and again it is completed or failed, or people must
\* act on it: its approvers decide, or, where it is stranded, a user cancels it.  A cancelled run
\* completes or fails, wherever it was.
RunSettled ==
    \/ run.phase \in ScaffoldTerminal \cup {"absent"}
    \/ ~run.cancelled /\ (AwaitsDecision \/ Stranded)
    \/ GateSpent
RunSettles == []<>RunSettled

-----------------------------------------------------------------------------
(* Statements the code does not keep: TLC finds a counterexample of each  *)
(* (README, "What the code does not keep").                               *)

\* Where the template requires an approval, nothing is created outside before
\* one was granted: a retry, a cancellation or a crash at the gate is no way
\* around it.
ApprovedBeforeEffect ==
    RequiresApproval /\ effect # {} => \E a \in RunApproval : approval[a] = "approved"

\* An expired request settles the run failed (resume.go:5), and the loop drives every run that
\* is neither at an end nor cancelled (ClaimNextRunnable): no run is left to a user's cancellation.
NoneStranded == ~run.cancelled => ~Stranded
=============================================================================
