------------------------------- MODULE Drift -------------------------------
(***************************************************************************)
(* internal/fleetmanager/drift.go: the sweep that opens a drift event for  *)
(* every resource instance whose reported sync state is not Synced, and    *)
(* resolves the events that no longer describe an instance.                *)
(*                                                                         *)
(* The sweep holds no lock: it works on the list it read, checks for an    *)
(* open event and inserts in separate statements, and may overlap with the *)
(* sweep of a replica that has just lost the lease.                        *)
(***************************************************************************)
EXTENDS Naturals, FiniteSets

CONSTANTS DriftInstance,   \* resource instances, one per reference
          DriftSweeper,    \* replicas that may be sweeping
          DriftEventId,    \* ids of drift events
          NoDrift,         \* no open event under an id
          MaxReports,      \* bound: reports of the agents
          MaxSweepFaults   \* bound: sweeps cut short

ASSUME DriftAssumption ==
    MaxReports \in Nat /\ MaxSweepFaults \in Nat /\ NoDrift \notin DriftInstance

VARIABLES syncState,   \* resource_instances.sync_state
          openDrift,   \* open drift_events: reference and reported hash by id
          sweep,       \* sweeps in progress
          reports, sweepFaults  \* bounds

driftVars == <<syncState, openDrift, sweep, reports, sweepFaults>>

DriftState == {"OutOfSync", "Unknown"}   \* what listOutOfSyncInstances selects
SyncState == DriftState \cup {"Synced"}
DriftKey == DriftInstance \X DriftState
IdleSweep == [pc |-> "idle", current |-> {}, todo |-> {}, open |-> {}]

DriftTypeOK ==
    /\ syncState \in [DriftInstance -> SyncState]
    /\ openDrift \in [DriftEventId -> DriftKey \cup {NoDrift}]
    /\ sweep \in [DriftSweeper -> [pc : {"idle", "check", "insert", "open", "resolve"},
                                   current : SUBSET DriftKey, todo : SUBSET DriftKey,
                                   open : SUBSET DriftEventId]]
    /\ reports \in 0 .. MaxReports /\ sweepFaults \in 0 .. MaxSweepFaults

DriftInit ==
    /\ syncState = [i \in DriftInstance |-> "Synced"]
    /\ openDrift = [e \in DriftEventId |-> NoDrift]
    /\ sweep = [w \in DriftSweeper |-> IdleSweep]
    /\ reports = 0 /\ sweepFaults = 0

\* The inventory stores what an agent reports (external to the sweep).
AgentReports ==
    /\ reports < MaxReports /\ reports' = reports + 1
    /\ \E i \in DriftInstance, st \in SyncState :
          st # syncState[i] /\ syncState' = [syncState EXCEPT ![i] = st]
    /\ UNCHANGED <<openDrift, sweep, sweepFaults>>

listOutOfSyncInstances == {k \in DriftKey : syncState[k[1]] = k[2]}
hasOpenDrift(k) == \E e \in DriftEventId : openDrift[e] = k
listOpenDrift == {e \in DriftEventId : openDrift[e] # NoDrift}
\* newUUID: an id no row and no list of a sweep holds.
FreshDrift ==
    {e \in DriftEventId : openDrift[e] = NoDrift /\ \A w \in DriftSweeper : e \notin sweep[w].open}

\* DriftSweep begins: the diverged instances are read once.
DriftSweep(w) ==
    /\ sweep[w].pc = "idle"
    /\ LET diverged == listOutOfSyncInstances
       IN  sweep' = [sweep EXCEPT ![w] = [pc |-> IF diverged = {} THEN "open" ELSE "check",
                                          current |-> diverged, todo |-> diverged, open |-> {}]]
    /\ UNCHANGED <<syncState, openDrift, reports, sweepFaults>>

\* ReportDrift: looks for an open event, and inserts one in a later statement.
Reported(w, k, pc) ==
    sweep' = [sweep EXCEPT ![w].todo = @ \ {k},
                           ![w].pc = IF sweep[w].todo = {k} THEN "open" ELSE pc]
ReportDrift(w) ==
    /\ sweep[w].pc = "check"
    /\ LET k == CHOOSE x \in sweep[w].todo : TRUE
       IN  IF hasOpenDrift(k) THEN Reported(w, k, "check")
           ELSE sweep' = [sweep EXCEPT ![w].pc = "insert"]
    /\ UNCHANGED <<syncState, openDrift, reports, sweepFaults>>
insertDrift(w) ==
    /\ sweep[w].pc = "insert"
    /\ LET k == CHOOSE x \in sweep[w].todo : TRUE
       IN  /\ FreshDrift # {}
           /\ openDrift' = [openDrift EXCEPT ![CHOOSE e \in FreshDrift : TRUE] = k]
           /\ Reported(w, k, "check")
    /\ UNCHANGED <<syncState, reports, sweepFaults>>

\* Mutant: an event is kept while its instance diverges in any way.
ResolutionPassByRef(w) ==
    /\ sweep[w].pc = "open"
    /\ LET stale == {e \in listOpenDrift : openDrift[e][1] \notin {k[1] : k \in sweep[w].current}}
       IN  sweep' = [sweep EXCEPT ![w] = IF stale = {} THEN IdleSweep
                                         ELSE [@ EXCEPT !.pc = "resolve", !.open = stale]]
    /\ UNCHANGED <<syncState, openDrift, reports, sweepFaults>>
\* The resolution pass: the open events are listed once, and those that describe
\* no instance of the list the sweep began with are resolved one by one.
ResolutionPass(w) ==
    /\ sweep[w].pc = "open"
    /\ LET stale == {e \in listOpenDrift : openDrift[e] \notin sweep[w].current}
       IN  sweep' = [sweep EXCEPT ![w] = IF stale = {} THEN IdleSweep
                                         ELSE [@ EXCEPT !.pc = "resolve", !.open = stale]]
    /\ UNCHANGED <<syncState, openDrift, reports, sweepFaults>>
\* ResolveDrift and resolveDrift: nothing happens to an event resolved already.
ResolveDrift(w) ==
    /\ sweep[w].pc = "resolve"
    /\ LET e == CHOOSE x \in sweep[w].open : TRUE
           rest == sweep[w].open \ {e}
       IN  /\ openDrift' = [openDrift EXCEPT ![e] = NoDrift]
           /\ sweep' = [sweep EXCEPT ![w] = IF rest = {} THEN IdleSweep ELSE [@ EXCEPT !.open = rest]]
    /\ UNCHANGED <<syncState, reports, sweepFaults>>

SweepStep(w) ==
    \/ DriftSweep(w) \/ ReportDrift(w) \/ insertDrift(w) \/ ResolutionPass(w) \/ ResolveDrift(w)
\* A statement fails, or the replica stops: the rest of the sweep is skipped.
SweepFails(w) ==
    /\ sweep[w].pc # "idle" /\ sweepFaults < MaxSweepFaults
    /\ sweepFaults' = sweepFaults + 1 /\ sweep' = [sweep EXCEPT ![w] = IdleSweep]
    /\ UNCHANGED <<syncState, openDrift, reports>>

DriftNext == AgentReports \/ \E w \in DriftSweeper : SweepStep(w) \/ SweepFails(w)

-----------------------------------------------------------------------------
(* Properties *)

\* RunDriftLoop sweeps again and again, so once the agents stop reporting
\* changes the open events are exactly those of the diverged instances, whatever
\* sweeps overlapped or were cut short before.
DriftSettles == <>[]({openDrift[e] : e \in listOpenDrift} = listOutOfSyncInstances)
=============================================================================
