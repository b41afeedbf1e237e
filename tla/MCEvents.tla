------------------------------ MODULE MCEvents ------------------------------
(* Model-checking instance of the event bus, with rollouts of the fleet      *)
(* manager, which its events move on, and the served user interfaces of      *)
(* extensions.  It is the union (not the product) of components that share   *)
(* no state: a behaviour is one component's, chosen by focus in its initial  *)
(* state; the others rest in one initial state.                              *)
EXTENDS Outbox, Fleet, ExtensionUi, TLC

CONSTANTS h1, h2, r1, r2, b1, b2, n

VARIABLE focus

\* h1 subscribes to the type of event 1, nobody else does.
MCSubscribed == {<<h1, 1>>}
MCRoles == [u \in User |-> "admin"]
MCTeams == [u \in User |-> {}]
MCSelects == "s1" :> {"c1"} @@ "s2" :> {"c2"}
MCStages == <<[set |-> "s1", limit |-> 1, before |-> "approval", after |-> "none"],
              [set |-> "s2", limit |-> 1, before |-> "none", after |-> "wait"]>>

eventRunVars == <<focus, vars, fleetVars, uiVars>>
EventsInit ==
    /\ focus \in {"bus", "fleet", "ui"} /\ Init /\ FleetInit /\ UiInit
    /\ focus # "ui" => published = [s \in RemoteSource |-> b1] /\ uiRow.desc.checksum = NoSum
                       /\ uiRow.desc = CHOOSE d \in UiDescriptor : d.checksum = NoSum
EventsNext ==
    \/ focus = "bus" /\ Next /\ UNCHANGED <<focus, fleetVars, uiVars>>
    \/ focus = "fleet" /\ FleetNext /\ UNCHANGED <<focus, vars, uiVars>>
    \/ focus = "ui" /\ UiNext /\ UNCHANGED <<focus, vars, fleetVars>>

\* The relay and consumer loops run, JetStream redelivers what is not acked, a handler call
\* returns; the advance loop of the fleet manager runs again and again and a call of it that
\* was begun goes on; cached files grow old and fetches end.
OnBus(A) == focus = "bus" /\ A /\ UNCHANGED <<focus, fleetVars, uiVars>>
OnFleet(A) == focus = "fleet" /\ A /\ UNCHANGED <<focus, vars, uiVars>>
OnUi(A) == focus = "ui" /\ A /\ UNCHANGED <<focus, vars, fleetVars>>
EventsFairness ==
    /\ \A r \in Replica : WF_vars(OnBus(Relay(r)))
    /\ \A h \in Handler, r \in Replica : WF_vars(OnBus(Handle(h, r)))
    /\ \A h \in Handler, m \in Msg : WF_vars(OnBus(AckWaitExpires(h, m) \/ \E r \in Replica : Deliver(h, r, m)))
    /\ WF_fleetVars(OnFleet(AdvanceSweep)) /\ \A w \in Workers : WF_fleetVars(OnFleet(WorkerStep(w)))
    /\ WF_uiVars(OnUi(EntryAges)) /\ \A q \in UiRequest : WF_uiVars(OnUi(FetchStep(q)))
EventsSpec == EventsInit /\ [][EventsNext]_eventRunVars /\ EventsFairness

\* The components are well typed.
EventsTypeOK == TypeOK /\ FleetTypeOK /\ UiTypeOK

\* What is served of an extension is what its descriptor pins, and in the end what is published
\* (ExtensionUi); in all components the state is well typed.
UiIsCurrent == [](EventsTypeOK /\ PinnedIsServed) /\ CachesCatchUp
=============================================================================
