------------------------------ MODULE MCAgent ------------------------------
(* Model-checking instance of what clusters and their agents take part in:   *)
(* the agent gateway, the resources rendered for a tenant and their status,  *)
(* and the kubectl tunnel, in three parts: streams, flags and the watcher;   *)
(* requests while the agent reconnects; requests after the flag was turned   *)
(* off on a stream that stands.  It is the union (not the product) of components that share no    *)
(* state: a behaviour is one component's, chosen by focus in its initial     *)
(* state; the others rest in one initial state.                              *)
EXTENDS AgentSync, AgentCommands, PlatformResources, KubeProxy

VARIABLE focus

MCRoles == [u \in User |-> "admin"]
MCTeams == [u \in User |-> {}]

agentRunVars == <<focus, syncVars, commandVars, resourceVars, kubeProxyVars>>
KubeFocus == {"tunnels", "reconnect", "switched"}
AgentInit ==
    /\ focus \in {"sync", "commands", "resources"} \cup KubeFocus
    /\ SyncInit /\ CommandsInit /\ ResourceInit /\ TunnelsInit(IF focus = "switched" THEN MaxLinkLosses ELSE 0)
    /\ focus # "commands" => kind = [c \in Cmd |-> "resync"] /\ instance = [c \in Cmd |-> "deploying"]
    /\ focus # "sync" => live = {}
    /\ focus # "resources" => ListResources = {} /\ platformOrg /\ clustersOf = OrgCluster
    /\ IF focus = "tunnels" THEN FlagsInit /\ (flagBackend = "redis" <=> flagRow.cluster = "on")
       ELSE FlagKeptOn(IF focus = "switched" THEN "off" ELSE "none")
AgentNext ==
    \/ focus = "sync" /\ SyncNext /\ UNCHANGED <<focus, commandVars, resourceVars, kubeProxyVars>>
    \/ focus = "commands" /\ CommandsNext /\ UNCHANGED <<focus, syncVars, resourceVars, kubeProxyVars>>
    \/ focus = "resources" /\ ResourceNext /\ UNCHANGED <<focus, syncVars, commandVars, kubeProxyVars>>
    \/ /\ UNCHANGED <<focus, syncVars, commandVars, resourceVars>>
       /\ \/ focus = "tunnels" /\ (FlagsStep \/ WatcherStep \/ StreamsNext)
          \/ focus = "reconnect" /\ (StreamsNext \/ RequestsNext)
          \/ focus = "switched" /\ (FlagsStep \/ WatcherStep \/ StreamsNext \/ RequestsNext)

\* dispatchDue runs on a ticker of every session, retryAfter passes, and the agent answers
\* what it received; answers and status updates on the stream are handled.
OnCommands(A) == focus = "commands" /\ A /\ UNCHANGED <<focus, syncVars, resourceVars, kubeProxyVars>>
OnResources(A) == focus = "resources" /\ A /\ UNCHANGED <<focus, syncVars, commandVars, kubeProxyVars>>
\* The handlers of the tunnel and the watcher's ticker run, and what is kept grows old.  The
\* flag is not looked at where it does not change.
OnTunnels(A) == focus \in {"tunnels", "switched"} /\ A /\ UNCHANGED <<focus, syncVars, commandVars, resourceVars>>
AgentFairness ==
    /\ \A s \in Session : WF_commandVars(OnCommands(Dispatch(s)))
    /\ \A c \in Cmd :
          /\ WF_commandVars(OnCommands(RetryAfter(c)))
          /\ WF_commandVars(OnCommands(AgentAnswers(c)))
          /\ WF_commandVars(OnCommands(\E st \in Terminal :
                                        HandleAck(c, st) \/ CompletePendingByType(c, st)))
    /\ WF_resourceVars(OnResources(ApplyResourceStatus))
    /\ WF_kubeProxyVars(OnTunnels(WatcherStep))
    /\ \A s \in Tunnel : WF_kubeProxyVars(OnTunnels(TunnelStep(s)))
    /\ \A q \in ProxyConn : WF_kubeProxyVars(OnTunnels(RequestStep(q)))
    /\ \A scope \in Scope : WF_kubeProxyVars(OnTunnels(FlagExpires(scope) /\ FlagsStep))
AgentSpec == AgentInit /\ [][AgentNext]_agentRunVars /\ AgentFairness

\* The components are well typed.
AgentTypeOK == SyncTypeOK /\ CommandsTypeOK /\ ResourceTypeOK

\* Platform resources (PlatformResources): every reconcile reaches the agents, a teardown leaves
\* no manifest behind, and rows follow what agents report; in all components the state is well typed.
ResourcesSound == [](AgentTypeOK /\ EveryReconcileNotifies) /\ TeardownIsClean /\ StatusFollowsHealth
=============================================================================
