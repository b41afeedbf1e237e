-------------------------- MODULE ClusterRegistry --------------------------
(***************************************************************************)
(* The enrollment and the lifecycle of one cluster: the row of clusters    *)
(* and its registration tokens (internal/clusterregistry), the exchange of *)
(* a token for an identity (internal/agentgateway/registration.go), and    *)
(* the admission of the agent's stream (stream.go).                        *)
(*                                                                         *)
(* Several requests are in flight at once.  An administrator's request     *)
(* reads the row, may call Keycloak, and then runs one transaction; each   *)
(* of these is a step, and what was read is kept in the request.  An       *)
(* agent's exchange peeks at the token, creates and delivers identities,   *)
(* burns the token in a transaction, and marks the cluster registered in   *)
(* another one.  Any request may end early at any step (an error of        *)
(* Postgres, Keycloak or the secret store, a cancelled context, the death  *)
(* of the replica): what it did before stays.                              *)
(***************************************************************************)
EXTENDS Caller, Naturals

CONSTANTS
  Token,            \* registration tokens of this cluster
  NoToken,          \* an exchange that is not running
  Admin,            \* administrators' requests in flight
  Agent,            \* registration exchanges in flight
  DexFanout,        \* the flag cluster_dex.fanout
  ApprovalRequired, \* enrollment approval (double opt-in) is configured
  MaxAborts         \* bound: requests that end early

ASSUME RegistryAssumption ==
  /\ NoToken \notin Token
  /\ DexFanout \in BOOLEAN
  /\ ApprovalRequired \in BOOLEAN
  /\ MaxAborts \in Nat

VARIABLES
  cluster,   \* the row: its state and whether keycloak_client_id is set
  keycloak,  \* the client cluster-<id> in Keycloak
  vault,     \* credentials delivered to the secret store
  token,     \* status of each registration token
  admin,     \* the administrators' requests
  agent,     \* the registration exchanges
  stream,    \* the agent's event stream is admitted
  aborts,    \* requests that ended early so far
  exchanged, \* history: how often each token was burned by an exchange
  revoked    \* history: RevokeCluster committed

vars == <<cluster, keycloak, vault, token, admin, agent, stream, aborts,
          exchanged, revoked>>

ClusterState == {"pending_approval", "pending_registration", "active",
                 "degraded", "cordoned", "revoked", "decommissioned"}

\* "none" before CreateCluster, "deleted" after DeleteCluster: no row.
Absent == {"none", "deleted"}

ClusterRow == [state : ClusterState \cup Absent, clientID : BOOLEAN]

AdminOp == {"idle", "issue", "approve", "revoke", "delete", "cordon",
            "uncordon", "decommission"}

\* What a request does next: disable the client, read the row again, or run
\* its transaction.
AdminStep == {"disable", "reread", "commit"}

\* What a request keeps of the row it read: whether there is a client to
\* disable, and the state its compare and swap expects.
AdminCall == [op : AdminOp, step : AdminStep, client : BOOLEAN,
              from : ClusterState \cup {"none"}]

AgentCall == [step : {"idle", "peeked", "client", "secret", "tunnel", "ready",
                      "consumed"},
              tok : Token \cup {NoToken}]

\* The lifecycle state machine.
clusterTransitions ==
  [s \in ClusterState |->
     CASE s = "pending_approval"     -> {"pending_registration", "revoked"}
       [] s = "pending_registration" -> {"active", "revoked"}
       [] s = "active"   -> {"degraded", "cordoned", "decommissioned", "revoked"}
       [] s = "degraded" -> {"active", "cordoned", "decommissioned"}
       [] s = "cordoned" -> {"active", "decommissioned"}
       [] s = "revoked"  -> {"decommissioned"}
       [] s = "decommissioned" -> {}]

CanClusterTransition(from, to) ==
  from \in ClusterState /\ to \in clusterTransitions[from]

\* The states in which a token is honoured.
Exchangeable == ClusterState \ {"revoked", "pending_approval"}

Exists == cluster.state \in ClusterState

Call(op, step) == [op |-> op, step |-> step, client |-> FALSE, from |-> "none"]

IdleAdmin == Call("idle", "commit")

IdleAgent == [step |-> "idle", tok |-> NoToken]

Init ==
  /\ cluster = [state |-> "none", clientID |-> FALSE]
  /\ keycloak = "none"
  /\ vault = {}
  /\ token = [t \in Token |-> "unissued"]
  /\ admin = [a \in Admin |-> IdleAdmin]
  /\ agent = [g \in Agent |-> IdleAgent]
  /\ stream = FALSE
  /\ aborts = 0
  /\ exchanged = [t \in Token |-> 0]
  /\ revoked = FALSE

registry == <<cluster, token>>
identity == <<keycloak, vault>>
history == <<exchanged, revoked>>

----------------------------------------------------------------------------
(* Administrators' requests *)

CreateCluster ==
  /\ cluster.state = "none"
  /\ cluster' = [cluster EXCEPT !.state =
       IF ApprovalRequired THEN "pending_approval" ELSE "pending_registration"]
  /\ UNCHANGED <<identity, token, admin, agent, stream, aborts, history>>

\* GetCluster at the start of a request that passes its checks; a request
\* that fails them changes nothing.
Load(a, call) ==
  /\ admin[a].op = "idle"
  /\ Exists
  /\ admin' = [admin EXCEPT ![a] = call]
  /\ UNCHANGED <<registry, identity, agent, stream, aborts, history>>

Running(a, op, step) == admin[a].op = op /\ admin[a].step = step

Return(a) == admin' = [admin EXCEPT ![a] = IdleAdmin]

IssueTokenLoad(a) ==
  /\ cluster.state # "revoked"
  /\ Load(a, Call("issue", "commit"))

\* The foreign key refuses the insert once the cluster is deleted.
IssueToken(a, t) ==
  /\ Running(a, "issue", "commit")
  /\ Exists
  /\ token[t] = "unissued"
  /\ token' = [token EXCEPT ![t] = "live"]
  /\ Return(a)
  /\ UNCHANGED <<cluster, identity, agent, stream, aborts, history>>

\* used_at is set for every unused token, expired ones included.
RevokeToken(t) ==
  /\ Exists
  /\ token[t] \in {"live", "expired"}
  /\ token' = [token EXCEPT ![t] = "used"]
  /\ UNCHANGED <<cluster, identity, admin, agent, stream, aborts, history>>

ApproveLoad(a) ==
  /\ cluster.state = "pending_approval"
  /\ Load(a, Call("approve", "commit"))

\* SetState: the row is written whatever its state is by now.
ApproveCluster(a) ==
  /\ Running(a, "approve", "commit")
  /\ Exists
  /\ cluster' = [cluster EXCEPT !.state = "pending_registration"]
  /\ Return(a)
  /\ UNCHANGED <<token, identity, agent, stream, aborts, history>>

RevokeLoad(a) ==
  Load(a, [Call("revoke", "disable") EXCEPT !.client = cluster.clientID])

\* DisableClient, skipped when the row read has no client id.
DisableClient(a) ==
  /\ admin[a].op \in {"revoke", "decommission"}
  /\ admin[a].step = "disable"
  /\ keycloak' = IF admin[a].client /\ keycloak = "enabled"
                   THEN "disabled" ELSE keycloak
  /\ admin' = [admin EXCEPT ![a] = Call(admin[a].op,
                 IF admin[a].op = "revoke" THEN "commit" ELSE "reread")]
  /\ UNCHANGED <<registry, vault, agent, stream, aborts, history>>

RevokeCluster(a) ==
  /\ Running(a, "revoke", "commit")
  /\ Exists
  /\ cluster' = [cluster EXCEPT !.state = "revoked"]
  /\ revoked' = TRUE
  /\ Return(a)
  /\ UNCHANGED <<token, identity, agent, stream, aborts, exchanged>>

DeleteLoad(a) ==
  /\ cluster.state \in {"pending_approval", "pending_registration"}
  /\ Load(a, Call("delete", "commit"))

\* Burns the tokens and deletes the row; the token rows go with it.
DeleteCluster(a) ==
  /\ Running(a, "delete", "commit")
  /\ Exists
  /\ cluster' = [state |-> "deleted", clientID |-> FALSE]
  /\ token' = [t \in Token |-> "gone"]
  /\ Return(a)
  /\ UNCHANGED <<identity, agent, stream, aborts, history>>

Target(op) == CASE op = "cordon" -> "cordoned"
                [] op = "uncordon" -> "active"
                [] OTHER -> "decommissioned"

CordonLoad(a) ==
  /\ CanClusterTransition(cluster.state, "cordoned")
  /\ Load(a, [Call("cordon", "commit") EXCEPT !.from = cluster.state])

UncordonLoad(a) ==
  /\ CanClusterTransition(cluster.state, "active")
  /\ Load(a, [Call("uncordon", "commit") EXCEPT !.from = cluster.state])

\* The ownership check of the instances may refuse the request here.
DecommissionLoad(a) ==
  Load(a, [Call("decommission", "disable") EXCEPT !.client = cluster.clientID])

\* transition reads the row a second time, after the client is disabled.
DecommissionReread(a) ==
  /\ Running(a, "decommission", "reread")
  /\ IF CanClusterTransition(cluster.state, "decommissioned")
       THEN admin' = [admin EXCEPT ![a].step = "commit", ![a].from = cluster.state]
       ELSE Return(a)
  /\ UNCHANGED <<registry, identity, agent, stream, aborts, history>>

\* Mutant: the write does not compare.
TransitionMutant(a) ==
  /\ admin[a].op \in {"cordon", "uncordon", "decommission"}
  /\ admin[a].step = "commit"
  /\ cluster' = IF Exists THEN [cluster EXCEPT !.state = Target(admin[a].op)]
                          ELSE cluster
  /\ Return(a)
  /\ UNCHANGED <<token, identity, agent, stream, aborts, history>>

\* SetStateIf: the write is refused when the state is no longer the one read.
Transition(a) ==
  /\ admin[a].op \in {"cordon", "uncordon", "decommission"}
  /\ admin[a].step = "commit"
  /\ cluster' = IF cluster.state = admin[a].from
                  THEN [cluster EXCEPT !.state = Target(admin[a].op)]
                  ELSE cluster
  /\ Return(a)
  /\ UNCHANGED <<token, identity, agent, stream, aborts, history>>

\* The row or the free token a transaction needs is missing.
AdminRefused(a) ==
  /\ admin[a].op \in {"issue", "approve", "revoke", "delete"}
  /\ admin[a].step = "commit"
  /\ \/ ~Exists
     \/ admin[a].op = "issue" /\ \A t \in Token : token[t] # "unissued"
  /\ Return(a)
  /\ UNCHANGED <<registry, identity, agent, stream, aborts, history>>

----------------------------------------------------------------------------
(* The registration exchange *)

Goto(g, step) == agent' = [agent EXCEPT ![g].step = step]

Leave(g) == agent' = [agent EXCEPT ![g] = IdleAgent]

\* PeekRegistrationToken: the checks of the consumption, without the burn.
RegisterPeek(g, t) ==
  /\ agent[g].step = "idle"
  /\ token[t] = "live"
  /\ cluster.state \in Exchangeable
  /\ agent' = [agent EXCEPT ![g] = [step |-> "peeked", tok |-> t]]
  /\ UNCHANGED <<registry, identity, admin, stream, aborts, history>>

\* A client that exists is accepted as it is, enabled or not.
CreateClusterClient(g) ==
  /\ agent[g].step = "peeked"
  /\ keycloak' = IF keycloak = "none" THEN "enabled" ELSE keycloak
  /\ Goto(g, "client")
  /\ UNCHANGED <<registry, vault, admin, stream, aborts, history>>

\* Mutant: the secret is delivered after the token is burned.
DeliverSecretMutant(g) ==
  /\ agent[g].step = "client"
  /\ Goto(g, "secret")
  /\ UNCHANGED <<registry, identity, admin, stream, aborts, history>>

DeliverSecret(g) ==
  /\ agent[g].step = "client"
  /\ keycloak # "none"
  /\ vault' = vault \cup {"agent"}
  /\ Goto(g, "secret")
  /\ UNCHANGED <<registry, keycloak, admin, stream, aborts, history>>

DeliverTunnel(g) ==
  /\ agent[g].step = "secret"
  /\ vault' = vault \cup {"tunnel"}
  /\ Goto(g, "tunnel")
  /\ UNCHANGED <<registry, keycloak, admin, stream, aborts, history>>

\* The Dex fan-out flag decides whether the federation client is provisioned.
ProvisionDex(g) ==
  /\ agent[g].step = "tunnel"
  /\ vault' = IF DexFanout THEN vault \cup {"dex"} ELSE vault
  /\ Goto(g, "ready")
  /\ UNCHANGED <<registry, keycloak, admin, stream, aborts, history>>

\* Mutant: the consumption trusts the peek.
ConsumeTokenMutant(g) ==
  /\ agent[g].step = "ready"
  /\ token' = [token EXCEPT ![agent[g].tok] = "used"]
  /\ exchanged' = [exchanged EXCEPT ![agent[g].tok] = @ + 1]
  /\ Goto(g, "consumed")
  /\ UNCHANGED <<cluster, identity, admin, stream, aborts, revoked>>

\* Mutant: a refused consumption leaves the exchange waiting.
ConsumeTokenStuck(g) ==
  /\ agent[g].step = "ready"
  /\ token[agent[g].tok] = "live" /\ cluster.state = "pending_registration"
  /\ token' = [token EXCEPT ![agent[g].tok] = "used"]
  /\ exchanged' = [exchanged EXCEPT ![agent[g].tok] = @ + 1]
  /\ Goto(g, "consumed")
  /\ UNCHANGED <<cluster, identity, admin, stream, aborts, revoked>>

\* ConsumeRegistrationToken: every check again, and the burn, in one
\* transaction; a refusal ends the exchange and burns nothing.
ConsumeToken(g) ==
  /\ agent[g].step = "ready"
  /\ IF token[agent[g].tok] = "live" /\ cluster.state \in Exchangeable
       THEN /\ token' = [token EXCEPT ![agent[g].tok] = "used"]
            /\ exchanged' = [exchanged EXCEPT ![agent[g].tok] = @ + 1]
            /\ Goto(g, "consumed")
       ELSE /\ Leave(g)
            /\ UNCHANGED <<token, exchanged>>
  /\ UNCHANGED <<cluster, identity, admin, stream, aborts, revoked>>

\* The row becomes active whatever its state is by now.
MarkRegistered(g) ==
  /\ agent[g].step = "consumed"
  /\ cluster' = IF Exists THEN [state |-> "active", clientID |-> TRUE]
                          ELSE cluster
  /\ Leave(g)
  /\ UNCHANGED <<token, identity, admin, stream, aborts, history>>

----------------------------------------------------------------------------
(* The stream, time, and requests that end early *)

\* AuthorizeCluster.  The agent learns its client id from the answer to the
\* exchange and gets its access token from that client, if enabled.
Connect ==
  /\ ~stream
  /\ keycloak = "enabled"
  /\ cluster.clientID
  /\ cluster.state \in {"active", "degraded"}
  /\ stream' = TRUE
  /\ UNCHANGED <<registry, identity, admin, agent, aborts, history>>

Disconnect ==
  /\ stream
  /\ stream' = FALSE
  /\ UNCHANGED <<registry, identity, admin, agent, aborts, history>>

ExpireToken(t) ==
  /\ token[t] = "live"
  /\ token' = [token EXCEPT ![t] = "expired"]
  /\ UNCHANGED <<cluster, identity, admin, agent, stream, aborts, history>>

AbortAdmin(a) ==
  /\ admin[a].op # "idle"
  /\ aborts < MaxAborts
  /\ aborts' = aborts + 1
  /\ Return(a)
  /\ UNCHANGED <<registry, identity, agent, stream, history>>

AbortAgent(g) ==
  /\ agent[g].step # "idle"
  /\ aborts < MaxAborts
  /\ aborts' = aborts + 1
  /\ Leave(g)
  /\ UNCHANGED <<registry, identity, admin, stream, history>>

\* An administrator's request that its handler has let in goes on.
AdminProceeds(a) ==
  \/ \E t \in Token : IssueToken(a, t)
  \/ ApproveCluster(a)
  \/ DisableClient(a)
  \/ RevokeCluster(a)
  \/ DeleteCluster(a)
  \/ DecommissionReread(a)
  \/ Transition(a)
  \/ AdminRefused(a)
  \/ AbortAdmin(a)

\* One exchange; the agent repeats it until it succeeds.
Register(g) ==
  \/ \E t \in Token : RegisterPeek(g, t)
  \/ CreateClusterClient(g)
  \/ DeliverSecret(g)
  \/ DeliverTunnel(g)
  \/ ProvisionDex(g)
  \/ ConsumeToken(g)
  \/ MarkRegistered(g)

----------------------------------------------------------------------------
(* The handlers: every one asks for clusters_register, and all but the first *)
(* for a cluster of the organization                                         *)

authorizeOrg(u) == Authorized(u, "clusters_register")
requireOrgCluster == Exists

httpCreateCluster(u) == authorizeOrg(u) /\ CreateCluster
httpIssueToken(u, a) == authorizeOrg(u) /\ requireOrgCluster /\ IssueTokenLoad(a)
httpRevokeToken(u, t) == authorizeOrg(u) /\ requireOrgCluster /\ RevokeToken(t)
httpApproveCluster(u, a) == authorizeOrg(u) /\ requireOrgCluster /\ ApproveLoad(a)
httpRevokeCluster(u, a) == authorizeOrg(u) /\ requireOrgCluster /\ RevokeLoad(a)
httpDeleteCluster(u, a) == authorizeOrg(u) /\ requireOrgCluster /\ DeleteLoad(a)
httpDecommissionCluster(u, a) == authorizeOrg(u) /\ requireOrgCluster /\ DecommissionLoad(a)
\* cordonCluster and uncordonCluster
lifecycle(u, a) == authorizeOrg(u) /\ requireOrgCluster /\ (CordonLoad(a) \/ UncordonLoad(a))

ClusterRoutes ==
  \E u \in User :
    \/ httpCreateCluster(u)
    \/ \E t \in Token : httpRevokeToken(u, t)
    \/ \E a \in Admin :
         \/ httpIssueToken(u, a) \/ httpApproveCluster(u, a) \/ httpRevokeCluster(u, a)
         \/ httpDeleteCluster(u, a) \/ httpDecommissionCluster(u, a) \/ lifecycle(u, a)

Next ==
  \/ ClusterRoutes
  \/ \E t \in Token : ExpireToken(t)
  \/ \E a \in Admin : AdminProceeds(a)
  \/ \E g \in Agent : Register(g) \/ AbortAgent(g)
  \/ Connect
  \/ Disconnect

Spec == Init /\ [][Next]_vars

\* A request runs to its end unless it is aborted, and the agent retries a
\* refused exchange with backoff.
FairSpec == Spec /\ \A g \in Agent : WF_vars(Register(g))

----------------------------------------------------------------------------
(* Properties *)

\* Every variable has its type.
TypeOK ==
  /\ cluster \in ClusterRow
  /\ keycloak \in {"none", "enabled", "disabled"}
  /\ vault \subseteq {"agent", "tunnel", "dex"}
  /\ token \in [Token -> {"unissued", "live", "expired", "used", "gone"}]
  /\ admin \in [Admin -> AdminCall]
  /\ agent \in [Agent -> AgentCall]
  /\ stream \in BOOLEAN
  /\ aborts \in 0 .. MaxAborts
  /\ exchanged \in [Token -> Nat]
  /\ revoked \in BOOLEAN

\* A registration token is exchanged at most once, however many exchanges
\* have peeked at it before one of them burns it (ConsumeToken: "the row is
\* locked FOR UPDATE inside the caller's TX so replay races lose").
TokenAtMostOnce == \A t \in Token : exchanged[t] <= 1

\* A cluster whose row names a client has that client in Keycloak and both of
\* its secrets in the secret store: RegisterCluster runs every external side
\* effect before it burns the token, so an exchange that ended early, or that
\* raced another one, never leaves a registered cluster whose agent waits for
\* a secret that never arrives.
RegisteredHasCredentials ==
  cluster.clientID =>
    /\ keycloak # "none"
    /\ {"agent", "tunnel"} \subseteq vault

\* Concurrent lifecycle requests never cordon, and never decommission, a
\* cluster along an edge the state machine does not have: the compare and
\* swap of SetStateIf closes the window between the check and the write.
LifecycleRespected ==
  [][\A s \in {"cordoned", "decommissioned"} :
       cluster'.state = s /\ cluster.state # s =>
         CanClusterTransition(cluster.state, s)]_vars

\* A token that may be exchanged does not stay so for ever: exchanges that
\* fail leave it consumable and the agent's retry spends it.
TokenEventuallySpent ==
  \A t \in Token : []<>~(token[t] = "live" /\ cluster.state \in Exchangeable)

\* RevokeCluster and AuthorizeCluster: the agent of a revoked cluster "can
\* never reconnect".
RevokedNeverReconnects == [][~stream /\ stream' => ~revoked]_vars

-----------------------------------------------------------------------------
(* Statements the code does not keep: TLC finds a counterexample of each  *)
(* (README, "What the code does not keep").                               *)

\* UncordonCluster "returns a cordoned cluster to service (cordoned ->
\* active)": a cluster is in service only after its registration.
InServiceRegistered ==
  cluster.state \in {"active", "degraded", "cordoned"} => cluster.clientID
=============================================================================
