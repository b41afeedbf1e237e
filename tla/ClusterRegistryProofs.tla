----------------------- MODULE ClusterRegistryProofs -----------------------
(***************************************************************************)
(* Proofs about ClusterRegistry, for any set of tokens, any number of      *)
(* requests in flight and any number of requests that end early.           *)
(***************************************************************************)
EXTENDS ClusterRegistry, TLAPS

\* The steps of an exchange after the client, the agent's secret and the
\* tunnel's secret are there.
HasClient == {"client", "secret", "tunnel", "ready", "consumed"}
HasSecret == {"secret", "tunnel", "ready", "consumed"}
HasTunnel == {"tunnel", "ready", "consumed"}

\* A running exchange holds a token, and has done what precedes its step.
ExchangeInv ==
  \A g \in Agent :
    /\ agent[g].step # "idle" => agent[g].tok \in Token
    /\ agent[g].step \in HasClient => keycloak # "none"
    /\ agent[g].step \in HasSecret => "agent" \in vault
    /\ agent[g].step \in HasTunnel => "tunnel" \in vault

\* A token that was exchanged is burned.
BurnedInv ==
  \A t \in Token :
    \/ exchanged[t] = 0
    \/ exchanged[t] = 1 /\ token[t] \in {"used", "gone"}

\* A compare and swap about to run was checked against the state machine.
CheckedInv ==
  \A a \in Admin :
    admin[a].op \in {"cordon", "uncordon", "decommission"} /\
    admin[a].step = "commit" =>
      CanClusterTransition(admin[a].from, Target(admin[a].op))

IInv == TypeOK /\ ExchangeInv /\ BurnedInv /\ CheckedInv /\ RegisteredHasCredentials

----------------------------------------------------------------------------
\* The inductive invariant holds initially.
LEMMA InitIInv == Init => IInv
<1> SUFFICES ASSUME Init PROVE IInv OBVIOUS
<1>1. TypeOK
  <2>1. IdleAdmin \in AdminCall /\ IdleAgent \in AgentCall
    BY DEF IdleAdmin, IdleAgent, Call, AdminCall, AdminOp, AdminStep, AgentCall
  <2>2. cluster \in ClusterRow BY DEF Init, ClusterRow, Absent
  <2>3. admin \in [Admin -> AdminCall] /\ agent \in [Agent -> AgentCall]
    BY <2>1 DEF Init
  <2>4. aborts \in 0 .. MaxAborts BY RegistryAssumption DEF Init
  <2> QED BY <2>2, <2>3, <2>4 DEF Init, TypeOK
<1>2. ExchangeInv
  BY DEF Init, IdleAgent, ExchangeInv, HasClient, HasSecret, HasTunnel
<1>3. \A t \in Token : exchanged[t] = 0 BY DEF Init
<1>4. BurnedInv BY <1>3 DEF BurnedInv
<1>5. CheckedInv BY DEF Init, IdleAdmin, Call, CheckedInv
<1>6. RegisteredHasCredentials BY DEF Init, RegisteredHasCredentials
<1> QED BY <1>1, <1>2, <1>4, <1>5, <1>6 DEF IInv

\* What an administrator's request may keep is well typed.
LEMMA CallType ==
  ASSUME NEW op \in AdminOp, NEW step \in AdminStep, NEW b \in BOOLEAN,
         NEW s \in ClusterState
  PROVE  /\ Call(op, step) \in AdminCall
         /\ [Call(op, step) EXCEPT !.client = b] \in AdminCall
         /\ [Call(op, step) EXCEPT !.from = s] \in AdminCall
BY DEF Call, AdminCall

\* An administrator's request that only loads the row keeps the invariant.
LEMMA LoadIInv ==
  ASSUME IInv, NEW a \in Admin, NEW call \in AdminCall, Load(a, call),
         call.op \in {"cordon", "uncordon", "decommission"} /\
         call.step = "commit" => CanClusterTransition(call.from, Target(call.op))
  PROVE  IInv'
<1> USE DEF Load, registry, identity, history
<1>1. TypeOK' BY DEF IInv, TypeOK
<1>2. ExchangeInv' BY DEF IInv, ExchangeInv
<1>3. BurnedInv' BY DEF IInv, BurnedInv
<1>4. CheckedInv'
  <2> SUFFICES ASSUME NEW b \in Admin,
                      admin'[b].op \in {"cordon", "uncordon", "decommission"},
                      admin'[b].step = "commit"
               PROVE  CanClusterTransition(admin'[b].from, Target(admin'[b].op))
    BY DEF CheckedInv, CanClusterTransition, Target
  <2>1. CASE b = a
    BY <2>1 DEF IInv, TypeOK
  <2>2. CASE b # a
    BY <2>2 DEF IInv, TypeOK, CheckedInv
  <2> QED BY <2>1, <2>2
<1>5. RegisteredHasCredentials' BY DEF IInv, RegisteredHasCredentials
<1> QED BY <1>1, <1>2, <1>3, <1>4, <1>5 DEF IInv

\* A request that ends, having changed no more than the row's state, keeps
\* the invariant.
LEMMA ReturnIInv ==
  ASSUME IInv, NEW a \in Admin, Return(a),
         cluster' \in ClusterRow, cluster'.clientID = cluster.clientID,
         aborts' \in 0 .. MaxAborts, revoked' \in BOOLEAN,
         UNCHANGED <<token, identity, agent, stream, exchanged>>
  PROVE  IInv'
<1> USE DEF Return, identity
<1>1. TypeOK'
  <2>1. IdleAdmin \in AdminCall
    BY DEF IdleAdmin, Call, AdminCall, AdminOp, AdminStep
  <2> QED BY <2>1 DEF IInv, TypeOK
<1>2. ExchangeInv' BY DEF IInv, ExchangeInv
<1>3. BurnedInv' BY DEF IInv, BurnedInv
<1>4. CheckedInv'
  <2> SUFFICES ASSUME NEW b \in Admin,
                      admin'[b].op \in {"cordon", "uncordon", "decommission"},
                      admin'[b].step = "commit"
               PROVE  CanClusterTransition(admin'[b].from, Target(admin'[b].op))
    BY DEF CheckedInv, CanClusterTransition, Target
  <2>1. b # a BY DEF IdleAdmin, Call, IInv, TypeOK
  <2> QED BY <2>1 DEF IInv, TypeOK, CheckedInv
<1>5. RegisteredHasCredentials' BY DEF IInv, RegisteredHasCredentials
<1> QED BY <1>1, <1>2, <1>3, <1>4, <1>5 DEF IInv

\* A step of an administrator's request: one that a handler begins, or a later one.
AdminNext(a) ==
  \/ IssueTokenLoad(a) \/ ApproveLoad(a) \/ RevokeLoad(a) \/ DeleteLoad(a)
  \/ CordonLoad(a) \/ UncordonLoad(a) \/ DecommissionLoad(a)
  \/ AdminProceeds(a)

\* What the handlers let in, and everything else, by the service's own actions.
LEMMA NextIs ==
  ASSUME Next
  PROVE  \/ CreateCluster
         \/ \E t \in Token : RevokeToken(t) \/ ExpireToken(t)
         \/ \E a \in Admin : AdminNext(a)
         \/ \E g \in Agent : Register(g) \/ AbortAgent(g)
         \/ Connect \/ Disconnect
<1>1. CASE ClusterRoutes
  <2> PICK u \in User :
        \/ httpCreateCluster(u)
        \/ \E t \in Token : httpRevokeToken(u, t)
        \/ \E a \in Admin :
             \/ httpIssueToken(u, a) \/ httpApproveCluster(u, a) \/ httpRevokeCluster(u, a)
             \/ httpDeleteCluster(u, a) \/ httpDecommissionCluster(u, a) \/ lifecycle(u, a)
    BY <1>1 DEF ClusterRoutes
  <2>1. CASE httpCreateCluster(u)
    BY <2>1 DEF httpCreateCluster
  <2>2. CASE \E t \in Token : httpRevokeToken(u, t)
    BY <2>2 DEF httpRevokeToken
  <2>3. ASSUME NEW a \in Admin,
               \/ httpIssueToken(u, a) \/ httpApproveCluster(u, a) \/ httpRevokeCluster(u, a)
               \/ httpDeleteCluster(u, a) \/ httpDecommissionCluster(u, a) \/ lifecycle(u, a)
        PROVE  AdminNext(a)
    BY <2>3 DEF AdminNext, httpIssueToken, httpApproveCluster, httpRevokeCluster, httpDeleteCluster,
       httpDecommissionCluster, lifecycle
  <2> QED BY <2>1, <2>2, <2>3
<1>2. CASE \E a \in Admin : AdminProceeds(a)
  BY <1>2 DEF AdminNext
<1> QED BY <1>1, <1>2 DEF Next

\* Every step of an administrator's request keeps the inductive invariant.
LEMMA AdminIInv ==
  ASSUME IInv, NEW a \in Admin, AdminNext(a)
  PROVE  IInv'
<1> USE DEF registry, identity, history
<1> cluster \in ClusterRow /\ aborts \in 0 .. MaxAborts /\ revoked \in BOOLEAN
  BY DEF IInv, TypeOK
<1>1. CASE IssueTokenLoad(a)
  <2>1. Call("issue", "commit") \in AdminCall /\ Call("issue", "commit").op = "issue"
    BY DEF Call, AdminCall, AdminOp, AdminStep
  <2> QED BY <1>1, <2>1, LoadIInv DEF IssueTokenLoad
<1>2. CASE \E t \in Token : IssueToken(a, t)
  <2> PICK t \in Token : IssueToken(a, t) BY <1>2
  <2>1. TypeOK'
    <3>1. IdleAdmin \in AdminCall
      BY DEF IdleAdmin, Call, AdminCall, AdminOp, AdminStep
    <3> QED BY <3>1 DEF IssueToken, Return, IInv, TypeOK
  <2>2. ExchangeInv' BY DEF IssueToken, IInv, ExchangeInv
  <2>3. BurnedInv' BY DEF IssueToken, IInv, BurnedInv, TypeOK
  <2>4. CheckedInv'
    <3> SUFFICES ASSUME NEW b \in Admin,
                        admin'[b].op \in {"cordon", "uncordon", "decommission"},
                        admin'[b].step = "commit"
                 PROVE  CanClusterTransition(admin'[b].from, Target(admin'[b].op))
      BY DEF CheckedInv, CanClusterTransition, Target
    <3>1. b # a BY DEF IssueToken, Return, IdleAdmin, Call, IInv, TypeOK
    <3> QED BY <3>1 DEF IssueToken, Return, IInv, TypeOK, CheckedInv
  <2>5. RegisteredHasCredentials'
    BY DEF IssueToken, IInv, RegisteredHasCredentials
  <2> QED BY <2>1, <2>2, <2>3, <2>4, <2>5 DEF IInv
<1>3. CASE ApproveLoad(a)
  <2>1. Call("approve", "commit") \in AdminCall /\ Call("approve", "commit").op = "approve"
    BY DEF Call, AdminCall, AdminOp, AdminStep
  <2> QED BY <1>3, <2>1, LoadIInv DEF ApproveLoad
<1>4. CASE ApproveCluster(a)
  <2>1. cluster' \in ClusterRow /\ cluster'.clientID = cluster.clientID
    BY <1>4 DEF ApproveCluster, ClusterRow, ClusterState
  <2> QED BY <1>4, <2>1, ReturnIInv DEF ApproveCluster
<1>5. CASE RevokeLoad(a)
  <2> DEFINE call == [Call("revoke", "disable") EXCEPT !.client = cluster.clientID]
  <2>1. call \in AdminCall /\ call.op = "revoke"
    BY DEF Call, AdminCall, AdminOp, AdminStep, ClusterRow
  <2>2. Load(a, call) BY <1>5 DEF RevokeLoad
  <2> HIDE DEF call
  <2> QED BY <2>1, <2>2, LoadIInv
<1>6. CASE DisableClient(a)
  <2>1. /\ keycloak' \in {"none", "enabled", "disabled"}
        /\ keycloak' = "none" <=> keycloak = "none"
    BY <1>6 DEF DisableClient, IInv, TypeOK
  <2> DEFINE call == Call(admin[a].op,
                          IF admin[a].op = "revoke" THEN "commit" ELSE "reread")
  <2>2. /\ call \in AdminCall
        /\ call.step = "commit" => call.op = "revoke"
    BY <1>6 DEF DisableClient, Call, AdminCall, AdminOp, AdminStep
  <2>3. admin' = [admin EXCEPT ![a] = call] BY <1>6 DEF DisableClient
  <2> HIDE DEF call
  <2>4. UNCHANGED <<cluster, token, vault, agent, stream, aborts, exchanged, revoked>>
    BY <1>6 DEF DisableClient
  <2>5. TypeOK' BY <2>1, <2>2, <2>3, <2>4 DEF IInv, TypeOK
  <2>6. ExchangeInv' BY <2>1, <2>4 DEF IInv, ExchangeInv
  <2>7. BurnedInv' BY <2>4 DEF IInv, BurnedInv
  <2>8. CheckedInv'
    <3> SUFFICES ASSUME NEW b \in Admin,
                        admin'[b].op \in {"cordon", "uncordon", "decommission"},
                        admin'[b].step = "commit"
                 PROVE  CanClusterTransition(admin'[b].from, Target(admin'[b].op))
      BY DEF CheckedInv, CanClusterTransition, Target
    <3>1. b # a BY <2>2, <2>3 DEF IInv, TypeOK
    <3> QED BY <3>1, <2>3 DEF IInv, TypeOK, CheckedInv
  <2>9. RegisteredHasCredentials'
    BY <2>1, <2>4 DEF IInv, RegisteredHasCredentials
  <2> QED BY <2>5, <2>6, <2>7, <2>8, <2>9 DEF IInv
<1>7. CASE RevokeCluster(a)
  <2>1. cluster' \in ClusterRow /\ cluster'.clientID = cluster.clientID
    BY <1>7 DEF RevokeCluster, ClusterRow, ClusterState
  <2>2. revoked' \in BOOLEAN BY <1>7 DEF RevokeCluster
  <2>3. Return(a) /\ UNCHANGED <<token, identity, agent, stream, aborts, exchanged>>
    BY <1>7 DEF RevokeCluster
  <2> QED BY <2>1, <2>2, <2>3, ReturnIInv
<1>8. CASE DeleteLoad(a)
  <2>1. Call("delete", "commit") \in AdminCall /\ Call("delete", "commit").op = "delete"
    BY DEF Call, AdminCall, AdminOp, AdminStep
  <2> QED BY <1>8, <2>1, LoadIInv DEF DeleteLoad
<1>9. CASE DeleteCluster(a)
  <2>1. TypeOK'
    <3>1. IdleAdmin \in AdminCall
      BY DEF IdleAdmin, Call, AdminCall, AdminOp, AdminStep
    <3>2. cluster' \in ClusterRow BY <1>9 DEF DeleteCluster, ClusterRow, Absent
    <3> QED BY <1>9, <3>1, <3>2 DEF DeleteCluster, Return, IInv, TypeOK
  <2>2. ExchangeInv' BY <1>9 DEF DeleteCluster, IInv, ExchangeInv
  <2>3. BurnedInv' BY <1>9 DEF DeleteCluster, IInv, BurnedInv
  <2>4. CheckedInv'
    <3> SUFFICES ASSUME NEW b \in Admin,
                        admin'[b].op \in {"cordon", "uncordon", "decommission"},
                        admin'[b].step = "commit"
                 PROVE  CanClusterTransition(admin'[b].from, Target(admin'[b].op))
      BY DEF CheckedInv, CanClusterTransition, Target
    <3>1. b # a BY <1>9 DEF DeleteCluster, Return, IdleAdmin, Call, IInv, TypeOK
    <3> QED BY <1>9, <3>1 DEF DeleteCluster, Return, IInv, TypeOK, CheckedInv
  <2>5. RegisteredHasCredentials'
    BY <1>9 DEF DeleteCluster, RegisteredHasCredentials
  <2> QED BY <2>1, <2>2, <2>3, <2>4, <2>5 DEF IInv
<1>10. CASE CordonLoad(a)
  <2> DEFINE call == [Call("cordon", "commit") EXCEPT !.from = cluster.state]
  <2>1. /\ call \in AdminCall
        /\ CanClusterTransition(call.from, Target(call.op))
    BY <1>10 DEF CordonLoad, CanClusterTransition, Target, Call, AdminCall,
       AdminOp, AdminStep
  <2>2. Load(a, call) BY <1>10 DEF CordonLoad
  <2> HIDE DEF call
  <2> QED BY <2>1, <2>2, LoadIInv
<1>11. CASE UncordonLoad(a)
  <2> DEFINE call == [Call("uncordon", "commit") EXCEPT !.from = cluster.state]
  <2>1. /\ call \in AdminCall
        /\ CanClusterTransition(call.from, Target(call.op))
    BY <1>11 DEF UncordonLoad, CanClusterTransition, Target, Call, AdminCall,
       AdminOp, AdminStep
  <2>2. Load(a, call) BY <1>11 DEF UncordonLoad
  <2> HIDE DEF call
  <2> QED BY <2>1, <2>2, LoadIInv
<1>12. CASE DecommissionLoad(a)
  <2> DEFINE call == [Call("decommission", "disable") EXCEPT !.client = cluster.clientID]
  <2>1. call \in AdminCall /\ call.step = "disable"
    BY DEF Call, AdminCall, AdminOp, AdminStep, ClusterRow
  <2>2. Load(a, call) BY <1>12 DEF DecommissionLoad
  <2> HIDE DEF call
  <2> QED BY <2>1, <2>2, LoadIInv
<1>13. CASE DecommissionReread(a)
  <2>1. CASE CanClusterTransition(cluster.state, "decommissioned")
    <3>1. admin' = [admin EXCEPT ![a].step = "commit", ![a].from = cluster.state]
      BY <1>13, <2>1 DEF DecommissionReread
    <3>2. admin[a] \in AdminCall /\ admin[a].op = "decommission"
      BY <1>13 DEF DecommissionReread, Running, IInv, TypeOK
    <3>3. cluster.state \in ClusterState BY <2>1 DEF CanClusterTransition
    <3>4. /\ admin'[a] \in AdminCall
          /\ admin'[a].op = "decommission"
          /\ admin'[a].from = cluster.state
      BY <3>1, <3>2, <3>3 DEF AdminCall, AdminStep, IInv, TypeOK
    <3>5. \A b \in Admin : b # a => admin'[b] = admin[b]
      BY <3>1 DEF IInv, TypeOK
    <3>6. admin' \in [Admin -> AdminCall]
      BY <3>1, <3>4, <3>5 DEF IInv, TypeOK
    <3>7. UNCHANGED <<cluster, token, keycloak, vault, agent, stream, aborts,
                      exchanged, revoked>>
      BY <1>13 DEF DecommissionReread
    <3>8. TypeOK' BY <3>6, <3>7 DEF IInv, TypeOK
    <3>9. ExchangeInv' BY <3>7 DEF IInv, ExchangeInv
    <3>10. BurnedInv' BY <3>7 DEF IInv, BurnedInv
    <3>11. CheckedInv'
      <4> SUFFICES ASSUME NEW b \in Admin,
                          admin'[b].op \in {"cordon", "uncordon", "decommission"},
                          admin'[b].step = "commit"
                   PROVE  CanClusterTransition(admin'[b].from, Target(admin'[b].op))
        BY DEF CheckedInv, CanClusterTransition, Target
      <4>1. CASE b = a
        <5>1. Target(admin'[b].op) = "decommissioned" BY <3>4, <4>1 DEF Target
        <5> QED BY <2>1, <3>4, <4>1, <5>1
      <4>2. CASE b # a BY <3>5, <4>2 DEF IInv, CheckedInv
      <4> QED BY <4>1, <4>2
    <3>12. RegisteredHasCredentials' BY <3>7 DEF IInv, RegisteredHasCredentials
    <3> QED BY <3>8, <3>9, <3>10, <3>11, <3>12 DEF IInv
  <2>2. CASE ~CanClusterTransition(cluster.state, "decommissioned")
    BY <1>13, <2>2, ReturnIInv DEF DecommissionReread
  <2> QED BY <2>1, <2>2
<1>14. CASE Transition(a)
  <2>1. cluster' \in ClusterRow /\ cluster'.clientID = cluster.clientID
    BY <1>14 DEF Transition, Target, ClusterRow, ClusterState
  <2> QED BY <1>14, <2>1, ReturnIInv DEF Transition
<1>15. CASE AdminRefused(a)
  BY <1>15, ReturnIInv DEF AdminRefused
<1>16. CASE AbortAdmin(a)
  <2>1. aborts' \in 0 .. MaxAborts
    BY <1>16, RegistryAssumption DEF AbortAdmin
  <2> QED BY <1>16, <2>1, ReturnIInv DEF AbortAdmin
<1> QED
  BY <1>1, <1>2, <1>3, <1>4, <1>5, <1>6, <1>7, <1>8, <1>9, <1>10, <1>11, <1>12,
     <1>13, <1>14, <1>15, <1>16 DEF AdminNext, AdminProceeds

\* Every step of a registration exchange keeps the inductive invariant.
LEMMA AgentIInv ==
  ASSUME IInv, NEW g \in Agent, Register(g) \/ AbortAgent(g)
  PROVE  IInv'
<1> USE DEF registry, identity, history
<1>0. /\ agent \in [Agent -> AgentCall]
      /\ IdleAgent \in AgentCall
      /\ \A h \in Agent : agent[h].step # "idle" => agent[h].tok \in Token
  BY DEF IInv, TypeOK, ExchangeInv, IdleAgent, AgentCall
<1> USE DEF HasClient, HasSecret, HasTunnel
<1>1. CASE \E t \in Token : RegisterPeek(g, t)
  <2> PICK t \in Token : RegisterPeek(g, t) BY <1>1
  <2>1. [step |-> "peeked", tok |-> t] \in AgentCall BY DEF AgentCall
  <2>2. TypeOK' BY <2>1 DEF RegisterPeek, IInv, TypeOK
  <2>3. ExchangeInv' BY <1>0 DEF RegisterPeek, IInv, ExchangeInv
  <2>4. BurnedInv' BY DEF RegisterPeek, IInv, BurnedInv
  <2>5. CheckedInv' BY DEF RegisterPeek, IInv, CheckedInv, CanClusterTransition, Target
  <2>6. RegisteredHasCredentials' BY DEF RegisterPeek, IInv, RegisteredHasCredentials
  <2> QED BY <2>2, <2>3, <2>4, <2>5, <2>6 DEF IInv
<1>2. CASE CreateClusterClient(g)
  <2>1. TypeOK' BY <1>0, <1>2 DEF CreateClusterClient, Goto, AgentCall, IInv, TypeOK
  <2>2. ExchangeInv'
    BY <1>0, <1>2 DEF CreateClusterClient, Goto, AgentCall, IInv, ExchangeInv
  <2>3. BurnedInv' BY <1>2 DEF CreateClusterClient, IInv, BurnedInv
  <2>4. CheckedInv'
    BY <1>2 DEF CreateClusterClient, IInv, CheckedInv, CanClusterTransition, Target
  <2>5. RegisteredHasCredentials'
    BY <1>2 DEF CreateClusterClient, IInv, RegisteredHasCredentials
  <2> QED BY <2>1, <2>2, <2>3, <2>4, <2>5 DEF IInv
<1>3. CASE DeliverSecret(g)
  <2>1. TypeOK' BY <1>0, <1>3 DEF DeliverSecret, Goto, AgentCall, IInv, TypeOK
  <2>2. ExchangeInv'
    BY <1>0, <1>3 DEF DeliverSecret, Goto, AgentCall, IInv, ExchangeInv
  <2>3. BurnedInv' BY <1>3 DEF DeliverSecret, IInv, BurnedInv
  <2>4. CheckedInv'
    BY <1>3 DEF DeliverSecret, IInv, CheckedInv, CanClusterTransition, Target
  <2>5. RegisteredHasCredentials'
    BY <1>3 DEF DeliverSecret, IInv, RegisteredHasCredentials
  <2> QED BY <2>1, <2>2, <2>3, <2>4, <2>5 DEF IInv
<1>4. CASE DeliverTunnel(g)
  <2>1. TypeOK' BY <1>0, <1>4 DEF DeliverTunnel, Goto, AgentCall, IInv, TypeOK
  <2>2. ExchangeInv'
    BY <1>0, <1>4 DEF DeliverTunnel, Goto, AgentCall, IInv, ExchangeInv
  <2>3. BurnedInv' BY <1>4 DEF DeliverTunnel, IInv, BurnedInv
  <2>4. CheckedInv'
    BY <1>4 DEF DeliverTunnel, IInv, CheckedInv, CanClusterTransition, Target
  <2>5. RegisteredHasCredentials'
    BY <1>4 DEF DeliverTunnel, IInv, RegisteredHasCredentials
  <2> QED BY <2>1, <2>2, <2>3, <2>4, <2>5 DEF IInv
<1>5. CASE ProvisionDex(g)
  <2>1. TypeOK' BY <1>0, <1>5 DEF ProvisionDex, Goto, AgentCall, IInv, TypeOK
  <2>2. ExchangeInv'
    BY <1>0, <1>5 DEF ProvisionDex, Goto, AgentCall, IInv, ExchangeInv
  <2>3. BurnedInv' BY <1>5 DEF ProvisionDex, IInv, BurnedInv
  <2>4. CheckedInv'
    BY <1>5 DEF ProvisionDex, IInv, CheckedInv, CanClusterTransition, Target
  <2>5. RegisteredHasCredentials'
    BY <1>5 DEF ProvisionDex, IInv, RegisteredHasCredentials
  <2> QED BY <2>1, <2>2, <2>3, <2>4, <2>5 DEF IInv
<1>6. CASE ConsumeToken(g)
  <2>1. agent[g].tok \in Token BY <1>0, <1>6 DEF ConsumeToken
  <2>2. TypeOK'
    BY <1>0, <1>6, <2>1 DEF ConsumeToken, Goto, Leave, AgentCall, IInv, TypeOK
  <2>3. ExchangeInv'
    BY <1>0, <1>6, <2>1 DEF ConsumeToken, Goto, Leave, IdleAgent, AgentCall, IInv, ExchangeInv
  <2>4. BurnedInv'
    BY <1>6, <2>1 DEF ConsumeToken, IInv, BurnedInv, TypeOK
  <2>5. CheckedInv'
    BY <1>6 DEF ConsumeToken, IInv, CheckedInv, CanClusterTransition, Target
  <2>6. RegisteredHasCredentials'
    BY <1>6 DEF ConsumeToken, IInv, RegisteredHasCredentials
  <2> QED BY <2>2, <2>3, <2>4, <2>5, <2>6 DEF IInv
<1>7. CASE MarkRegistered(g)
  <2>1. TypeOK'
    BY <1>0, <1>7 DEF MarkRegistered, Leave, ClusterRow, ClusterState, IInv, TypeOK
  <2>2. ExchangeInv'
    BY <1>0, <1>7 DEF MarkRegistered, Leave, IdleAgent, IInv, ExchangeInv
  <2>3. BurnedInv' BY <1>7 DEF MarkRegistered, IInv, BurnedInv
  <2>4. CheckedInv'
    BY <1>7 DEF MarkRegistered, IInv, CheckedInv, CanClusterTransition, Target
  <2>5. RegisteredHasCredentials'
    BY <1>7 DEF MarkRegistered, IInv, ExchangeInv, RegisteredHasCredentials
  <2> QED BY <2>1, <2>2, <2>3, <2>4, <2>5 DEF IInv
<1>8. CASE AbortAgent(g)
  <2>1. TypeOK' BY <1>0, <1>8, RegistryAssumption DEF AbortAgent, Leave, IInv, TypeOK
  <2>2. ExchangeInv'
    BY <1>0, <1>8 DEF AbortAgent, Leave, IdleAgent, IInv, ExchangeInv
  <2>3. BurnedInv' BY <1>8 DEF AbortAgent, IInv, BurnedInv
  <2>4. CheckedInv'
    BY <1>8 DEF AbortAgent, IInv, CheckedInv, CanClusterTransition, Target
  <2>5. RegisteredHasCredentials'
    BY <1>8 DEF AbortAgent, IInv, RegisteredHasCredentials
  <2> QED BY <2>1, <2>2, <2>3, <2>4, <2>5 DEF IInv
<1> QED
  BY <1>1, <1>2, <1>3, <1>4, <1>5, <1>6, <1>7, <1>8 DEF Register

\* Every step keeps the inductive invariant.
LEMMA NextIInv == IInv /\ [Next]_vars => IInv'
<1> SUFFICES ASSUME IInv, [Next]_vars PROVE IInv' OBVIOUS
<1> USE DEF registry, identity, history
<1>1. CASE CreateCluster
  <2>1. cluster' \in ClusterRow /\ cluster'.clientID = cluster.clientID
    BY <1>1 DEF CreateCluster, IInv, TypeOK, ClusterRow, ClusterState
  <2>2. TypeOK' BY <1>1, <2>1 DEF CreateCluster, IInv, TypeOK
  <2>3. ExchangeInv' BY <1>1 DEF CreateCluster, IInv, ExchangeInv
  <2>4. BurnedInv' BY <1>1 DEF CreateCluster, IInv, BurnedInv
  <2>5. CheckedInv'
    BY <1>1 DEF CreateCluster, IInv, CheckedInv, CanClusterTransition, Target
  <2>6. RegisteredHasCredentials'
    BY <1>1, <2>1 DEF CreateCluster, IInv, RegisteredHasCredentials
  <2> QED BY <2>2, <2>3, <2>4, <2>5, <2>6 DEF IInv
<1>2. CASE \E t \in Token : RevokeToken(t) \/ ExpireToken(t)
  <2> PICK t \in Token : RevokeToken(t) \/ ExpireToken(t) BY <1>2
  <2>1. TypeOK' BY DEF RevokeToken, ExpireToken, IInv, TypeOK
  <2>2. ExchangeInv' BY DEF RevokeToken, ExpireToken, IInv, ExchangeInv
  <2>3. BurnedInv' BY DEF RevokeToken, ExpireToken, IInv, BurnedInv, TypeOK
  <2>4. CheckedInv'
    BY DEF RevokeToken, ExpireToken, IInv, CheckedInv, CanClusterTransition, Target
  <2>5. RegisteredHasCredentials'
    BY DEF RevokeToken, ExpireToken, IInv, RegisteredHasCredentials
  <2> QED BY <2>1, <2>2, <2>3, <2>4, <2>5 DEF IInv
<1>3. CASE \E a \in Admin : AdminNext(a)
  BY <1>3, AdminIInv
<1>4. CASE \E g \in Agent : Register(g) \/ AbortAgent(g)
  BY <1>4, AgentIInv
<1>5. CASE Connect \/ Disconnect \/ UNCHANGED vars
  <2>1. /\ UNCHANGED <<cluster, keycloak, vault, token, admin, agent, aborts,
                       exchanged, revoked>>
        /\ stream' \in BOOLEAN
    BY <1>5 DEF Connect, Disconnect, vars, IInv, TypeOK
  <2>2. TypeOK' BY <2>1 DEF IInv, TypeOK
  <2>3. ExchangeInv' BY <2>1 DEF IInv, ExchangeInv
  <2>4. BurnedInv' BY <2>1 DEF IInv, BurnedInv
  <2>5. CheckedInv' BY <2>1 DEF IInv, CheckedInv, CanClusterTransition, Target
  <2>6. RegisteredHasCredentials' BY <2>1 DEF IInv, RegisteredHasCredentials
  <2> QED BY <2>2, <2>3, <2>4, <2>5, <2>6 DEF IInv
<1> QED BY <1>1, <1>2, <1>3, <1>4, <1>5, NextIs

\* The inductive invariant holds in every reachable state.
LEMMA Inductive == Spec => []IInv
BY InitIInv, NextIInv, PTL DEF Spec

----------------------------------------------------------------------------
\* Every variable keeps its type.
THEOREM TypeCorrect == Spec => []TypeOK
<1>1. IInv => TypeOK BY DEF IInv
<1> QED BY <1>1, Inductive, PTL

\* However many exchanges race for a token, at most one burns it.
THEOREM SingleUse == Spec => []TokenAtMostOnce
<1>1. IInv => TokenAtMostOnce
  <2> SUFFICES ASSUME IInv, NEW t \in Token PROVE exchanged[t] <= 1
    BY DEF TokenAtMostOnce
  <2>1. exchanged[t] \in Nat BY DEF IInv, TypeOK
  <2>2. exchanged[t] = 0 \/ exchanged[t] = 1 BY DEF IInv, BurnedInv
  <2> QED BY <2>1, <2>2
<1> QED BY <1>1, Inductive, PTL

\* A registered cluster's credentials were created and delivered before it
\* was marked registered.
THEOREM CredentialsFirst == Spec => []RegisteredHasCredentials
<1>1. IInv => RegisteredHasCredentials BY DEF IInv
<1> QED BY <1>1, Inductive, PTL

\* A step that cordons or decommissions the cluster is a compare and swap
\* that succeeded on a state the state machine was asked about.
LEMMA StepRespects ==
  ASSUME IInv, Next, NEW s \in {"cordoned", "decommissioned"},
         cluster'.state = s, cluster.state # s
  PROVE  CanClusterTransition(cluster.state, s)
<1> USE DEF registry, identity, history
<1> cluster \in ClusterRow BY DEF IInv, TypeOK
<1>1. CASE CreateCluster BY <1>1 DEF CreateCluster, ClusterRow
<1>2. CASE \E t \in Token : RevokeToken(t) \/ ExpireToken(t)
  BY <1>2 DEF RevokeToken, ExpireToken
<1>3. ASSUME NEW a \in Admin, AdminNext(a)
      PROVE  CanClusterTransition(cluster.state, s)
  <2>1. CASE Transition(a)
    <3>1. /\ cluster.state = admin[a].from
          /\ s = Target(admin[a].op)
      BY <2>1 DEF Transition, ClusterRow
    <3>2. CanClusterTransition(admin[a].from, Target(admin[a].op))
      BY <2>1 DEF Transition, IInv, CheckedInv
    <3> QED BY <3>1, <3>2
  <2>2. CASE ApproveCluster(a) BY <2>2 DEF ApproveCluster, ClusterRow
  <2>3. CASE RevokeCluster(a) BY <2>3 DEF RevokeCluster, ClusterRow
  <2>4. CASE DeleteCluster(a) BY <2>4 DEF DeleteCluster
  <2>5. CASE ~Transition(a) /\ ~ApproveCluster(a) /\ ~RevokeCluster(a) /\ ~DeleteCluster(a)
    BY <1>3, <2>5 DEF AdminNext, AdminProceeds, IssueTokenLoad, IssueToken, ApproveLoad, RevokeLoad,
       DisableClient, DeleteLoad, CordonLoad, UncordonLoad, DecommissionLoad,
       DecommissionReread, AdminRefused, AbortAdmin, Load
  <2> QED BY <2>1, <2>2, <2>3, <2>4, <2>5
<1>4. CASE \E g \in Agent : Register(g) \/ AbortAgent(g)
  BY <1>4 DEF Register, RegisterPeek, CreateClusterClient, DeliverSecret,
     DeliverTunnel, ProvisionDex, ConsumeToken, MarkRegistered, AbortAgent
<1>5. CASE Connect \/ Disconnect BY <1>5 DEF Connect, Disconnect
<1> QED BY <1>1, <1>2, <1>3, <1>4, <1>5, NextIs

\* The compare and swap keeps concurrent cordon and decommission requests on
\* the edges of the state machine.
THEOREM FollowsLifecycle == Spec => LifecycleRespected
<1>1. IInv /\ [Next]_vars =>
        [\A s \in {"cordoned", "decommissioned"} :
           cluster'.state = s /\ cluster.state # s =>
             CanClusterTransition(cluster.state, s)]_vars
  BY StepRespects
<1> QED BY <1>1, Inductive, PTL DEF Spec, LifecycleRespected
=============================================================================
