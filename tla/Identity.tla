------------------------------ MODULE Identity ------------------------------
(***************************************************************************)
(* internal/tenancy identity.go and broker.go: the OIDC clients of one     *)
(* tenant and its brokered identity provider.  Each is an object of        *)
(* Keycloak and a row that mirrors it; a call checks the row, changes      *)
(* Keycloak, writes the row, and undoes the change of Keycloak when the    *)
(* row cannot be written.  Nothing is locked between those steps.          *)
(***************************************************************************)
EXTENDS Caller, Naturals

CONSTANTS ClientName, KubectlClientID,  \* names of clients, the one of kubectl among them
          Alias, NoAlias,               \* aliases of identity providers
          Issuer,                       \* settings of a provider
          IdentityCall,                 \* calls in progress at once
          MaxIdentityRequests, MaxIdentityFaults  \* bounds

ASSUME IdentityAssumption ==
    /\ KubectlClientID \in ClientName /\ NoAlias \notin Alias /\ Issuer # {} /\ "none" \notin Issuer
    /\ MaxIdentityRequests \in Nat /\ MaxIdentityFaults \in Nat

VARIABLES clientRow,    \* identity_clients.status
          kcClient,     \* the client in Keycloak
          brokerRow,    \* the idp_brokers row, at most one
          kcIdp,        \* the providers in Keycloak, with their settings
          kcLink,       \* those linked to the organization
          idCall,       \* calls in progress
          overlapped,   \* two calls were in progress at the same time
          idCrashed,    \* a call was cut short, or its undo failed
          idAsked, idFaults  \* bounds

identityVars == <<clientRow, kcClient, brokerRow, kcIdp, kcLink, idCall, overlapped, idCrashed, idAsked, idFaults>>

IdentityClient == {"none", "active", "disabled"}
ClientSpec == {"none", "enabled", "disabled"}
BrokeredIdP == [alias : Alias \cup {NoAlias}, issuer : Issuer]
AnIssuer == CHOOSE i \in Issuer : TRUE
NoBroker == [alias |-> NoAlias, issuer |-> AnIssuer]
IdleIdCall == [op |-> "none", pc |-> "idle", name |-> KubectlClientID, enabled |-> FALSE, broker |-> NoBroker]

\* Rows, Keycloak objects and calls are well formed.
IdentityTypeOK ==
    /\ clientRow \in [ClientName -> IdentityClient] /\ kcClient \in [ClientName -> ClientSpec]
    /\ brokerRow \in BrokeredIdP /\ kcIdp \in [Alias -> Issuer \cup {"none"}] /\ kcLink \subseteq Alias
    /\ idCall \in [IdentityCall ->
          [op : {"none", "CreateClient", "UpdateClient", "DisableClient", "CreateBroker", "UpdateBroker", "DeleteBroker"},
           pc : {"idle", "keycloak", "link", "domains", "tx", "undo", "undoDelete", "unlink", "delete"}, name : ClientName,
           enabled : BOOLEAN, broker : BrokeredIdP]]
    /\ overlapped \in BOOLEAN /\ idCrashed \in BOOLEAN
    /\ idAsked \in 0 .. MaxIdentityRequests /\ idFaults \in 0 .. MaxIdentityFaults

IdentityInit ==
    /\ clientRow = [n \in ClientName |-> "none"] /\ kcClient = [n \in ClientName |-> "none"]
    /\ brokerRow = NoBroker /\ kcIdp = [a \in Alias |-> "none"] /\ kcLink = {}
    /\ idCall = [c \in IdentityCall |-> IdleIdCall] /\ overlapped = FALSE /\ idCrashed = FALSE
    /\ idAsked = 0 /\ idFaults = 0

clientsSame == UNCHANGED <<clientRow, kcClient>>
brokersSame == UNCHANGED <<brokerRow, kcIdp, kcLink>>
idGhostSame == UNCHANGED <<overlapped, idCrashed, idAsked, idFaults>>
BeginIdCall(c, call) ==
    /\ idCall[c] = IdleIdCall /\ idCall' = [idCall EXCEPT ![c] = call]
    /\ overlapped' = (overlapped \/ \E d \in IdentityCall \ {c} : idCall[d] # IdleIdCall)
    /\ clientsSame /\ brokersSame /\ UNCHANGED <<idCrashed, idFaults>>
IdGoto(c, pc) == idCall' = [idCall EXCEPT ![c].pc = pc]
IdReturn(c) == idCall' = [idCall EXCEPT ![c] = IdleIdCall]

-----------------------------------------------------------------------------
(* Keycloak *)

\* A conflict is taken for success: setClientEnabled turns the client on again.
CreateClient(n) == kcClient' = [kcClient EXCEPT ![n] = "enabled"]
setClientEnabled(n, on) == kcClient' = [kcClient EXCEPT ![n] = IF on THEN "enabled" ELSE "disabled"]
UpdateClient(n, on) == kcClient[n] # "none" /\ setClientEnabled(n, on)
\* Mutant: the undo leaves the client on.
DisableClientNot(n) == UNCHANGED kcClient
DisableClient(n) == kcClient' = [kcClient EXCEPT ![n] = IF @ = "none" THEN @ ELSE "disabled"]
\* A conflict is taken for success, and the settings stay those of before.
CreateIdP(b) == kcIdp' = [kcIdp EXCEPT ![b.alias] = IF @ = "none" THEN b.issuer ELSE @]
UpdateIdP(b) == kcIdp[b.alias] # "none" /\ kcIdp' = [kcIdp EXCEPT ![b.alias] = b.issuer]
LinkIdPToOrg(b) == kcIdp[b.alias] # "none" /\ kcLink' = kcLink \cup {b.alias}
UnlinkIdPFromOrg(b) == kcLink' = kcLink \ {b.alias}
DeleteIdP(b) == kcIdp' = [kcIdp EXCEPT ![b.alias] = "none"] /\ kcLink' = kcLink \ {b.alias}

-----------------------------------------------------------------------------
(* Identity clients *)

GetIdentityClient(n) == clientRow[n]
CreateIdentityClient(c, n) ==
    /\ GetIdentityClient(n) = "none"
    /\ BeginIdCall(c, [IdleIdCall EXCEPT !.op = "CreateClient", !.pc = "keycloak", !.name = n])
EnsureKubectlClient(c) == CreateIdentityClient(c, KubectlClientID)
\* The status that is written is the one that was read.
UpdateIdentityClient(c, n) ==
    /\ GetIdentityClient(n) # "none"
    /\ BeginIdCall(c, [IdleIdCall EXCEPT !.op = "UpdateClient", !.pc = "keycloak", !.name = n,
                                         !.enabled = GetIdentityClient(n) = "active"])
DisableIdentityClient(c, n) ==
    /\ GetIdentityClient(n) # "none"
    /\ BeginIdCall(c, [IdleIdCall EXCEPT !.op = "DisableClient", !.pc = "keycloak", !.name = n])
ClientKeycloakStep(c) ==
    /\ idCall[c].pc = "keycloak" /\ IdGoto(c, "tx")
    /\ LET n == idCall[c].name
       IN \/ idCall[c].op = "CreateClient" /\ CreateClient(n)
          \/ idCall[c].op = "UpdateClient" /\ UpdateClient(n, idCall[c].enabled)
          \/ idCall[c].op = "DisableClient" /\ DisableClient(n)
    /\ UNCHANGED clientRow /\ brokersSame /\ idGhostSame
\* The transaction; a create meets the row of another create.
insertClient(n) == clientRow[n] = "none" /\ clientRow' = [clientRow EXCEPT ![n] = "active"]
SetIdentityClientStatus(n) == clientRow' = [clientRow EXCEPT ![n] = "disabled"]
ClientTx(c) ==
    /\ idCall[c].op \in {"CreateClient", "UpdateClient", "DisableClient"} /\ idCall[c].pc = "tx"
    /\ LET n == idCall[c].name
       IN \/ idCall[c].op = "CreateClient" /\ insertClient(n) /\ IdReturn(c)
          \/ idCall[c].op = "CreateClient" /\ clientRow[n] # "none" /\ IdGoto(c, "undo") /\ UNCHANGED clientRow
          \/ idCall[c].op = "UpdateClient" /\ IdReturn(c) /\ UNCHANGED clientRow
          \/ idCall[c].op = "DisableClient" /\ SetIdentityClientStatus(n) /\ IdReturn(c)
    /\ UNCHANGED kcClient /\ brokersSame /\ idGhostSame
ClientUndo(c) ==
    /\ idCall[c].op = "CreateClient" /\ idCall[c].pc = "undo" /\ DisableClient(idCall[c].name) /\ IdReturn(c)
    /\ UNCHANGED clientRow /\ brokersSame /\ idGhostSame

-----------------------------------------------------------------------------
(* The brokered identity provider *)

GetIdPBrokerByOrg == brokerRow
CreateBrokeredIdP(c, b) ==
    /\ GetIdPBrokerByOrg = NoBroker
    /\ BeginIdCall(c, [IdleIdCall EXCEPT !.op = "CreateBroker", !.pc = "keycloak", !.broker = b])
UpdateBrokeredIdP(c, i) ==
    /\ GetIdPBrokerByOrg # NoBroker
    /\ BeginIdCall(c, [IdleIdCall EXCEPT !.op = "UpdateBroker", !.pc = "keycloak", !.broker = [brokerRow EXCEPT !.issuer = i]])
DeleteBrokeredIdP(c) ==
    /\ GetIdPBrokerByOrg # NoBroker
    /\ BeginIdCall(c, [IdleIdCall EXCEPT !.op = "DeleteBroker", !.pc = "unlink", !.broker = brokerRow])
BrokerKeycloakStep(c) ==
    /\ LET b == idCall[c].broker  op == idCall[c].op  pc == idCall[c].pc
       IN \/ op = "CreateBroker" /\ pc = "keycloak" /\ CreateIdP(b) /\ IdGoto(c, "link") /\ UNCHANGED kcLink
          \/ op = "CreateBroker" /\ pc = "link" /\ LinkIdPToOrg(b) /\ IdGoto(c, "domains") /\ UNCHANGED kcIdp
          \/ op = "CreateBroker" /\ pc = "link" /\ kcIdp[b.alias] = "none" /\ IdGoto(c, "undo") /\ UNCHANGED <<kcIdp, kcLink>>
          \/ op = "UpdateBroker" /\ pc = "keycloak" /\ UpdateIdP(b) /\ IdGoto(c, "domains") /\ UNCHANGED kcLink
          \/ op = "UpdateBroker" /\ pc = "keycloak" /\ kcIdp[b.alias] = "none" /\ IdReturn(c) /\ UNCHANGED <<kcIdp, kcLink>>
          \/ op = "DeleteBroker" /\ pc = "unlink" /\ UnlinkIdPFromOrg(b) /\ IdGoto(c, "delete") /\ UNCHANGED kcIdp
          \/ op = "DeleteBroker" /\ pc = "delete" /\ DeleteIdP(b) /\ IdGoto(c, "tx")
    /\ clientsSame /\ UNCHANGED brokerRow /\ idGhostSame
\* SetOrgDomains refuses a domain of another organization: a create is undone,
\* an update has already changed the provider.
SetOrgDomains(c) ==
    /\ idCall[c].pc = "domains"
    /\ \/ IdGoto(c, "tx") /\ UNCHANGED idCrashed
       \/ idCall[c].op = "CreateBroker" /\ IdGoto(c, "undo") /\ UNCHANGED idCrashed
       \/ idCall[c].op = "UpdateBroker" /\ IdReturn(c) /\ idCrashed' = TRUE
    /\ clientsSame /\ brokersSame /\ UNCHANGED <<overlapped, idAsked, idFaults>>
BrokerTx(c) ==
    /\ idCall[c].op \in {"CreateBroker", "UpdateBroker", "DeleteBroker"} /\ idCall[c].pc = "tx"
    /\ LET b == idCall[c].broker
       IN \/ idCall[c].op = "CreateBroker" /\ brokerRow = NoBroker /\ brokerRow' = b /\ IdReturn(c)
          \/ idCall[c].op = "CreateBroker" /\ brokerRow # NoBroker /\ IdGoto(c, "undo") /\ UNCHANGED brokerRow
          \/ /\ idCall[c].op = "UpdateBroker" /\ IdReturn(c)
             /\ brokerRow' = IF brokerRow.alias = b.alias THEN b ELSE brokerRow
          \/ /\ idCall[c].op = "DeleteBroker" /\ IdReturn(c)
             /\ brokerRow' = IF brokerRow.alias = b.alias THEN NoBroker ELSE brokerRow
    /\ clientsSame /\ UNCHANGED <<kcIdp, kcLink>> /\ idGhostSame
\* Mutant: the link is removed, the provider stays.
rollbackIdPUnlinks(c) ==
    /\ idCall[c].op = "CreateBroker" /\ idCall[c].pc = "undo" /\ UnlinkIdPFromOrg(idCall[c].broker) /\ UNCHANGED kcIdp
    /\ IdReturn(c) /\ clientsSame /\ UNCHANGED brokerRow /\ idGhostSame
\* Unlink, then delete: a failing first call skips the second (IdCallFails).
rollbackIdP(c) ==
    /\ idCall[c].op = "CreateBroker"
    /\ \/ idCall[c].pc = "undo" /\ UnlinkIdPFromOrg(idCall[c].broker) /\ IdGoto(c, "undoDelete") /\ UNCHANGED kcIdp
       \/ idCall[c].pc = "undoDelete" /\ DeleteIdP(idCall[c].broker) /\ IdReturn(c)
    /\ clientsSame /\ UNCHANGED brokerRow /\ idGhostSame

-----------------------------------------------------------------------------
(* Failures and routes *)

\* The transaction of a create fails, and the change of Keycloak is undone.
IdTxFails(c) ==
    /\ idCall[c].pc = "tx" /\ idCall[c].op \in {"CreateClient", "CreateBroker"} /\ IdGoto(c, "undo")
    /\ idFaults < MaxIdentityFaults /\ idFaults' = idFaults + 1
    /\ clientsSame /\ brokersSame /\ UNCHANGED <<overlapped, idCrashed, idAsked>>
\* The replica stops, or Keycloak refuses.
IdCallFails(c) ==
    /\ idCall[c] # IdleIdCall /\ IdReturn(c) /\ idCrashed' = TRUE
    /\ idFaults < MaxIdentityFaults /\ idFaults' = idFaults + 1
    /\ clientsSame /\ brokersSame /\ UNCHANGED <<overlapped, idAsked>>
IdCallStep(c) ==
    \/ ClientKeycloakStep(c) \/ ClientTx(c) \/ ClientUndo(c)
    \/ BrokerKeycloakStep(c) \/ SetOrgDomains(c) \/ BrokerTx(c) \/ rollbackIdP(c)

authorizeIdentity(u) ==
    /\ Authorized(u, "tenant_identity_manage")
    /\ idAsked < MaxIdentityRequests /\ idAsked' = idAsked + 1
httpCreateIdentityClient(u, c) == authorizeIdentity(u) /\ \E n \in ClientName \ {KubectlClientID} : CreateIdentityClient(c, n)
httpUpdateIdentityClient(u, c) == authorizeIdentity(u) /\ \E n \in ClientName : UpdateIdentityClient(c, n)
httpDisableIdentityClient(u, c) == authorizeIdentity(u) /\ \E n \in ClientName : DisableIdentityClient(c, n)
httpCreateBrokeredIdP(u, c) == authorizeIdentity(u) /\ \E a \in Alias, i \in Issuer : CreateBrokeredIdP(c, [alias |-> a, issuer |-> i])
httpUpdateBrokeredIdP(u, c) == authorizeIdentity(u) /\ \E i \in Issuer : UpdateBrokeredIdP(c, i)
httpDeleteBrokeredIdP(u, c) == authorizeIdentity(u) /\ DeleteBrokeredIdP(c)
\* CreateTenant, and again at start-up.
EnsuresKubectl(c) == idAsked < MaxIdentityRequests /\ idAsked' = idAsked + 1 /\ EnsureKubectlClient(c)
IdentityRoutes(c) ==
    \/ \E u \in User :
          \/ httpCreateIdentityClient(u, c) \/ httpUpdateIdentityClient(u, c) \/ httpDisableIdentityClient(u, c)
          \/ httpCreateBrokeredIdP(u, c) \/ httpUpdateBrokeredIdP(u, c) \/ httpDeleteBrokeredIdP(u, c)
    \/ EnsuresKubectl(c)

IdentityNext == \E c \in IdentityCall : IdentityRoutes(c) \/ IdCallStep(c) \/ IdTxFails(c) \/ IdCallFails(c)

-----------------------------------------------------------------------------
(* Properties *)

allIdle == \A c \in IdentityCall : idCall[c] = IdleIdCall

\* Whatever overlaps and whichever transactions fail, an enabled client without a
\* row is left behind only by a call that was cut short.
NoOrphanClient == allIdle /\ ~idCrashed => \A n \in ClientName : kcClient[n] = "enabled" => clientRow[n] # "none"

\* Calls that do not overlap leave the rows and Keycloak in agreement, also when a
\* transaction fails or a domain is refused and the change of Keycloak is undone.
AgreeAlone ==
    allIdle /\ ~idCrashed /\ ~overlapped =>
        /\ \A n \in ClientName : (clientRow[n] = "active") = (kcClient[n] = "enabled")
        /\ \A a \in Alias : kcIdp[a] # "none" => brokerRow.alias = a
        /\ brokerRow # NoBroker => kcIdp[brokerRow.alias] = brokerRow.issuer /\ kcLink = {brokerRow.alias}

-----------------------------------------------------------------------------
(* Statements the code does not keep: TLC finds a counterexample of each  *)
(* (README, "What the code does not keep").                               *)

\* A client whose row is disabled is off in Keycloak once its call is done (identity.go:
\* "disables the Keycloak client ... and marks the projection disabled").
DisabledIsOff == allIdle /\ ~idCrashed => \A n \in ClientName : clientRow[n] = "disabled" => kcClient[n] # "enabled"
=============================================================================
