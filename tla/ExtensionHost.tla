---------------------------- MODULE ExtensionHost ----------------------------
(***************************************************************************)
(* internal/extensionhost, the registry: one name of an extension, the     *)
(* rows that hold it one after another, its client in Keycloak, and the    *)
(* handshake that makes it ready.  A call reads the row, talks to Keycloak *)
(* or to the extension, and writes the row, with nothing locked between.   *)
(***************************************************************************)
EXTENDS Caller, Naturals

CONSTANTS ExtId, NoExt,              \* ids of rows
          ExtCall,                   \* calls in progress at once
          MaxExtRequests, MaxExtFaults  \* bounds

ASSUME ExtensionAssumption == NoExt \notin ExtId /\ MaxExtRequests \in Nat /\ MaxExtFaults \in Nat

VARIABLES extRow,      \* extensions
          kcExt,       \* the client ext-<name>
          extCall,     \* calls in progress
          extDoubt,    \* a call was cut short, a revocation failed, or one ran beside another call
          extAsked, extFaults  \* bounds

extensionVars == <<extRow, kcExt, extCall, extDoubt, extAsked, extFaults>>

ExtensionState == {"pending", "ready", "degraded"}
UiExtensionDescriptor == {"none", "enabled", "disabled"}
Extension == [live : BOOLEAN, used : BOOLEAN, kind : {"backend", "ui"}, state : ExtensionState, client : BOOLEAN, ui : UiExtensionDescriptor]
NoExtRow == [live |-> FALSE, used |-> FALSE, kind |-> "backend", state |-> "pending", client |-> FALSE, ui |-> "none"]
IdleExtCall == [op |-> "none", pc |-> "idle", id |-> NoExt, seen |-> NoExtRow, beside |-> FALSE]

\* Rows, client and calls are well formed.
ExtensionTypeOK ==
    /\ extRow \in [ExtId -> Extension] /\ kcExt \in {"none", "enabled", "disabled"}
    /\ extCall \in [ExtCall ->
          [op : {"none", "Register", "Verify", "Rotate", "UnregisterBackend", "RegisterUi", "UnregisterUi"},
           pc : {"idle", "client", "tx", "undo", "handshake", "identity", "setClient", "ready", "degraded", "rotate", "disable", "delete"},
           id : ExtId \cup {NoExt}, seen : Extension, beside : BOOLEAN]]
    /\ extDoubt \in BOOLEAN /\ extAsked \in 0 .. MaxExtRequests /\ extFaults \in 0 .. MaxExtFaults

\* An empty registry, or a row from before extensions had clients.
ExtensionInit ==
    /\ \E old \in [ExtId -> {NoExtRow, [NoExtRow EXCEPT !.live = TRUE, !.used = TRUE]}] :
          /\ \A i, j \in ExtId : old[i].live /\ old[j].live => i = j
          /\ extRow = old
    /\ kcExt = "none" /\ extCall = [c \in ExtCall |-> IdleExtCall] /\ extDoubt = FALSE
    /\ extAsked = 0 /\ extFaults = 0

busy(c) == extCall[c] # IdleExtCall
extBoundsSame == UNCHANGED <<extAsked, extFaults>>
ExtGoto(c, pc) == extCall' = [extCall EXCEPT ![c].pc = pc]
ExtReturn(c) == extCall' = [extCall EXCEPT ![c] = IdleExtCall]
\* Calls that are in progress together know it.
BeginExt(c, call) ==
    /\ ~busy(c)
    /\ LET others == {d \in ExtCall \ {c} : busy(d)}
       IN extCall' = [d \in ExtCall |-> IF d = c THEN [call EXCEPT !.beside = others # {}]
                                        ELSE IF d \in others THEN [extCall[d] EXCEPT !.beside = TRUE] ELSE extCall[d]]
    /\ UNCHANGED <<extRow, kcExt, extDoubt, extFaults>>
\* A change of the client by a call that is not alone.
Doubtful(c) == extDoubt' = (extDoubt \/ extCall[c].beside)

-----------------------------------------------------------------------------
(* Rows *)

getByName == {i \in ExtId : extRow[i].live}
getExt(i) == extRow[i].live
\* The name is unique and so is the id.
createExt(row) ==
    /\ getByName = {}
    /\ \E i \in ExtId : ~extRow[i].used /\ extRow' = [extRow EXCEPT ![i] = [row EXCEPT !.live = TRUE, !.used = TRUE]]
setState(i, s) == extRow' = [extRow EXCEPT ![i].state = IF extRow[i].live THEN s ELSE @]
setClientID(i) == extRow' = [extRow EXCEPT ![i].client = extRow[i].live]
setUi(i, ui) == extRow' = [extRow EXCEPT ![i].ui = IF extRow[i].live THEN ui ELSE @]
deleteExt(i) == extRow' = [extRow EXCEPT ![i] = [NoExtRow EXCEPT !.used = TRUE]]

-----------------------------------------------------------------------------
(* Registration *)

ExtensionClientSpec == "enabled"
CreatesExtClient == kcExt' = ExtensionClientSpec
DisablesExtClient == kcExt' = IF kcExt = "none" THEN "none" ELSE "disabled"
Register(c) == getByName = {} /\ BeginExt(c, [IdleExtCall EXCEPT !.op = "Register", !.pc = "client"])
RegisterClient(c) ==
    /\ extCall[c].op = "Register" /\ extCall[c].pc = "client" /\ CreatesExtClient /\ ExtGoto(c, "tx")
    /\ UNCHANGED <<extRow, extDoubt>> /\ extBoundsSame
\* Mutant: a conflict is undone like any other failure.
RegisterTxUndoes(c) ==
    /\ extCall[c].op = "Register" /\ extCall[c].pc = "tx" /\ UNCHANGED <<kcExt, extDoubt>> /\ extBoundsSame
    /\ \/ createExt([NoExtRow EXCEPT !.client = TRUE]) /\ ExtReturn(c)
       \/ getByName # {} /\ extCall' = [extCall EXCEPT ![c].pc = "undo", ![c].beside = FALSE] /\ UNCHANGED extRow
\* A conflict means that another registration owns the client: it is left alone, also
\* when the name went to a UI that has no client.
RegisterTx(c) ==
    /\ extCall[c].op = "Register" /\ extCall[c].pc = "tx" /\ ExtReturn(c) /\ UNCHANGED kcExt /\ extBoundsSame
    /\ \/ createExt([NoExtRow EXCEPT !.client = TRUE]) /\ UNCHANGED extDoubt
       \/ \E i \in getByName : extDoubt' = (extDoubt \/ ~extRow[i].client) /\ UNCHANGED extRow
RegisterUndo(c) ==
    /\ extCall[c].pc = "undo" /\ DisablesExtClient /\ Doubtful(c) /\ ExtReturn(c)
    /\ UNCHANGED extRow /\ extBoundsSame

-----------------------------------------------------------------------------
(* Handshake, identity of older rows, rotation *)

\* A UI has no endpoint to verify.
Verify(c, i) ==
    /\ getExt(i) /\ extRow[i].kind = "backend"
    /\ BeginExt(c, [IdleExtCall EXCEPT !.op = "Verify", !.pc = "handshake", !.id = i, !.seen = extRow[i]])
\* Mutant: ready as soon as the handshake succeeds.
VerifyHandshakeReady(c) ==
    /\ extCall[c].pc = "handshake" /\ UNCHANGED <<extRow, kcExt, extDoubt>> /\ extBoundsSame
    /\ ExtGoto(c, "degraded") \/ ExtGoto(c, "ready")
VerifyHandshake(c) ==
    /\ extCall[c].pc = "handshake" /\ UNCHANGED <<extRow, kcExt, extDoubt>> /\ extBoundsSame
    /\ ExtGoto(c, "degraded") \/ ExtGoto(c, IF extCall[c].seen.client THEN "ready" ELSE "identity")
ensureIdentity(c) ==
    /\ \/ extCall[c].pc = "identity" /\ CreatesExtClient /\ ExtGoto(c, "setClient") /\ UNCHANGED extRow
       \/ /\ extCall[c].pc = "setClient" /\ setClientID(extCall[c].id) /\ UNCHANGED kcExt
          /\ ExtGoto(c, IF extCall[c].op = "Verify" THEN "ready" ELSE "rotate")
    /\ Doubtful(c) /\ extBoundsSame
\* The row is read again; a call whose row is gone returns not found.
SetState(c) ==
    /\ extCall[c].pc \in {"ready", "degraded"} /\ setState(extCall[c].id, extCall[c].pc) /\ ExtReturn(c)
    /\ UNCHANGED <<kcExt, extDoubt>> /\ extBoundsSame
RotateIdentitySecret(c, i) ==
    getExt(i) /\ BeginExt(c, [IdleExtCall EXCEPT !.op = "Rotate", !.pc = IF extRow[i].client THEN "rotate" ELSE "identity", !.id = i, !.seen = extRow[i]])
RotatesSecret(c) ==
    /\ extCall[c].pc = "rotate" /\ ExtReturn(c) /\ UNCHANGED <<extRow, kcExt, extDoubt>> /\ extBoundsSame

-----------------------------------------------------------------------------
(* Removal *)

UnregisterBackend(c, i) == getExt(i) /\ BeginExt(c, [IdleExtCall EXCEPT !.op = "UnregisterBackend", !.pc = "disable", !.id = i, !.seen = extRow[i]])
disableIdentity(c) ==
    /\ extCall[c].pc = "disable" /\ ExtGoto(c, "delete") /\ UNCHANGED extRow
    /\ \/ /\ IF extCall[c].seen.client THEN DisablesExtClient ELSE UNCHANGED kcExt
          /\ Doubtful(c) /\ extBoundsSame
       \* a failure is logged and the row is removed all the same
       \/ /\ extCall[c].seen.client /\ extFaults < MaxExtFaults /\ extFaults' = extFaults + 1
          /\ extDoubt' = TRUE /\ UNCHANGED <<kcExt, extAsked>>
UnregisterTx(c) ==
    /\ extCall[c].pc = "delete" /\ extCall[c].op = "UnregisterBackend" /\ deleteExt(extCall[c].id) /\ ExtReturn(c)
    /\ UNCHANGED kcExt /\ Doubtful(c) /\ extBoundsSame

-----------------------------------------------------------------------------
(* UI descriptors *)

\* The descriptor that is written was decided on what was read: without a choice of the
\* caller, an update keeps the flag.
descriptorFor(choice, seen) == IF choice # "none" THEN choice ELSE IF seen.ui # "none" THEN seen.ui ELSE "enabled"
RegisterUi(c, choice) ==
    \/ /\ getByName = {}
       /\ BeginExt(c, [IdleExtCall EXCEPT !.op = "RegisterUi", !.pc = "tx", !.seen.ui = descriptorFor(choice, NoExtRow)])
    \/ \E i \in getByName :
          BeginExt(c, [IdleExtCall EXCEPT !.op = "RegisterUi", !.pc = "tx", !.id = i,
                                          !.seen = [extRow[i] EXCEPT !.ui = descriptorFor(choice, extRow[i])]])
RegisterUiTx(c) ==
    /\ extCall[c].op = "RegisterUi" /\ extCall[c].pc = "tx" /\ ExtReturn(c) /\ UNCHANGED <<kcExt, extDoubt>> /\ extBoundsSame
    /\ LET i == extCall[c].id  ui == extCall[c].seen.ui
       IN \/ i = NoExt /\ createExt([NoExtRow EXCEPT !.kind = "ui", !.state = "ready", !.ui = ui])
          \/ i = NoExt /\ getByName # {} /\ UNCHANGED extRow
          \/ i # NoExt /\ setUi(i, ui)
GetUi == {i \in getByName : extRow[i].ui # "none"}
UnregisterUi(c) ==
    \E i \in GetUi : BeginExt(c, [IdleExtCall EXCEPT !.op = "UnregisterUi", !.pc = "delete", !.id = i, !.seen = extRow[i]])
\* Mutant: the row goes whatever else it holds.
UnregisterUiTxDeletes(c) ==
    /\ extCall[c].op = "UnregisterUi" /\ deleteExt(extCall[c].id) /\ ExtReturn(c)
    /\ UNCHANGED <<kcExt, extDoubt>> /\ extBoundsSame
UnregisterUiTx(c) ==
    /\ extCall[c].op = "UnregisterUi" /\ ExtReturn(c) /\ UNCHANGED kcExt /\ extBoundsSame
    /\ IF extCall[c].seen.kind = "ui" THEN deleteExt(extCall[c].id) ELSE setUi(extCall[c].id, "none")
    \* the client that a rotation gave to a UI stays
    /\ extDoubt' = (extDoubt \/ (extCall[c].seen.kind = "ui" /\ extRow[extCall[c].id].client))

-----------------------------------------------------------------------------
(* Failures and routes *)

RegisterTxFails(c) ==
    /\ (extCall[c].op = "Register" /\ extCall[c].pc = "tx") \/ extCall[c].pc = "setClient"
    /\ ExtGoto(c, "undo")
    /\ extFaults < MaxExtFaults /\ extFaults' = extFaults + 1 /\ UNCHANGED <<extRow, kcExt, extDoubt, extAsked>>
ExtCallFails(c) ==
    /\ busy(c) /\ ExtReturn(c) /\ extDoubt' = TRUE
    /\ extFaults < MaxExtFaults /\ extFaults' = extFaults + 1 /\ UNCHANGED <<extRow, kcExt, extAsked>>
ExtStep(c) ==
    \/ RegisterClient(c) \/ RegisterTx(c) \/ RegisterUndo(c) \/ VerifyHandshake(c) \/ ensureIdentity(c) \/ SetState(c)
    \/ RotatesSecret(c) \/ disableIdentity(c) \/ UnregisterTx(c) \/ RegisterUiTx(c) \/ UnregisterUiTx(c)

authorizeExtensions(u) ==
    Authorized(u, "extensions_manage") /\ extAsked < MaxExtRequests /\ extAsked' = extAsked + 1
register(u, c) == authorizeExtensions(u) /\ Register(c)
verify(u, c) == authorizeExtensions(u) /\ \E i \in ExtId : Verify(c, i)
rotateIdentity(u, c) == authorizeExtensions(u) /\ \E i \in ExtId : RotateIdentitySecret(c, i)
unregister(u, c) == authorizeExtensions(u) /\ \E i \in ExtId : UnregisterBackend(c, i)
registerUi(u, c) == authorizeExtensions(u) /\ \E choice \in UiExtensionDescriptor : RegisterUi(c, choice)
unregisterUi(u, c) == authorizeExtensions(u) /\ UnregisterUi(c)
ExtensionRoutes(u, c) ==
    \/ register(u, c) \/ verify(u, c) \/ rotateIdentity(u, c) \/ unregister(u, c) \/ registerUi(u, c) \/ unregisterUi(u, c)

ExtensionNext ==
    \E c \in ExtCall :
       \/ ExtStep(c) \/ RegisterTxFails(c) \/ ExtCallFails(c)
       \/ \E u \in User : ExtensionRoutes(u, c)

-----------------------------------------------------------------------------
(* Properties *)

\* The proxy and the tunnel serve a backend that is ready: it has its own client,
\* whatever verifications, rotations and removals ran together.
ReadyHasClient == \A i \in getByName : extRow[i].kind = "backend" /\ extRow[i].state = "ready" => extRow[i].client

\* When nothing is in progress, the client of the name is on exactly if the row that
\* holds the name has one, also after two registrations raced and after a transaction
\* failed.  Excepted are calls that were cut short, revocations beside other calls, a
\* registration that lost its name to a UI, and a UI that was given a client.
ClientAgrees ==
    (\A c \in ExtCall : ~busy(c)) /\ ~extDoubt => ((kcExt = "enabled") <=> \E i \in getByName : extRow[i].client)

\* A row goes only by the removal of what it is: taking the UI of a backend away leaves
\* the backend, its state and its client.
UiLeavesBackend ==
    \A c \in ExtCall, i \in ExtId :
       extCall[c].op = "UnregisterUi" /\ extCall'[c] # extCall[c] /\ extRow[i].live /\ extRow[i].kind = "backend"
          => extRow'[i] = [extRow[i] EXCEPT !.ui = extRow'[i].ui]
=============================================================================
