---------------------------- MODULE AgentCommands ----------------------------
(***************************************************************************)
(* internal/agentgateway: the durable command queue of one cluster         *)
(* (queue.go), its dispatch by stream sessions (dispatchDue), the agent's  *)
(* answers (handleEvent), extension invocations that wait for them         *)
(* (extension.go) and the credential vault whose references an invocation  *)
(* carries (credentials.go); internal/inventory: what a failed             *)
(* registration and the agent's status reports do to an instance.          *)
(*                                                                         *)
(* The agent is external: it answers every delivery it receives, and may   *)
(* redeem the credential a delivery names before it does.                  *)
(***************************************************************************)
EXTENDS Integers, FiniteSets

CONSTANTS Cmd,         \* command ids
          Session,     \* stream sessions, possibly on different replicas
          NoCmd,       \* no command
          DueLimit,    \* commands one pass of dispatchDue reads (50)
          MaxLosses    \* bound: streams that end with deliveries unanswered

ASSUME CommandsAssumption == NoCmd \notin Cmd /\ MaxLosses \in Nat /\ DueLimit \in Nat \ {0}

VARIABLES kind,      \* agent_commands.type and payload, see Kind
          cmd,       \* agent_commands.status
          older,     \* agent_commands.created_at: the rows that were there before
          overdue,   \* delivered longer ago than retryAfter
          batch,     \* due commands a session has read and not sent yet
          sent,      \* the command a session has sent and not marked yet
          wire,      \* deliveries the agent has not answered
          holds,     \* the agent has redeemed the delivery's credential
          answers,   \* answers on their way to the server
          vault,     \* agent_command_credentials: none, minted, expired
          redeemed,  \* times the credential was handed out
          waiter,    \* awaitAck of the invocation
          done,      \* the agent has applied the command
          failing,   \* registrations answered with a failure, their instances not marked yet
          instance,  \* resource_instances.state of the registered instance
          losses     \* bound

queueVars == <<kind, cmd, older, overdue>>
sessionVars == <<batch, sent>>
agentSideVars == <<wire, holds, answers, done>>
vaultVars == <<vault, redeemed>>
instanceVars == <<failing, instance>>
commandVars == <<queueVars, sessionVars, agentSideVars, vaultVars, waiter, instanceVars, losses>>

Invoke == {c \in Cmd : kind[c] = "invoke"}
Register == {c \in Cmd : kind[c] = "register"}
Resync == {c \in Cmd : kind[c] = "resync"}
\* Commands whose payload is not the wrapped message the dispatch expects: what
\* the fleet manager and the rebinding of a cluster put into the queue.
Plain == {c \in Cmd : kind[c] = "plain"}
\* Commands with an id that handleEvent does not find again from the bare name
\* the agent answers with: removals of applications, bundles of policies.
Unresolved == {c \in Cmd : kind[c] = "unresolved"}
Kind == {"invoke", "register", "resync", "plain", "unresolved"}
Terminal == {"acked", "nacked"}
InstanceState == {"pending", "deploying", "upgrading", "running", "degraded", "failed"}

CommandsTypeOK ==
    /\ kind \in [Cmd -> Kind] /\ older \in [Cmd -> SUBSET Cmd]
    /\ cmd \in [Cmd -> {"absent", "pending", "delivered"} \cup Terminal]
    /\ overdue \in [Cmd -> BOOLEAN]
    /\ batch \in [Session -> SUBSET Cmd] /\ sent \in [Session -> Cmd \cup {NoCmd}]
    /\ wire \subseteq Cmd /\ holds \subseteq Cmd /\ done \subseteq Cmd
    /\ answers \subseteq Cmd \X Terminal
    /\ vault \in [Cmd -> {"none", "minted", "expired"}]
    /\ redeemed \in [Cmd -> Nat]
    /\ waiter \in [Cmd -> {"none", "waiting", "applied", "failed", "timeout"}]
    /\ failing \subseteq Cmd /\ instance \in [Cmd -> InstanceState]
    /\ losses \in 0 .. MaxLosses

CommandsInit ==
    /\ kind \in [Cmd -> Kind] /\ older = [c \in Cmd |-> {}]
    /\ cmd = [c \in Cmd |-> "absent"] /\ overdue = [c \in Cmd |-> FALSE]
    /\ batch = [s \in Session |-> {}] /\ sent = [s \in Session |-> NoCmd]
    /\ wire = {} /\ holds = {} /\ answers = {} /\ done = {}
    /\ vault = [c \in Cmd |-> "none"] /\ redeemed = [c \in Cmd |-> 0]
    /\ waiter = [c \in Cmd |-> "none"]
    /\ failing = {} /\ instance \in [Cmd -> {"deploying", "upgrading"}]
    /\ losses = 0

-----------------------------------------------------------------------------
(* Writers of the queue *)

\* Queue.Enqueue: ON CONFLICT (id) DO NOTHING.
Enqueue(c) ==
    /\ cmd' = [cmd EXCEPT ![c] = IF cmd[c] = "absent" THEN "pending" ELSE cmd[c]]
    /\ older' = [older EXCEPT ![c] = IF cmd[c] = "absent" THEN {d \in Cmd : cmd[d] # "absent"} ELSE @]
    /\ UNCHANGED <<kind, overdue>>

EnqueueCommand(c) ==
    /\ c \in Cmd \ Invoke /\ cmd[c] = "absent"
    /\ Enqueue(c)
    /\ UNCHANGED <<sessionVars, agentSideVars, vaultVars, waiter, instanceVars, losses>>

\* CredentialVault.MintWithRefTx
MintWithRefTx(c) == vault' = [vault EXCEPT ![c] = "minted"]

\* invokeExtension of an authenticated extension of the tenant on an active
\* cluster: without a raw token the command is enqueued; with one, command and
\* credential are written in one transaction.  The handler then waits.
invokeExtension(c) ==
    /\ waiter[c] = "none"
    /\ Enqueue(c)
    /\ MintWithRefTx(c) \/ UNCHANGED vault
    /\ waiter' = [waiter EXCEPT ![c] = "waiting"]
    /\ UNCHANGED <<sessionVars, agentSideVars, redeemed, instanceVars, losses>>

\* awaitAck: the row's terminal status, or the deadline.
awaitAck(c) ==
    /\ waiter[c] = "waiting"
    /\ \/ cmd[c] \in Terminal
          /\ waiter' = [waiter EXCEPT ![c] = IF cmd[c] = "acked" THEN "applied" ELSE "failed"]
       \/ cmd[c] \notin Terminal /\ waiter' = [waiter EXCEPT ![c] = "timeout"]
    /\ UNCHANGED <<queueVars, sessionVars, agentSideVars, vaultVars, instanceVars, losses>>

-----------------------------------------------------------------------------
(* session.dispatchDue *)

\* Mutant: a delivered command is never due again.
DueOnce == {c \in Cmd : cmd[c] = "pending"}
\* The rows to deliver: never sent, or sent and unanswered for retryAfter.
Due == {c \in Cmd : cmd[c] = "pending" \/ (cmd[c] = "delivered" /\ overdue[c])}

\* Queue.Due: the oldest of them, up to the limit.
Oldest == {c \in Due : Cardinality(older[c] \cap Due) < DueLimit}

DispatchRead(s) ==
    /\ batch[s] = {} /\ sent[s] = NoCmd /\ Due # {}
    /\ batch' = [batch EXCEPT ![s] = Oldest]
    /\ UNCHANGED <<queueVars, sent, agentSideVars, vaultVars, waiter, instanceVars, losses>>

\* A payload that cannot be decoded is skipped, and its row stays pending.
DispatchSkip(s) ==
    \E c \in batch[s] \cap Plain :
        /\ sent[s] = NoCmd
        /\ batch' = [batch EXCEPT ![s] = @ \ {c}]
        /\ UNCHANGED <<queueVars, sent, agentSideVars, vaultVars, waiter, instanceVars, losses>>

DispatchSend(s) ==
    \E c \in batch[s] \ Plain :
        /\ sent[s] = NoCmd
        /\ sent' = [sent EXCEPT ![s] = c]
        /\ batch' = [batch EXCEPT ![s] = @ \ {c}]
        /\ wire' = wire \cup {c}
        /\ UNCHANGED <<queueVars, holds, answers, done, vaultVars, waiter, instanceVars, losses>>

\* Queue.MarkDelivered: only a row that is still pending or delivered.
MarkDelivered(s) ==
    /\ sent[s] # NoCmd
    /\ IF cmd[sent[s]] \in {"pending", "delivered"}
       THEN /\ cmd' = [cmd EXCEPT ![sent[s]] = "delivered"]
            /\ overdue' = [overdue EXCEPT ![sent[s]] = FALSE]
            /\ UNCHANGED <<kind, older>>
       ELSE UNCHANGED queueVars
    /\ sent' = [sent EXCEPT ![s] = NoCmd]
    /\ UNCHANGED <<batch, agentSideVars, vaultVars, waiter, instanceVars, losses>>

\* The session ends between any two steps, and what was on the wire is lost
\* with its stream.
EndSession(s) ==
    /\ losses < MaxLosses /\ losses' = losses + 1
    /\ batch' = [batch EXCEPT ![s] = {}] /\ sent' = [sent EXCEPT ![s] = NoCmd]
    /\ wire' \in SUBSET wire /\ answers' \in SUBSET answers
    /\ holds' = holds \cap wire' /\ failing' \in SUBSET failing
    /\ UNCHANGED <<queueVars, done, vaultVars, waiter, instance>>

RetryAfter(c) ==
    /\ cmd[c] = "delivered" /\ ~overdue[c]
    /\ overdue' = [overdue EXCEPT ![c] = TRUE]
    /\ UNCHANGED <<kind, cmd, older, sessionVars, agentSideVars, vaultVars, waiter, instanceVars, losses>>

-----------------------------------------------------------------------------
(* The agent (external) and the credential vault *)

\* Mutant: the row survives its redemption.
RedeemKeepsRow(c) ==
    /\ c \in wire /\ c \notin holds /\ vault[c] = "minted"
    /\ UNCHANGED vault
    /\ redeemed' = [redeemed EXCEPT ![c] = @ + 1]
    /\ holds' = holds \cup {c}
    /\ UNCHANGED <<queueVars, sessionVars, wire, answers, done, waiter, instanceVars, losses>>
\* CredentialVault.Redeem for the bound cluster: the row is locked, found
\* unexpired, and deleted in the transaction that hands out the token.
Redeem(c) ==
    /\ c \in wire /\ c \notin holds /\ vault[c] = "minted"
    /\ vault' = [vault EXCEPT ![c] = "none"]
    /\ redeemed' = [redeemed EXCEPT ![c] = @ + 1]
    /\ holds' = holds \cup {c}
    /\ UNCHANGED <<queueVars, sessionVars, wire, answers, done, waiter, instanceVars, losses>>

\* The time to live of the credential passes, as does the invocation's wait.
ExpireCredential(c) ==
    /\ vault[c] = "minted"
    /\ vault' = [vault EXCEPT ![c] = "expired"]
    /\ UNCHANGED <<queueVars, sessionVars, agentSideVars, redeemed, waiter, instanceVars, losses>>

\* CredentialVault.Sweep
Sweep ==
    /\ \E c \in Invoke : vault[c] = "expired"
    /\ vault' = [c \in Cmd |-> IF vault[c] = "expired" THEN "none" ELSE vault[c]]
    /\ UNCHANGED <<queueVars, sessionVars, agentSideVars, redeemed, waiter, instanceVars, losses>>

\* The agent applies a delivery or fails, and answers; a resync request is
\* answered by the resync response.
AgentAnswers(c) ==
    /\ c \in wire
    /\ wire' = wire \ {c} /\ holds' = holds \ {c}
    /\ \/ answers' = answers \cup {<<c, "acked">>} /\ done' = done \cup {c}
       \/ answers' = answers \cup {<<c, "nacked">>} /\ UNCHANGED done
    /\ UNCHANGED <<queueVars, sessionVars, vaultVars, waiter, instanceVars, losses>>

-----------------------------------------------------------------------------
(* session.handleEvent: answers; internal/inventory *)

\* Mutant: every answer counts as applied.
CompleteOptimist(c, status) ==
    /\ cmd' = [cmd EXCEPT ![c] = "acked"]
    /\ UNCHANGED <<kind, older, overdue>>

\* Queue.Complete: whatever the row's status is.
Complete(c, status) ==
    /\ cmd' = [cmd EXCEPT ![c] = status]
    /\ UNCHANGED <<kind, older, overdue>>

\* The answer's name resolved to the row c, whose command it may not be.
CompleteResolved(c, status) ==
    /\ Complete(c, status)
    /\ failing' = IF status = "nacked" /\ c \in Register THEN failing \cup {c} ELSE failing

\* COMMAND_ACK and COMMAND_NACK.  The name the agent answers with is tried as an
\* id and behind the prefixes of registrations.  For a command with another
\* prefix it is no row's, or that of a registration of the same name.
HandleAck(c, status) ==
    /\ <<c, status>> \in answers /\ c \notin Resync
    /\ answers' = answers \ {<<c, status>>}
    /\ \/ c \notin Unresolved /\ CompleteResolved(c, status)
       \/ c \in Unresolved /\ \E d \in Register : cmd[d] # "absent" /\ CompleteResolved(d, status)
       \/ c \in Unresolved /\ UNCHANGED <<queueVars, failing>>
    /\ UNCHANGED <<sessionVars, wire, holds, done, vaultVars, waiter, instance, losses>>

\* Store.MarkFailed: only an instance that is not settled yet.
MarkFailed(c) ==
    instance' = [instance EXCEPT ![c] =
        IF @ \in {"deploying", "upgrading", "pending"} THEN "failed" ELSE @]

\* A failed registration fails its instance, in a statement of its own whose
\* error is only logged.
FailInstance(c) ==
    /\ c \in failing /\ failing' = failing \ {c}
    /\ MarkFailed(c) \/ UNCHANGED instance
    /\ UNCHANGED <<queueVars, sessionVars, agentSideVars, vaultVars, waiter, losses>>

\* Queue.CompletePendingByType, on RESYNC_RESPONSE: every open resync command.
CompletePendingByType(c, status) ==
    /\ <<c, status>> \in answers /\ c \in Resync
    /\ answers' = answers \ {<<c, status>>}
    /\ cmd' = [d \in Cmd |-> IF d \in Resync /\ cmd[d] \in {"pending", "delivered"}
                             THEN "acked" ELSE cmd[d]]
    /\ UNCHANGED <<kind, older, overdue, sessionVars, wire, holds, done, vaultVars, waiter, instanceVars, losses>>

\* mapHealth and mapSync: the enumerations of the agent's contract.
HealthStatus == {"HEALTHY", "PROGRESSING", "DEGRADED", "SUSPENDED", "MISSING", "UNSPECIFIED"}
SyncState == {"SYNCED", "OUT_OF_SYNC", "ERROR", "UNSPECIFIED"}
mapHealth(h) ==
    CASE h = "HEALTHY" -> "healthy" [] h = "PROGRESSING" -> "progressing"
      [] h = "DEGRADED" -> "degraded" [] h = "SUSPENDED" -> "suspended"
      [] h = "MISSING" -> "missing" [] OTHER -> "unknown"
mapSync(y) ==
    CASE y = "SYNCED" -> "synced" [] y = "OUT_OF_SYNC" -> "out_of_sync"
      [] y = "ERROR" -> "error" [] OTHER -> ""
mapStatusUpdate(h, y) == [health |-> mapHealth(h), sync |-> mapSync(y)]

deriveState(health) ==
    CASE health = "healthy" -> "running"
      [] health \in {"degraded", "missing"} -> "degraded"
      [] OTHER -> "deploying"
\* Healthy but not in sync is still on its way.
appInstanceState(health, sync) ==
    IF deriveState(health) = "running" /\ sync \notin {"", "synced"}
    THEN "deploying" ELSE deriveState(health)

\* Service.applyAppStatus: a report about the instance's own application.
applyAppStatus(c, upd) ==
    instance' = [instance EXCEPT ![c] = appInstanceState(upd.health, upd.sync)]
\* Service.ApplyStatus: a report about the application, or about the resource
\* the instance's row names; both exist once the registration was applied.
ApplyStatus(c) ==
    /\ c \in done
    /\ \E h \in HealthStatus, y \in SyncState :
          LET upd == mapStatusUpdate(h, y)
          IN \/ applyAppStatus(c, upd)
             \/ instance' = [instance EXCEPT ![c] = deriveState(upd.health)]
    /\ UNCHANGED <<queueVars, sessionVars, agentSideVars, vaultVars, waiter, failing, losses>>

-----------------------------------------------------------------------------

Dispatch(s) == DispatchRead(s) \/ DispatchSkip(s) \/ DispatchSend(s) \/ MarkDelivered(s)

CommandsNext ==
    \/ \E c \in Cmd : EnqueueCommand(c) \/ RetryAfter(c) \/ AgentAnswers(c)
    \/ \E c \in Invoke : invokeExtension(c) \/ awaitAck(c) \/ Redeem(c) \/ ExpireCredential(c)
    \/ Sweep
    \/ \E s \in Session : Dispatch(s) \/ EndSession(s)
    \/ \E c \in Cmd, status \in Terminal : HandleAck(c, status) \/ CompletePendingByType(c, status)
    \/ \E c \in Register : ApplyStatus(c)
    \/ \E c \in Cmd : FailInstance(c)

CommandsSpec == CommandsInit /\ [][CommandsNext]_commandVars

-----------------------------------------------------------------------------
(* Properties *)

\* An answered command stays answered and is not due again, though a session may
\* have read it as due, or sent it, before the answer was recorded.  A second
\* answer may still turn one outcome into the other (Queue.Complete).
AnsweredStaysAnswered ==
    [][\A c \in Cmd : cmd[c] \in Terminal => cmd'[c] \in Terminal]_commandVars

\* A credential is handed out at most once, over redeliveries of its command,
\* expiry and sweeps.
CredentialSingleUse == \A c \in Invoke : redeemed[c] <= 1

\* An extension is told that its action was applied only if the agent did so,
\* however often the command was delivered and answered.
AppliedMeansDone == \A c \in Invoke : waiter[c] = "applied" => c \in done

\* Rows that stay in the queue as the code stands: no answer reaches them.
Stuck == {c \in Plain \cup Unresolved : cmd[c] \notin Terminal \cup {"absent"}}

\* At-least-once: every command the agent can be sent and answer for is answered
\* in the end, over lost deliveries and answers, while fewer rows are stuck than
\* one pass reads.
QueuedIsAnswered ==
    \A c \in Cmd : []<>(\/ cmd[c] \in Terminal \cup {"absent"}
                       \/ c \in Plain \cup Unresolved \/ Cardinality(Stuck) >= DueLimit)

\* Not kept by the code: the queue's promise for every row, whoever put it there.
EveryCommandAnswered == \A c \in Cmd : []<>(cmd[c] \in Terminal \cup {"absent"})

\* Redelivery neither spends a credential twice nor makes an answer out of nothing.
CommandsSound == CredentialSingleUse /\ AppliedMeansDone

\* Every queued command is answered and stays so.
CommandsAnswered == AnsweredStaysAnswered /\ QueuedIsAnswered
=============================================================================
