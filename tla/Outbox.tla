------------------------------- MODULE Outbox -------------------------------
(***************************************************************************)
(* internal/audit: the transactional outbox.  Rows appended with their     *)
(* business transaction are relayed to the JetStream stream INARI_OUTBOX   *)
(* (Dispatcher.RelayOnce, one transaction per batch, several replicas) and *)
(* delivered to one durable consumer per handler (Dispatcher.deliver).     *)
(*                                                                         *)
(* JetStream is external and modelled from how the dispatcher configures   *)
(* it: publishes are deduplicated by Nats-Msg-Id inside a window, a        *)
(* message that is not acked in time is redelivered (possibly to another   *)
(* replica while the first is still handling it), and after MaxDeliver     *)
(* deliveries it is never delivered again.                                 *)
(***************************************************************************)
EXTENDS Integers, FiniteSets

CONSTANTS Event,               \* outbox row ids
          Handler,             \* named handlers (durable consumer groups)
          Replica,             \* server processes running the dispatcher
          Subscribed,          \* pairs <<h, e>>: h.handles(e.EventType)
          Batch,               \* Dispatcher.batch
          MaxPublishAttempts,  \* relay budget
          MaxDeliver,          \* consumer budget
          MaxCopies,           \* bound: copies of one event in the stream
          MaxFaults            \* bound: crashes, shutdowns, failed write-backs

ASSUME OutboxAssumption ==
    /\ Event \subseteq Nat /\ IsFiniteSet(Event)
    /\ Subscribed \subseteq Handler \X Event
    /\ Batch \in Nat \ {0} /\ MaxPublishAttempts \in Nat \ {0}
    /\ MaxDeliver \in Nat \ {0} /\ MaxCopies \in Nat \ {0} /\ MaxFaults \in Nat

VARIABLES row,        \* outbox row: absent, pending, published, dead
          attempts,   \* outbox.attempts
          lastError,  \* outbox.last_error is not empty
          claimed,    \* rows the relay transaction of a replica holds locked
          mark,       \* outcome of a claimed row in that transaction
          stored,     \* copies of the event in the stream
          inWindow,   \* the event's Nats-Msg-Id is in the dedup window
          cons,       \* consumer state of a copy: ready, out, acked
          delivered,  \* deliveries of a copy to a handler group
          work,       \* the delivery a replica's consumeLoop is handling
          handled,    \* the handler has succeeded on the event
          faults      \* crashes, shutdowns and failed write-backs still to come

vars == <<row, attempts, lastError, claimed, mark, stored, inWindow,
          cons, delivered, work, handled, faults>>
relayVars == <<claimed, mark>>
streamVars == <<stored, inWindow>>
consVars == <<cons, delivered, work, handled>>

Copy == 1 .. MaxCopies
Msg == Event \X Copy
Idle == [msg |-> <<0, 0>>, num |-> 0]    \* no delivery in hand
Delivery == [msg : Msg, num : 1 .. MaxDeliver]

TypeOK ==
    /\ row \in [Event -> {"absent", "pending", "published", "dead"}]
    /\ attempts \in [Event -> 0 .. MaxPublishAttempts]
    /\ lastError \in [Event -> BOOLEAN]
    /\ claimed \in [Replica -> SUBSET Event]
    /\ mark \in [Replica -> [Event -> {"none", "ok", "err"}]]
    /\ stored \in [Event -> 0 .. MaxCopies]
    /\ inWindow \in [Event -> BOOLEAN]
    /\ cons \in [Handler -> [Msg -> {"ready", "out", "acked"}]]
    /\ delivered \in [Handler -> [Msg -> 0 .. MaxDeliver]]
    /\ work \in [Handler -> [Replica -> Delivery \cup {Idle}]]
    /\ handled \in [Handler -> [Event -> BOOLEAN]]
    /\ faults \in 0 .. MaxFaults

Init ==
    /\ row = [e \in Event |-> "absent"]
    /\ attempts = [e \in Event |-> 0]
    /\ lastError = [e \in Event |-> FALSE]
    /\ claimed = [r \in Replica |-> {}]
    /\ mark = [r \in Replica |-> [e \in Event |-> "none"]]
    /\ stored = [e \in Event |-> 0]
    /\ inWindow = [e \in Event |-> FALSE]
    /\ cons = [h \in Handler |-> [m \in Msg |-> "ready"]]
    /\ delivered = [h \in Handler |-> [m \in Msg |-> 0]]
    /\ work = [h \in Handler |-> [r \in Replica |-> Idle]]
    /\ handled = [h \in Handler |-> [e \in Event |-> FALSE]]
    /\ faults = MaxFaults

-----------------------------------------------------------------------------
(* Write side *)

\* A business transaction commits its outbox row; ids grow.
AppendOutbox(e) ==
    /\ row[e] = "absent"
    /\ \A f \in Event : f < e => row[f] # "absent"
    /\ row' = [row EXCEPT ![e] = "pending"]
    /\ UNCHANGED <<attempts, lastError, relayVars, streamVars, consVars, faults>>

-----------------------------------------------------------------------------
(* Dispatcher.RelayOnce *)

Locked == UNION {claimed[r] : r \in Replica}

\* SELECT ... published_at IS NULL ORDER BY id LIMIT batch FOR UPDATE SKIP LOCKED
Claimable == {e \in Event : row[e] = "pending" /\ e \notin Locked}
FirstBatch == {e \in Claimable : Cardinality({f \in Claimable : f < e}) < Batch}

RelayClaim(r) ==
    /\ claimed[r] = {} /\ Claimable # {}
    /\ claimed' = [claimed EXCEPT ![r] = FirstBatch]
    /\ UNCHANGED <<row, attempts, lastError, mark, streamVars, consVars, faults>>

\* JetStream stores a publish unless its Nats-Msg-Id is in the window.
Store(e) ==
    IF inWindow[e] \/ stored[e] = MaxCopies
    THEN UNCHANGED streamVars
    ELSE /\ stored' = [stored EXCEPT ![e] = stored[e] + 1]
         /\ inWindow' = [inWindow EXCEPT ![e] = TRUE]

\* PublishAsync and its PubAck: acked; stored with the ack lost or late; or
\* not stored at all.
RelayPublish(r, e) ==
    /\ e \in claimed[r] /\ mark[r][e] = "none"
    /\ \/ Store(e) /\ mark' = [mark EXCEPT ![r][e] = "ok"]
       \/ Store(e) /\ mark' = [mark EXCEPT ![r][e] = "err"]
       \/ UNCHANGED streamVars /\ mark' = [mark EXCEPT ![r][e] = "err"]
    /\ UNCHANGED <<row, attempts, lastError, claimed, consVars, faults>>

EndTx(r) ==
    /\ claimed' = [claimed EXCEPT ![r] = {}]
    /\ mark' = [mark EXCEPT ![r] = [e \in Event |-> "none"]]

\* Mutant: failed publishes are not counted.
RelayCommitUncounted(r) ==
    LET ok == {e \in claimed[r] : mark[r][e] = "ok"}
    IN  /\ claimed[r] # {} /\ \A e \in claimed[r] : mark[r][e] # "none"
        /\ row' = [e \in Event |-> IF e \in ok THEN "published" ELSE row[e]]
        /\ EndTx(r)
        /\ UNCHANGED <<attempts, lastError, streamVars, consVars, faults>>

\* The batch transaction commits: acked rows are published and their error
\* cleared, the others count an attempt and are dead-lettered at the budget.
RelayCommit(r) ==
    LET ok == {e \in claimed[r] : mark[r][e] = "ok"}
        err == {e \in claimed[r] : mark[r][e] = "err"}
    IN  /\ claimed[r] # {} /\ claimed[r] = ok \cup err
        /\ row' = [e \in Event |->
               IF e \in ok THEN "published"
               ELSE IF e \in err /\ attempts[e] + 1 >= MaxPublishAttempts THEN "dead"
               ELSE row[e]]
        /\ attempts' = [e \in Event |-> IF e \in err THEN attempts[e] + 1 ELSE attempts[e]]
        /\ lastError' = [e \in Event |->
               IF e \in err THEN TRUE ELSE IF e \in ok THEN FALSE ELSE lastError[e]]
        /\ EndTx(r)
        /\ UNCHANGED <<streamVars, consVars, faults>>

\* A statement or the commit fails: WithTx rolls the batch back, with whatever
\* was published already in the stream.
RelayRollback(r) ==
    /\ claimed[r] # {} /\ faults > 0
    /\ faults' = faults - 1
    /\ EndTx(r)
    /\ UNCHANGED <<row, attempts, lastError, streamVars, consVars>>

-----------------------------------------------------------------------------
(* JetStream (external) *)

\* The dedup window (streamDedupWindow) passes for a row that is still pending.
WindowPasses(e) ==
    /\ inWindow[e] /\ row[e] = "pending"
    /\ inWindow' = [inWindow EXCEPT ![e] = FALSE]
    /\ UNCHANGED <<row, attempts, lastError, relayVars, stored, consVars, faults>>

InStream(m) == m[2] <= stored[m[1]]
Deliverable(h, m) == InStream(m) /\ cons[h][m] = "ready" /\ delivered[h][m] < MaxDeliver

\* A pull of consumeLoop hands m to replica r.
Deliver(h, r, m) ==
    /\ work[h][r] = Idle /\ Deliverable(h, m)
    /\ delivered' = [delivered EXCEPT ![h][m] = delivered[h][m] + 1]
    /\ cons' = [cons EXCEPT ![h][m] = "out"]
    /\ work' = [work EXCEPT ![h][r] = [msg |-> m, num |-> delivered[h][m] + 1]]
    /\ UNCHANGED <<row, attempts, lastError, relayVars, streamVars, handled, faults>>

\* No ack within the BackOff delay: the message is available again.
AckWaitExpires(h, m) ==
    /\ cons[h][m] = "out"
    /\ cons' = [cons EXCEPT ![h][m] = "ready"]
    /\ UNCHANGED <<row, attempts, lastError, relayVars, streamVars, delivered, work, handled, faults>>

-----------------------------------------------------------------------------
(* Dispatcher.deliver *)

\* Ack and Nak are fire-and-forget; an ack settles the message for good.
Ack(h, m) == cons' = [cons EXCEPT ![h][m] = "acked"]
Nak(h, m) == cons' = [cons EXCEPT ![h][m] = IF cons[h][m] = "acked" THEN "acked" ELSE "ready"]
LostAck(h, m) == UNCHANGED cons

Finish(h, r) ==
    /\ work' = [work EXCEPT ![h][r] = Idle]
    /\ UNCHANGED <<row, attempts, relayVars, streamVars, delivered>>

\* The handler does not subscribe to this event type.
Skip(h, r) ==
    LET m == work[h][r].msg
    IN  /\ work[h][r] # Idle /\ <<h, m[1]>> \notin Subscribed
        /\ Ack(h, m) \/ LostAck(h, m)
        /\ Finish(h, r)
        /\ UNCHANGED <<handled, lastError, faults>>

HandleOK(h, r) ==
    LET m == work[h][r].msg
    IN  /\ work[h][r] # Idle /\ <<h, m[1]>> \in Subscribed
        /\ handled' = [handled EXCEPT ![h][m[1]] = TRUE]
        /\ Ack(h, m) \/ LostAck(h, m)
        /\ Finish(h, r)
        /\ UNCHANGED <<lastError, faults>>

\* Mutant: a failing handler acks.
HandleRetryAcks(h, r) ==
    LET m == work[h][r].msg
    IN  /\ work[h][r] # Idle /\ <<h, m[1]>> \in Subscribed
        /\ work[h][r].num < MaxDeliver
        /\ Ack(h, m)
        /\ Finish(h, r)
        /\ UNCHANGED <<handled, lastError, faults>>

\* The handler fails with budget left: NakWithDelay.
HandleRetry(h, r) ==
    LET m == work[h][r].msg
    IN  /\ work[h][r] # Idle /\ <<h, m[1]>> \in Subscribed
        /\ work[h][r].num < MaxDeliver
        /\ Nak(h, m) \/ LostAck(h, m)
        /\ Finish(h, r)
        /\ UNCHANGED <<handled, lastError, faults>>

\* The handler fails on its last delivery: last_error is written back (the
\* write waits for a relay transaction that holds the row; its failure is
\* only logged), then the message is acked.
HandleDeadLetter(h, r) ==
    LET m == work[h][r].msg
    IN  /\ work[h][r] # Idle /\ <<h, m[1]>> \in Subscribed
        /\ work[h][r].num >= MaxDeliver
        /\ \/ m[1] \notin Locked /\ lastError' = [lastError EXCEPT ![m[1]] = TRUE]
              /\ UNCHANGED faults
           \/ faults > 0 /\ faults' = faults - 1 /\ UNCHANGED lastError
        /\ Ack(h, m) \/ LostAck(h, m)
        /\ Finish(h, r)
        /\ UNCHANGED handled

\* Graceful shutdown: the handler's error is reported as a Nak, and the relay
\* transaction is rolled back by its cancelled context.
Shutdown(r) ==
    /\ faults > 0 /\ faults' = faults - 1
    /\ cons' = [h \in Handler |-> [m \in Msg |->
           IF work[h][r].msg = m /\ cons[h][m] # "acked" THEN "ready" ELSE cons[h][m]]]
    /\ work' = [h \in Handler |-> [work[h] EXCEPT ![r] = Idle]]
    /\ EndTx(r)
    /\ UNCHANGED <<row, attempts, lastError, streamVars, delivered, handled>>

\* Process death: deliveries stay out until their ack wait expires.
Crash(r) ==
    /\ faults > 0 /\ faults' = faults - 1
    /\ work' = [h \in Handler |-> [work[h] EXCEPT ![r] = Idle]]
    /\ EndTx(r)
    /\ UNCHANGED <<row, attempts, lastError, streamVars, cons, delivered, handled>>

-----------------------------------------------------------------------------

Relay(r) == RelayClaim(r) \/ (\E e \in Event : RelayPublish(r, e)) \/ RelayCommit(r)
Handle(h, r) == Skip(h, r) \/ HandleOK(h, r) \/ HandleRetry(h, r) \/ HandleDeadLetter(h, r)

Next ==
    \/ \E e \in Event : AppendOutbox(e) \/ WindowPasses(e)
    \/ \E r \in Replica : Relay(r) \/ RelayRollback(r) \/ Shutdown(r) \/ Crash(r)
    \/ \E h \in Handler, m \in Msg : AckWaitExpires(h, m) \/ \E r \in Replica : Deliver(h, r, m)
    \/ \E h \in Handler, r \in Replica : Handle(h, r)

Spec == Init /\ [][Next]_vars

\* The relay and consumer loops run, JetStream redelivers what is not acked,
\* and a handler call returns; crashes and business transactions are free.
Fairness ==
    /\ \A r \in Replica : WF_vars(Relay(r))
    /\ \A h \in Handler, r \in Replica : WF_vars(Handle(h, r))
    /\ \A h \in Handler, m \in Msg :
        WF_vars(AckWaitExpires(h, m) \/ \E r \in Replica : Deliver(h, r, m))

FairSpec == Spec /\ Fairness

-----------------------------------------------------------------------------
(* Properties *)

Copies(e) == {m \in Msg : m[1] = e /\ InStream(m)}
InHand(h, m) == \E r \in Replica : work[h][r] # Idle /\ work[h][r].msg = m
\* The delivery budget of every copy of e is spent and nobody is handling it.
Exhausted(h, e) ==
    /\ Copies(e) # {}
    /\ \A m \in Copies(e) : delivered[h][m] = MaxDeliver /\ ~InHand(h, m)

\* At-least-once, across relay crashes between PubAck and commit, lost
\* PubAcks, redelivery races and restarts: a committed event a handler has not
\* processed is still pending, dead-lettered by the relay, deliverable or in
\* hand, unless all its MaxDeliver deliveries are used up.
NoLossWithinBudget ==
    \A h \in Handler, e \in Event :
        (<<h, e>> \in Subscribed /\ row[e] = "published") =>
            \/ handled[h][e]
            \/ \E m \in Copies(e) :
                  \/ cons[h][m] # "acked" /\ delivered[h][m] < MaxDeliver
                  \/ InHand(h, m)
                  \/ delivered[h][m] = MaxDeliver

\* Every committed event ends processed by each subscriber, or dead: the relay
\* gave up on it, or its delivery budget is spent.
EventuallySettled ==
    \A h \in Handler, e \in Event : <<h, e>> \in Subscribed =>
        []<>(row[e] = "absent" \/ handled[h][e] \/ row[e] = "dead" \/ Exhausted(h, e))

-----------------------------------------------------------------------------
(* Statements the code does not keep: TLC finds a counterexample of each  *)
(* (README, "What the code does not keep").                               *)

\* "One SQL query still finds all dead-letters": an event that exhausted its
\* budget unprocessed has last_error set on its row.
DeadLettersFindable ==
    \A h \in Handler, e \in Event :
        (<<h, e>> \in Subscribed /\ ~handled[h][e] /\ Exhausted(h, e)) => lastError[e]
=============================================================================
