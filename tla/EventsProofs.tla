---------------------------- MODULE EventsProofs ----------------------------
(***************************************************************************)
(* Proofs about Outbox, for every set of events, handlers and replicas and *)
(* every budget: type correctness, and that no committed event is lost     *)
(* while its delivery budget lasts.  Proofs about Fleet, for every set of  *)
(* clusters and workers and all stages: type correctness, that the state   *)
(* follows the machine, and that a stage never passes over a cluster whose *)
(* command was lost.  Proofs about ExtensionUi: type correctness, and that *)
(* an entry that is pinned is served as it was pinned.                     *)
(***************************************************************************)
EXTENDS Outbox, Fleet, ExtensionUi, FiniteSetTheorems, TLAPS

-----------------------------------------------------------------------------
(* Outbox: the inductive invariant *)

\* FOR UPDATE SKIP LOCKED: a row is in at most one relay transaction, and
\* stays pending until that transaction ends.
ClaimedOnce ==
    \A r \in Replica : \A e \in claimed[r] :
        row[e] = "pending" /\ \A s \in Replica : s # r => e \notin claimed[s]

\* A row that may still be relayed has a publish attempt left.
AttemptLeft == \A e \in Event : row[e] \in {"absent", "pending"} => attempts[e] < MaxPublishAttempts

\* A publish that was deduplicated, acked or recorded has left a copy.
PublishedIsStored ==
    \A e \in Event :
        /\ inWindow[e] => stored[e] >= 1
        /\ \A r \in Replica : mark[r][e] = "ok" => stored[e] >= 1
        /\ row[e] = "published" => stored[e] >= 1

\* A delivery in hand has been counted.
InHandCounted ==
    \A h \in Handler, r \in Replica :
        work[h][r] # Idle => work[h][r].num <= delivered[h][work[h][r].msg]

\* A copy is acked only by success or on the last delivery.
AckedForGood ==
    \A h \in Handler, m \in Msg :
        (<<h, m[1]>> \in Subscribed /\ cons[h][m] = "acked") =>
            handled[h][m[1]] \/ delivered[h][m] = MaxDeliver

OutboxInv == TypeOK /\ ClaimedOnce /\ AttemptLeft /\ PublishedIsStored /\ InHandCounted /\ AckedForGood

-----------------------------------------------------------------------------
(* Outbox: type correctness *)

\* Rows, stream copies and deliveries have elements to count with.
LEMMA OutboxConstants ==
  /\ 1 \in Copy /\ Copy \subseteq Nat /\ Idle \notin Delivery
  /\ \A e \in Event : <<e, 1>> \in Msg
  /\ \A m \in Msg : m[1] \in Event /\ m[2] \in Copy
BY OutboxAssumption DEF Copy, Msg, Idle, Delivery

\* Putting a publish in the stream keeps the counts of copies well typed.
LEMMA StoreType ==
  ASSUME TypeOK, NEW e \in Event, Store(e)
  PROVE  /\ stored' \in [Event -> 0 .. MaxCopies] /\ inWindow' \in [Event -> BOOLEAN]
         /\ \A f \in Event : stored'[f] >= stored[f]
         /\ PublishedIsStored => stored'[e] >= 1
         /\ \A f \in Event : inWindow'[f] => inWindow[f] \/ f = e
<1>1. MaxCopies \in Nat \ {0} /\ stored[e] \in 0 .. MaxCopies
  BY OutboxAssumption DEF TypeOK
<1>2. CASE inWindow[e] \/ stored[e] = MaxCopies
  BY <1>1, <1>2 DEF TypeOK, Store, streamVars, PublishedIsStored
<1>3. CASE ~(inWindow[e] \/ stored[e] = MaxCopies)
  <2>1. stored' = [stored EXCEPT ![e] = stored[e] + 1] /\ inWindow' = [inWindow EXCEPT ![e] = TRUE]
    BY <1>3 DEF Store
  <2>2. stored[e] + 1 \in 1 .. MaxCopies
    BY <1>1, <1>3
  <2>3. stored' \in [Event -> 0 .. MaxCopies] /\ stored'[e] >= 1
    BY <2>1, <2>2 DEF TypeOK
  <2>4. \A f \in Event : stored'[f] >= stored[f]
    BY <2>1 DEF TypeOK
  <2>5. inWindow' \in [Event -> BOOLEAN] /\ \A f \in Event : inWindow'[f] => inWindow[f] \/ f = e
    BY <2>1 DEF TypeOK
  <2>6. QED
    BY <2>3, <2>4, <2>5
<1>4. QED
  BY <1>2, <1>3

\* The end of a relay transaction.
LEMMA EndTxType ==
  ASSUME TypeOK, NEW r \in Replica, EndTx(r)
  PROVE  /\ claimed' \in [Replica -> SUBSET Event]
         /\ mark' \in [Replica -> [Event -> {"none", "ok", "err"}]]
BY DEF TypeOK, EndTx

\* An ack, a nak or its loss.
LEMMA AckType ==
  ASSUME TypeOK, NEW h \in Handler, NEW m \in Msg, Ack(h, m) \/ Nak(h, m) \/ LostAck(h, m)
  PROVE  cons' \in [Handler -> [Msg -> {"ready", "out", "acked"}]]
<1>1. CASE Ack(h, m)
  BY <1>1 DEF TypeOK, Ack
<1>2. CASE Nak(h, m)
  BY <1>2 DEF TypeOK, Nak
<1>3. CASE LostAck(h, m)
  BY <1>3 DEF TypeOK, LostAck
<1>4. QED
  BY <1>1, <1>2, <1>3

\* A replica that is handling something handles a delivery.
LEMMA InHandDelivery ==
  ASSUME TypeOK, NEW h \in Handler, NEW r \in Replica, work[h][r] # Idle
  PROVE  /\ work[h][r] \in Delivery
         /\ work[h][r].msg \in Msg /\ work[h][r].msg[1] \in Event
         /\ work[h][r].num \in 1 .. MaxDeliver
BY OutboxConstants DEF TypeOK, Delivery

\* Every step preserves the type invariant.
LEMMA OutboxTypePreserved ==
  ASSUME TypeOK, ClaimedOnce, AttemptLeft, [Next]_vars
  PROVE  TypeOK'
<1>1. CASE UNCHANGED vars
  BY <1>1 DEF vars, TypeOK
<1>2. ASSUME NEW e \in Event, AppendOutbox(e) \/ WindowPasses(e)
      PROVE  TypeOK'
  BY <1>2 DEF AppendOutbox, WindowPasses, TypeOK, relayVars, streamVars, consVars
<1>3. ASSUME NEW r \in Replica, RelayClaim(r)
      PROVE  TypeOK'
  BY <1>3 DEF RelayClaim, FirstBatch, Claimable, TypeOK, streamVars, consVars
<1>4. ASSUME NEW r \in Replica, NEW e \in Event, RelayPublish(r, e)
      PROVE  TypeOK'
  <2>1. stored' \in [Event -> 0 .. MaxCopies] /\ inWindow' \in [Event -> BOOLEAN]
    BY <1>4, StoreType DEF RelayPublish, TypeOK, streamVars
  <2>2. mark' \in [Replica -> [Event -> {"none", "ok", "err"}]]
    <3>1. \E v \in {"ok", "err"} : mark' = [mark EXCEPT ![r][e] = v]
      BY <1>4 DEF RelayPublish
    <3>2. QED
      BY <3>1 DEF TypeOK
  <2>3. QED
    BY <1>4, <2>1, <2>2 DEF RelayPublish, TypeOK, consVars
<1>5. ASSUME NEW r \in Replica, RelayCommit(r)
      PROVE  TypeOK'
  <2>1. claimed' \in [Replica -> SUBSET Event] /\ mark' \in [Replica -> [Event -> {"none", "ok", "err"}]]
    BY <1>5, EndTxType DEF RelayCommit
  <2>2. row' \in [Event -> {"absent", "pending", "published", "dead"}]
    BY <1>5 DEF RelayCommit, TypeOK
  <2>3. attempts' \in [Event -> 0 .. MaxPublishAttempts]
    <3>1. \A e \in claimed[r] : attempts[e] + 1 \in 0 .. MaxPublishAttempts
      BY OutboxAssumption DEF TypeOK, ClaimedOnce, AttemptLeft
    <3>2. QED
      BY <1>5, <3>1 DEF RelayCommit, TypeOK
  <2>4. lastError' \in [Event -> BOOLEAN]
    BY <1>5 DEF RelayCommit, TypeOK
  <2>5. QED
    BY <1>5, <2>1, <2>2, <2>3, <2>4 DEF RelayCommit, TypeOK, streamVars, consVars
<1>6. ASSUME NEW r \in Replica, RelayRollback(r)
      PROVE  TypeOK'
  BY <1>6, EndTxType, OutboxAssumption DEF RelayRollback, TypeOK, streamVars, consVars
<1>7. ASSUME NEW r \in Replica, Shutdown(r) \/ Crash(r)
      PROVE  TypeOK'
  <2>1. claimed' \in [Replica -> SUBSET Event] /\ mark' \in [Replica -> [Event -> {"none", "ok", "err"}]]
    BY <1>7, EndTxType DEF Shutdown, Crash
  <2>2. work' \in [Handler -> [Replica -> Delivery \cup {Idle}]]
    BY <1>7 DEF Shutdown, Crash, TypeOK
  <2>3. cons' \in [Handler -> [Msg -> {"ready", "out", "acked"}]]
    BY <1>7 DEF Shutdown, Crash, TypeOK
  <2>4. faults' \in 0 .. MaxFaults
    BY <1>7, OutboxAssumption DEF Shutdown, Crash, TypeOK
  <2>5. QED
    BY <1>7, <2>1, <2>2, <2>3, <2>4 DEF Shutdown, Crash, TypeOK, streamVars
<1>8. ASSUME NEW h \in Handler, NEW m \in Msg, AckWaitExpires(h, m)
      PROVE  TypeOK'
  BY <1>8 DEF AckWaitExpires, TypeOK, relayVars, streamVars
<1>9. ASSUME NEW h \in Handler, NEW m \in Msg, NEW r \in Replica, Deliver(h, r, m)
      PROVE  TypeOK'
  <2>1. delivered[h][m] + 1 \in 1 .. MaxDeliver
    BY <1>9, OutboxAssumption DEF Deliver, Deliverable, TypeOK
  <2>2. [msg |-> m, num |-> delivered[h][m] + 1] \in Delivery
    BY <2>1 DEF Delivery
  <2>3. work' \in [Handler -> [Replica -> Delivery \cup {Idle}]]
    BY <1>9, <2>2 DEF Deliver, TypeOK
  <2>4. delivered' \in [Handler -> [Msg -> 0 .. MaxDeliver]]
    BY <1>9, <2>1 DEF Deliver, TypeOK
  <2>5. QED
    BY <1>9, <2>3, <2>4 DEF Deliver, TypeOK, relayVars, streamVars
<1>10. ASSUME NEW h \in Handler, NEW r \in Replica, Handle(h, r)
       PROVE  TypeOK'
  <2>1. work[h][r] # Idle
    BY <1>10 DEF Handle, Skip, HandleOK, HandleRetry, HandleDeadLetter
  <2>2. cons' \in [Handler -> [Msg -> {"ready", "out", "acked"}]]
    BY <1>10, <2>1, InHandDelivery, AckType
       DEF Handle, Skip, HandleOK, HandleRetry, HandleDeadLetter
  <2>3. work' \in [Handler -> [Replica -> Delivery \cup {Idle}]]
    <3>1. work' = [work EXCEPT ![h][r] = Idle]
      BY <1>10 DEF Handle, Skip, HandleOK, HandleRetry, HandleDeadLetter, Finish
    <3>2. QED
      BY <3>1 DEF TypeOK
  <2>4. handled' \in [Handler -> [Event -> BOOLEAN]]
    <3>1. \/ UNCHANGED handled
          \/ handled' = [handled EXCEPT ![h][work[h][r].msg[1]] = TRUE]
      BY <1>10 DEF Handle, Skip, HandleOK, HandleRetry, HandleDeadLetter
    <3>2. handled \in [Handler -> [Event -> BOOLEAN]]
      BY DEF TypeOK
    <3> DEFINE g == [handled[h] EXCEPT ![work[h][r].msg[1]] = TRUE]
    <3>3. g \in [Event -> BOOLEAN]
      BY <3>2
    <3>4. handled' = handled \/ handled' = [handled EXCEPT ![h] = g]
      BY <3>1, <3>2
    <3> HIDE DEF g
    <3>5. QED
      BY <3>2, <3>3, <3>4
  <2>5. lastError' \in [Event -> BOOLEAN]
    <3>1. \/ UNCHANGED lastError
          \/ lastError' = [lastError EXCEPT ![work[h][r].msg[1]] = TRUE]
      BY <1>10 DEF Handle, Skip, HandleOK, HandleRetry, HandleDeadLetter
    <3>2. QED
      BY <3>1 DEF TypeOK
  <2>6. faults' \in 0 .. MaxFaults
    BY <1>10, OutboxAssumption
       DEF Handle, Skip, HandleOK, HandleRetry, HandleDeadLetter, TypeOK
  <2>7. UNCHANGED <<row, attempts, claimed, mark, stored, inWindow, delivered>>
    BY <1>10 DEF Handle, Skip, HandleOK, HandleRetry, HandleDeadLetter, Finish, relayVars, streamVars
  <2>8. QED
    BY <2>2, <2>3, <2>4, <2>5, <2>6, <2>7 DEF TypeOK
<1>11. QED
  BY <1>1, <1>2, <1>3, <1>4, <1>5, <1>6, <1>7, <1>8, <1>9, <1>10 DEF Next, Relay

-----------------------------------------------------------------------------
(* Outbox: the relay *)

\* The rows a relay transaction leaves to be claimed by others.
LEMMA EndTxClaims ==
  ASSUME TypeOK, ClaimedOnce, NEW r \in Replica, EndTx(r),
         \A e \in Event : e \notin claimed[r] => row'[e] = row[e]
  PROVE  ClaimedOnce'
<1>1. claimed'[r] = {} /\ \A s \in Replica : s # r => claimed'[s] = claimed[s]
  BY DEF EndTx, TypeOK
<1>2. \A s \in Replica : \A e \in claimed'[s] :
          /\ s # r /\ e \in claimed[s] /\ e \notin claimed[r] /\ e \in Event
  BY <1>1 DEF ClaimedOnce, TypeOK
<1>3. QED
  BY <1>1, <1>2 DEF ClaimedOnce

\* Every step keeps claims exclusive: SKIP LOCKED, and rows that only their
\* relay transaction moves on.
LEMMA ClaimedOncePreserved ==
  ASSUME TypeOK, ClaimedOnce, [Next]_vars
  PROVE  ClaimedOnce'
<1>1. CASE UNCHANGED <<row, claimed>>
  BY <1>1 DEF ClaimedOnce
<1>2. ASSUME NEW e \in Event, AppendOutbox(e)
      PROVE  ClaimedOnce'
  BY <1>2 DEF AppendOutbox, relayVars, ClaimedOnce, TypeOK
<1>3. ASSUME NEW r \in Replica, RelayClaim(r)
      PROVE  ClaimedOnce'
  <2>1. \A s \in Replica : claimed'[s] = IF s = r THEN FirstBatch ELSE claimed[s]
    BY <1>3 DEF RelayClaim, TypeOK
  <2>2. \A e \in FirstBatch : row[e] = "pending" /\ \A s \in Replica : e \notin claimed[s]
    BY DEF FirstBatch, Claimable, Locked
  <2>3. row' = row
    BY <1>3 DEF RelayClaim
  <2>4. QED
    BY <2>1, <2>2, <2>3 DEF ClaimedOnce
<1>4. ASSUME NEW r \in Replica, RelayCommit(r)
      PROVE  ClaimedOnce'
  <2>1. \A e \in Event : e \notin claimed[r] => row'[e] = row[e]
    BY <1>4 DEF RelayCommit
  <2>2. QED
    BY <1>4, <2>1, EndTxClaims DEF RelayCommit
<1>5. ASSUME NEW r \in Replica, RelayRollback(r) \/ Shutdown(r) \/ Crash(r)
      PROVE  ClaimedOnce'
  BY <1>5, EndTxClaims DEF RelayRollback, Shutdown, Crash
<1>6. QED
  BY <1>1, <1>2, <1>3, <1>4, <1>5
     DEF Next, vars, Relay, Handle, WindowPasses, RelayPublish, AckWaitExpires, Deliver, Skip,
         HandleOK, HandleRetry, HandleDeadLetter, Finish, relayVars

\* Every step leaves an attempt to a row that may still be relayed: the last
\* failure makes it dead.
LEMMA AttemptLeftPreserved ==
  ASSUME TypeOK, AttemptLeft, [Next]_vars
  PROVE  AttemptLeft'
<1>1. CASE UNCHANGED <<row, attempts>>
  BY <1>1 DEF AttemptLeft
<1>2. ASSUME NEW e \in Event, AppendOutbox(e)
      PROVE  AttemptLeft'
  BY <1>2 DEF AppendOutbox, AttemptLeft, TypeOK
<1>3. ASSUME NEW r \in Replica, RelayCommit(r)
      PROVE  AttemptLeft'
  <2> SUFFICES ASSUME NEW e \in Event, row'[e] \in {"absent", "pending"}
               PROVE  attempts'[e] < MaxPublishAttempts
    BY DEF AttemptLeft
  <2>1. attempts[e] \in Nat /\ MaxPublishAttempts \in Nat
    BY OutboxAssumption DEF TypeOK
  <2>2. CASE e \in claimed[r] /\ mark[r][e] = "err"
    BY <1>3, <2>1, <2>2 DEF RelayCommit
  <2>3. CASE e \in claimed[r] /\ mark[r][e] = "ok"
    BY <1>3, <2>3 DEF RelayCommit
  <2>4. CASE e \notin claimed[r]
    BY <1>3, <2>4 DEF RelayCommit, AttemptLeft
  <2>5. QED
    BY <1>3, <2>2, <2>3, <2>4 DEF RelayCommit
<1>4. QED
  BY <1>1, <1>2, <1>3
     DEF Next, vars, Relay, Handle, WindowPasses, RelayClaim, RelayPublish, RelayRollback, Shutdown,
         Crash, AckWaitExpires, Deliver, Skip, HandleOK, HandleRetry, HandleDeadLetter, Finish

\* Every step keeps a copy of what was published: the stream forgets nothing,
\* and a publish counts only when a copy is there.
LEMMA PublishedIsStoredPreserved ==
  ASSUME TypeOK, PublishedIsStored, [Next]_vars
  PROVE  PublishedIsStored'
<1>1. CASE UNCHANGED <<row, mark, stored, inWindow>>
  BY <1>1 DEF PublishedIsStored
<1>2. ASSUME NEW e \in Event, AppendOutbox(e) \/ WindowPasses(e)
      PROVE  PublishedIsStored'
  BY <1>2 DEF AppendOutbox, WindowPasses, PublishedIsStored, TypeOK, relayVars, streamVars
<1>3. ASSUME NEW r \in Replica, NEW e \in Event, RelayPublish(r, e)
      PROVE  PublishedIsStored'
  <2>1. \/ Store(e) /\ \E v \in {"ok", "err"} : mark' = [mark EXCEPT ![r][e] = v]
        \/ UNCHANGED streamVars /\ mark' = [mark EXCEPT ![r][e] = "err"]
    BY <1>3 DEF RelayPublish
  <2>2. row' = row
    BY <1>3 DEF RelayPublish
  <2>3. ASSUME NEW f \in Event, NEW s \in Replica, mark'[s][f] = "ok"
        PROVE  mark[s][f] = "ok" \/ (f = e /\ Store(e))
    <3>1. \/ Store(e) /\ mark' = [mark EXCEPT ![r][e] = "ok"]
          \/ mark' = [mark EXCEPT ![r][e] = "err"]
      BY <2>1
    <3>2. CASE mark' = [mark EXCEPT ![r][e] = "err"]
      BY <2>3, <3>2 DEF TypeOK
    <3>3. CASE mark' = [mark EXCEPT ![r][e] = "ok"]
      <4>1. (s = r /\ f = e) \/ mark'[s][f] = mark[s][f]
        BY <3>3 DEF TypeOK
      <4>2. QED
        BY <2>3, <3>1, <3>2, <4>1
    <3>4. QED
      BY <3>1, <3>2, <3>3
  <2>4. CASE Store(e)
    <3>1. stored'[e] >= 1 /\ \A f \in Event : stored'[f] >= stored[f]
      BY <2>4, StoreType
    <3>2. \A f \in Event : stored[f] \in Nat /\ stored'[f] \in Nat
      BY <2>4, StoreType DEF TypeOK
    <3>3. ASSUME NEW f \in Event, stored[f] >= 1
          PROVE  stored'[f] >= 1
      BY <3>1, <3>2, <3>3
    <3>4. \A f \in Event : inWindow'[f] => inWindow[f] \/ f = e
      BY <2>4, StoreType
    <3>5. QED
      BY <2>2, <2>3, <3>1, <3>3, <3>4 DEF PublishedIsStored
  <2>5. CASE ~Store(e)
    BY <2>1, <2>2, <2>3, <2>5 DEF PublishedIsStored, streamVars
  <2>6. QED
    BY <2>4, <2>5
<1>4. ASSUME NEW r \in Replica, EndTx(r), UNCHANGED <<row, stored, inWindow>>
      PROVE  PublishedIsStored'
  <2>1. \A s \in Replica, e \in Event : mark'[s][e] = "ok" => mark[s][e] = "ok"
    BY <1>4 DEF EndTx, TypeOK
  <2>2. QED
    BY <1>4, <2>1 DEF PublishedIsStored
<1>5. ASSUME NEW r \in Replica, RelayCommit(r)
      PROVE  PublishedIsStored'
  <2>1. \A s \in Replica, e \in Event : mark'[s][e] = "ok" => mark[s][e] = "ok"
    BY <1>5 DEF RelayCommit, EndTx, TypeOK
  <2>2. \A e \in Event : row'[e] = "published" => row[e] = "published" \/ mark[r][e] = "ok"
    BY <1>5 DEF RelayCommit
  <2>3. UNCHANGED <<stored, inWindow>>
    BY <1>5 DEF RelayCommit, streamVars
  <2>4. QED
    BY <2>1, <2>2, <2>3 DEF PublishedIsStored
<1>6. QED
  BY <1>1, <1>2, <1>3, <1>4, <1>5
     DEF Next, vars, Relay, Handle, RelayClaim, RelayRollback, Shutdown, Crash, AckWaitExpires,
         Deliver, Skip, HandleOK, HandleRetry, HandleDeadLetter, Finish, relayVars, streamVars

-----------------------------------------------------------------------------
(* Outbox: the consumers *)

\* Putting a delivery down leaves the other replicas' in hand.
LEMMA FinishCounts ==
  ASSUME TypeOK, InHandCounted, NEW h \in Handler, NEW r \in Replica, Finish(h, r)
  PROVE  InHandCounted'
<1>1. \A g \in Handler, s \in Replica : work'[g][s] = IF g = h /\ s = r THEN Idle ELSE work[g][s]
  BY DEF Finish, TypeOK
<1>2. delivered' = delivered
  BY DEF Finish
<1>3. QED
  BY <1>1, <1>2 DEF InHandCounted

\* Every step keeps the deliveries in hand counted, whichever replica has them.
LEMMA InHandCountedPreserved ==
  ASSUME TypeOK, InHandCounted, [Next]_vars
  PROVE  InHandCounted'
<1>1. CASE UNCHANGED <<work, delivered>>
  BY <1>1 DEF InHandCounted
<1>2. ASSUME NEW r \in Replica, Shutdown(r) \/ Crash(r)
      PROVE  InHandCounted'
  <2>1. \A g \in Handler, s \in Replica : work'[g][s] = IF s = r THEN Idle ELSE work[g][s]
    BY <1>2 DEF Shutdown, Crash, TypeOK
  <2>2. delivered' = delivered
    BY <1>2 DEF Shutdown, Crash
  <2>3. QED
    BY <2>1, <2>2 DEF InHandCounted
<1>3. ASSUME NEW h \in Handler, NEW m \in Msg, NEW r \in Replica, Deliver(h, r, m)
      PROVE  InHandCounted'
  <2> SUFFICES ASSUME NEW g \in Handler, NEW s \in Replica, work'[g][s] # Idle
               PROVE  work'[g][s].num <= delivered'[g][work'[g][s].msg]
    BY DEF InHandCounted
  <2>1. delivered[h][m] \in Nat
    BY DEF TypeOK
  <2>2. CASE g = h /\ s = r
    <3>1. work'[g][s] = [msg |-> m, num |-> delivered[h][m] + 1]
      BY <1>3, <2>2 DEF Deliver, TypeOK
    <3>2. delivered'[g][m] = delivered[h][m] + 1
      BY <1>3, <2>2 DEF Deliver, TypeOK
    <3>3. QED
      BY <2>1, <3>1, <3>2
  <2>3. CASE ~(g = h /\ s = r)
    <3>1. work'[g][s] = work[g][s]
      BY <1>3, <2>3 DEF Deliver, TypeOK
    <3> DEFINE k == work[g][s].msg
    <3>2. k \in Msg /\ work[g][s].num \in Nat /\ work[g][s].num <= delivered[g][k]
      BY <3>1, InHandDelivery DEF InHandCounted
    <3>3. delivered[g][k] \in Nat /\ (delivered'[g][k] = delivered[g][k] \/ delivered'[g][k] = delivered[g][k] + 1)
      BY <1>3, <3>2 DEF Deliver, TypeOK
    <3>4. QED
      BY <3>1, <3>2, <3>3
  <2>4. QED
    BY <2>2, <2>3
<1>4. ASSUME NEW h \in Handler, NEW r \in Replica, Handle(h, r)
      PROVE  InHandCounted'
  BY <1>4, FinishCounts DEF Handle, Skip, HandleOK, HandleRetry, HandleDeadLetter
<1>5. QED
  BY <1>1, <1>2, <1>3, <1>4
     DEF Next, vars, Relay, AppendOutbox, WindowPasses, RelayClaim, RelayPublish, RelayCommit,
         RelayRollback, AckWaitExpires, consVars

\* An answer to one delivery acks at most that copy.
LEMMA AnswerAcks ==
  ASSUME TypeOK, NEW h \in Handler, NEW m \in Msg, Ack(h, m) \/ Nak(h, m) \/ LostAck(h, m),
         NEW g \in Handler, NEW k \in Msg, cons'[g][k] = "acked"
  PROVE  cons[g][k] = "acked" \/ (g = h /\ k = m /\ ~Nak(h, m))
<1>1. CASE cons' = [cons EXCEPT ![h][m] = cons'[h][m]] /\ ~(g = h /\ k = m)
  BY <1>1 DEF TypeOK
<1>2. CASE Nak(h, m) /\ g = h /\ k = m
  BY <1>2 DEF Nak, TypeOK
<1>3. cons' = cons \/ cons' = [cons EXCEPT ![h][m] = cons'[h][m]]
  BY DEF Ack, Nak, LostAck, TypeOK
<1>4. QED
  BY <1>1, <1>2, <1>3

\* Every step keeps acked copies settled: nothing but success and the last
\* delivery acks a copy for a subscriber.
LEMMA AckedForGoodPreserved ==
  ASSUME TypeOK, InHandCounted, AckedForGood, [Next]_vars
  PROVE  AckedForGood'
<1>1. CASE UNCHANGED <<cons, delivered, handled>>
  BY <1>1 DEF AckedForGood
<1>2. ASSUME NEW r \in Replica, Shutdown(r) \/ Crash(r)
      PROVE  AckedForGood'
  <2>1. \A h \in Handler, m \in Msg : cons'[h][m] = "acked" => cons[h][m] = "acked"
    BY <1>2 DEF Shutdown, Crash, TypeOK
  <2>2. UNCHANGED <<delivered, handled>>
    BY <1>2 DEF Shutdown, Crash
  <2>3. QED
    BY <2>1, <2>2 DEF AckedForGood
<1>3. ASSUME NEW h \in Handler, NEW m \in Msg, AckWaitExpires(h, m)
      PROVE  AckedForGood'
  <2>1. \A g \in Handler, k \in Msg : cons'[g][k] = "acked" => cons[g][k] = "acked"
    BY <1>3 DEF AckWaitExpires, TypeOK
  <2>2. QED
    BY <1>3, <2>1 DEF AckWaitExpires, AckedForGood
<1>4. ASSUME NEW h \in Handler, NEW m \in Msg, NEW r \in Replica, Deliver(h, r, m)
      PROVE  AckedForGood'
  <2>1. \A g \in Handler, k \in Msg : cons'[g][k] = "acked" =>
            cons[g][k] = "acked" /\ delivered'[g][k] = delivered[g][k]
    BY <1>4 DEF Deliver, TypeOK
  <2>2. handled' = handled
    BY <1>4 DEF Deliver
  <2>3. QED
    BY <2>1, <2>2 DEF AckedForGood
<1>5. ASSUME NEW h \in Handler, NEW r \in Replica, Handle(h, r)
      PROVE  AckedForGood'
  <2> DEFINE m == work[h][r].msg
  <2> SUFFICES ASSUME NEW g \in Handler, NEW k \in Msg, <<g, k[1]>> \in Subscribed, cons'[g][k] = "acked"
               PROVE  handled'[g][k[1]] \/ delivered'[g][k] = MaxDeliver
    BY DEF AckedForGood
  <2>1. work[h][r] # Idle /\ delivered' = delivered
    BY <1>5 DEF Handle, Skip, HandleOK, HandleRetry, HandleDeadLetter, Finish
  <2>2. m \in Msg /\ m[1] \in Event /\ work[h][r].num \in 1 .. MaxDeliver
    BY <2>1, InHandDelivery
  <2>3. k[1] \in Event
    BY DEF Msg
  <2>4. handled[g][k[1]] => handled'[g][k[1]]
    <3>1. handled' = handled \/ handled' = [handled EXCEPT ![h][m[1]] = TRUE]
      BY <1>5 DEF Handle, Skip, HandleOK, HandleRetry, HandleDeadLetter
    <3> DEFINE hh == [handled[h] EXCEPT ![m[1]] = TRUE]
    <3>2. handled \in [Handler -> [Event -> BOOLEAN]] /\ handled[h] \in [Event -> BOOLEAN]
      BY DEF TypeOK
    <3>3. handled' = handled \/ handled' = [handled EXCEPT ![h] = hh]
      BY <3>1
    <3>4. handled[h][k[1]] => hh[k[1]]
      BY <2>3, <3>2
    <3> HIDE DEF hh
    <3>5. handled' = [handled EXCEPT ![h] = hh] => handled'[g] = IF g = h THEN hh ELSE handled[g]
      BY <3>2
    <3>6. QED
      BY <3>3, <3>4, <3>5
  <2>5. CASE cons[g][k] = "acked"
    BY <2>1, <2>4, <2>5 DEF AckedForGood
  <2>6. CASE cons[g][k] # "acked"
    <3>1. Ack(h, m) \/ Nak(h, m) \/ LostAck(h, m)
      BY <1>5 DEF Handle, Skip, HandleOK, HandleRetry, HandleDeadLetter
    <3>2. g = h /\ k = m /\ ~Nak(h, m)
      BY <2>2, <2>6, <3>1, AnswerAcks
    <3>3. Skip(h, r) => FALSE
      BY <3>2 DEF Skip
    <3>4. HandleRetry(h, r) => FALSE
      BY <2>6, <3>2 DEF HandleRetry, LostAck
    <3>5. CASE HandleOK(h, r)
      <4>1. handled' = [handled EXCEPT ![h][m[1]] = TRUE]
        BY <3>5 DEF HandleOK
      <4>2. QED
        BY <2>2, <3>2, <4>1 DEF TypeOK
    <3>6. CASE HandleDeadLetter(h, r)
      <4>1. work[h][r].num >= MaxDeliver /\ work[h][r].num <= delivered[h][m]
        BY <2>1, <3>6 DEF HandleDeadLetter, InHandCounted
      <4>2. delivered[h][m] \in 0 .. MaxDeliver /\ MaxDeliver \in Nat
        BY <2>2, OutboxAssumption DEF TypeOK
      <4>3. QED
        BY <2>1, <2>2, <3>2, <4>1, <4>2
    <3>7. QED
      BY <1>5, <3>3, <3>4, <3>5, <3>6 DEF Handle
  <2>7. QED
    BY <2>5, <2>6
<1>6. QED
  BY <1>1, <1>2, <1>3, <1>4, <1>5
     DEF Next, vars, Relay, AppendOutbox, WindowPasses, RelayClaim, RelayPublish, RelayCommit,
         RelayRollback, consVars

-----------------------------------------------------------------------------
(* Outbox: theorems *)

\* A subscribed event that was published has a copy in the stream that is
\* handled, deliverable, or out of deliveries.
LEMMA OutboxInvNoLoss ==
  ASSUME OutboxInv
  PROVE  NoLossWithinBudget
<1> SUFFICES ASSUME NEW h \in Handler, NEW e \in Event, <<h, e>> \in Subscribed, row[e] = "published"
             PROVE  \/ handled[h][e]
                    \/ \E m \in Copies(e) : \/ cons[h][m] # "acked" /\ delivered[h][m] < MaxDeliver
                                            \/ InHand(h, m)
                                            \/ delivered[h][m] = MaxDeliver
  BY DEF NoLossWithinBudget
<1> DEFINE m == <<e, 1>>
<1>1. m \in Msg /\ m \in Copies(e)
  BY OutboxConstants DEF OutboxInv, PublishedIsStored, Copies, InStream
<1>2. delivered[h][m] \in 0 .. MaxDeliver /\ MaxDeliver \in Nat
  BY <1>1, OutboxAssumption DEF OutboxInv, TypeOK
<1>3. CASE cons[h][m] = "acked"
  BY <1>1, <1>3 DEF OutboxInv, AckedForGood
<1>4. CASE cons[h][m] # "acked"
  BY <1>1, <1>2, <1>4
<1>5. QED
  BY <1>3, <1>4

\* A server that has just been installed satisfies the invariant.
LEMMA OutboxInitInv == Init => OutboxInv
<1> SUFFICES ASSUME Init PROVE OutboxInv
  OBVIOUS
<1>1. TypeOK
  BY OutboxAssumption DEF Init, TypeOK
<1>2. ClaimedOnce /\ AttemptLeft
  BY OutboxAssumption DEF Init, ClaimedOnce, AttemptLeft
<1>3. PublishedIsStored /\ InHandCounted /\ AckedForGood
  BY DEF Init, PublishedIsStored, InHandCounted, AckedForGood
<1>4. QED
  BY <1>1, <1>2, <1>3 DEF OutboxInv

\* The relay, the stream and the consumers keep the invariant, whatever
\* crashes, is lost, is late or overlaps.
THEOREM OutboxInvariant == Spec => []OutboxInv
<1>1. OutboxInv /\ [Next]_vars => OutboxInv'
  BY OutboxTypePreserved, ClaimedOncePreserved, AttemptLeftPreserved, PublishedIsStoredPreserved,
     InHandCountedPreserved, AckedForGoodPreserved DEF OutboxInv
<1>2. QED
  BY OutboxInitInv, <1>1, PTL DEF Spec

\* The outbox and its consumers are well typed; attempts and deliveries never
\* exceed their budgets.
THEOREM OutboxTypeCorrect == Spec => []TypeOK
<1>1. OutboxInv => TypeOK
  BY DEF OutboxInv
<1>2. QED
  BY OutboxInvariant, <1>1, PTL

\* RelayOnce and deliver: a committed event that a subscriber has not handled
\* is still to come unless its delivery budget is used up.
THEOREM OutboxNoLoss == Spec => []NoLossWithinBudget
<1>1. OutboxInv => NoLossWithinBudget
  BY OutboxInvNoLoss
<1>2. QED
  BY OutboxInvariant, <1>1, PTL

-----------------------------------------------------------------------------
(* Fleet: the inductive invariant *)

\* A row that is at a gate is inside one of its stages.
InStage(r) == r.gate.gate # "none" => r.stage \in Stage
RowOK(r) == r \in RolloutRow /\ InStage(r)

\* The steps of a stage.
StagePc == {"list", "seed", "before", "ackFail", "ackTopUp", "ackAfter", "ackNext", "batch", "deliver",
            "mark", "after", "next"}
FleetPc == {"idle", "start", "stop", "resume", "rollback", "rolledback", "rejected", "advance", "complete",
            "fail", "clear", "request", "link"} \cup StagePc
WorkerRecord ==
    [pc : FleetPc, row : RolloutRow, todo : SUBSET FleetCluster, slots : 0 .. Cardinality(FleetCluster),
     at : FleetCluster \cup {NoFleetApproval}, request : FleetApproval \cup {NoFleetApproval}]

\* A worker at a step of a stage works on a row that is in one.
WorkerOK(k) == k \in WorkerRecord /\ InStage(k.row) /\ (k.pc \in StagePc => k.row.stage \in Stage)
RowsInStage == RowOK(rollout) /\ \A w \in Workers : WorkerOK(worker[w])

\* Enqueue before upsertTarget: the target about to be marked has its command.
QueuedBeforeMarked ==
    \A w \in Workers : pc(w) = "mark" =>
        /\ worker[w].at \in FleetCluster
        /\ fleetCmd["apply"][worker[w].row.stage][worker[w].at] # "absent"

FleetInv == FleetTypeOK /\ RowsInStage /\ QueuedBeforeMarked /\ TargetBacked

-----------------------------------------------------------------------------
(* Fleet: rows and workers *)

\* Stages, their members and their limits.
LEMMA FleetConstants ==
  /\ Stage = 1 .. Len(Stages) /\ Len(Stages) \in Nat \ {0}
  /\ Cardinality(FleetCluster) \in Nat
  /\ \A s \in Stage : /\ stageMembers(s) \subseteq FleetCluster
                      /\ ParseMaxConcurrency(s, stageMembers(s)) \in 0 .. Cardinality(FleetCluster)
                      /\ Stages[s].before \in {"none", "wait", "approval"}
                      /\ Stages[s].after \in {"none", "wait", "approval"}
<1>1. Stage = 1 .. Len(Stages) /\ Len(Stages) \in Nat \ {0}
  BY FleetAssumption DEF Stage, validateStages
<1>2. Cardinality(FleetCluster) \in Nat
  BY FleetAssumption, FS_CardinalityType
<1>3. ASSUME NEW s \in Stage
      PROVE  /\ stageMembers(s) \subseteq FleetCluster
             /\ ParseMaxConcurrency(s, stageMembers(s)) \in 0 .. Cardinality(FleetCluster)
             /\ Stages[s].before \in {"none", "wait", "approval"}
             /\ Stages[s].after \in {"none", "wait", "approval"}
  <2> DEFINE StageRecord == [set : ClusterSet, limit : Nat, before : {"none", "wait", "approval"},
                             after : {"none", "wait", "approval"}]
  <2>1. Stages[s] \in StageRecord
    <3>1. Stages \in Seq(StageRecord)
      BY FleetAssumption
    <3> HIDE DEF StageRecord
    <3>2. QED
      BY <1>1, <3>1
  <2>2. stageMembers(s) \subseteq FleetCluster
    BY <2>1, FleetAssumption DEF stageMembers, ClusterSetMembers
  <2>3. /\ Cardinality(stageMembers(s)) \in Nat
        /\ Cardinality(stageMembers(s)) <= Cardinality(FleetCluster)
    BY <2>2, FleetAssumption, FS_Subset, FS_CardinalityType
  <2>4. QED
    BY <1>2, <2>1, <2>2, <2>3 DEF ParseMaxConcurrency
<1>4. QED
  BY <1>1, <1>2, <1>3

\* A worker at rest is well formed.
LEMMA IdleWorkerOK == WorkerOK(IdleWorker) /\ RowOK(IdleWorker.row)
BY FleetConstants DEF WorkerOK, WorkerRecord, RowOK, InStage, IdleWorker, NoGate, RolloutRow,
   RolloutGateContext, RolloutState, FleetPc, StagePc

\* Service.transition: the row moves along an edge from the state it is in, or
\* not at all; the worker goes on with the row it wrote, or stops.
LEMMA TransitionStep ==
  ASSUME FleetTypeOK, RowsInStage, NEW w \in Workers, NEW to \in RolloutState, NEW stage, NEW gate, NEW then,
         RowOK([state |-> to, stage |-> stage, gate |-> gate]),
         then \in {"idle", "advance", "request"}, transition(w, to, stage, gate, then)
  PROVE  /\ RowOK(rollout') /\ WorkerOK(worker'[w]) /\ worker' = [worker EXCEPT ![w] = worker'[w]]
         /\ worker'[w].pc # "mark"
         /\ rollout'.state # rollout.state => CanRolloutTransition(rollout.state, rollout'.state)
         /\ UNCHANGED <<clusterSets, rolloutTarget, fleetCmd, gateRequest, fleetAsked, fleetFaults>>
<1> DEFINE new == [state |-> to, stage |-> stage, gate |-> gate]
<1>1. rollout' = rollout \/ (rollout' = new /\ CanRolloutTransition(rollout.state, to))
  BY DEF transition, setRolloutState
<1>2. RowOK(rollout') /\ (rollout'.state # rollout.state => CanRolloutTransition(rollout.state, rollout'.state))
  BY <1>1 DEF RowsInStage
<1>3. \/ worker' = [worker EXCEPT ![w] = IdleWorker]
      \/ worker' = [worker EXCEPT ![w].pc = then, ![w].row = new] /\ then # "idle"
  BY DEF transition, FinishCall
<1>4. CASE worker' = [worker EXCEPT ![w] = IdleWorker]
  BY <1>2, <1>4, IdleWorkerOK DEF FleetTypeOK, transition, IdleWorker
<1>5. CASE worker' = [worker EXCEPT ![w].pc = then, ![w].row = new] /\ then # "idle"
  <2> HIDE DEF new
  <2>1. worker'[w] = [worker[w] EXCEPT !.pc = then, !.row = new]
    BY <1>5 DEF FleetTypeOK
  <2>2. worker[w] \in WorkerRecord /\ RowOK(new)
    BY DEF RowsInStage, WorkerOK, new
  <2>3. worker'[w] \in WorkerRecord /\ worker'[w].row = new /\ worker'[w].pc = then
    BY <2>1, <2>2 DEF WorkerRecord, RowOK, FleetPc
  <2>4. WorkerOK(worker'[w])
    BY <2>2, <2>3 DEF WorkerOK, RowOK, StagePc
  <2>5. worker' = [worker EXCEPT ![w] = worker'[w]]
    BY <1>5, <2>1 DEF FleetTypeOK
  <2>6. QED
    BY <1>2, <2>3, <2>4, <2>5 DEF transition
<1>6. QED
  BY <1>3, <1>4, <1>5

\* What the rows and the workers look like after a step of worker w.
StepOK(w) == /\ RowOK(rollout') /\ WorkerOK(worker'[w])
             /\ worker' = [worker EXCEPT ![w] = worker'[w]]
             /\ rollout'.state # rollout.state => CanRolloutTransition(rollout.state, rollout'.state)

\* The steps that are one call of Service.transition.
TransitionAction(w) ==
    \/ StartRollout(w) \/ StopRollout(w) \/ ResumeRollout(w) \/ clearGate(w) \/ gateRejected(w)
    \/ enterGate(w, "before") \/ enterGate(w, "after") \/ failRollout(w) \/ CompleteRollout(w)
    \/ RollbackRollout(w)

\* A call of transition with the stage and gate of these steps.
LEMMA TransitionActionStep ==
  ASSUME FleetTypeOK, RowsInStage, NEW w \in Workers, TransitionAction(w)
  PROVE  /\ StepOK(w) /\ worker'[w].pc # "mark"
         /\ UNCHANGED <<clusterSets, rolloutTarget, fleetCmd, gateRequest, fleetAsked, fleetFaults>>
<1> DEFINE k == worker[w]
<1>1. k \in WorkerRecord /\ RowOK(k.row) /\ (k.pc \in StagePc => k.row.stage \in Stage)
  BY DEF RowsInStage, WorkerOK, WorkerRecord, RowOK
<1>2. /\ k.row.stage \in 1 .. Len(Stages) + 1 /\ k.row.gate \in RolloutGateContext
      /\ k.row.gate.gate # "none" => k.row.stage \in Stage
  BY <1>1 DEF RowOK, RolloutRow, InStage
<1>3. ASSUME NEW to \in RolloutState, NEW stage \in 1 .. Len(Stages) + 1
      PROVE  RowOK([state |-> to, stage |-> stage, gate |-> NoGate])
  BY DEF RowOK, RolloutRow, RolloutGateContext, NoGate, InStage
<1>4. ASSUME NEW to \in RolloutState
      PROVE  RowOK([state |-> to, stage |-> k.row.stage, gate |-> k.row.gate])
  BY <1>2 DEF RowOK, RolloutRow, InStage
<1>5. CASE StartRollout(w)
  <2>1. 1 \in 1 .. Len(Stages) + 1 /\ "running" \in RolloutState
    BY FleetConstants DEF RolloutState
  <2>2. QED
    BY <1>3, <1>5, <2>1, TransitionStep DEF StartRollout, StepOK
<1>6. CASE StopRollout(w)
  <2>1. "paused" \in RolloutState
    BY DEF RolloutState
  <2>2. QED
    BY <1>4, <1>6, <2>1, TransitionStep DEF StopRollout, StepOK
<1>7. CASE ResumeRollout(w)
  <2> DEFINE to == IF k.row.gate = NoGate THEN "running" ELSE "waiting_gate"
  <2>1. to \in RolloutState
    BY DEF RolloutState
  <2>2. transition(w, to, k.row.stage, k.row.gate, "advance")
    BY <1>7 DEF ResumeRollout
  <2> HIDE DEF to, k
  <2>3. QED
    BY <1>4, <2>1, <2>2, TransitionStep DEF StepOK
<1>8. CASE clearGate(w)
  <2> DEFINE stage == k.row.stage + (IF k.row.gate.gate = "after" THEN 1 ELSE 0)
  <2>1. stage \in 1 .. Len(Stages) + 1 /\ "running" \in RolloutState
    BY <1>2, FleetConstants DEF RolloutState
  <2>2. transition(w, "running", stage, NoGate, "idle")
    BY <1>8 DEF clearGate
  <2> HIDE DEF stage
  <2>3. QED
    BY <1>3, <2>1, <2>2, TransitionStep DEF StepOK
<1>9. CASE gateRejected(w) \/ failRollout(w)
  <2>1. "failed" \in RolloutState
    BY DEF RolloutState
  <2>2. QED
    BY <1>4, <1>9, <2>1, TransitionStep DEF gateRejected, failRollout, StepOK
<1>10. ASSUME NEW which \in {"before", "after"}, enterGate(w, which)
       PROVE  /\ StepOK(w) /\ worker'[w].pc # "mark"
              /\ UNCHANGED <<clusterSets, rolloutTarget, fleetCmd, gateRequest, fleetAsked, fleetFaults>>
  <2> DEFINE type == IF which = "before" THEN Stages[k.row.stage].before ELSE Stages[k.row.stage].after
             gate == [gate |-> which, type |-> type, approval |-> NoFleetApproval]
             then == IF type = "approval" THEN "request" ELSE "idle"
  <2>1. k.pc = which /\ transition(w, "waiting_gate", k.row.stage, gate, then)
    BY <1>10 DEF enterGate, pc
  <2>2. k.row.stage \in Stage
    BY <1>1, <2>1 DEF StagePc
  <2>3. gate \in RolloutGateContext /\ then \in {"idle", "advance", "request"}
    BY <2>2, FleetConstants DEF RolloutGateContext
  <2> HIDE DEF gate, then
  <2>4. RowOK([state |-> "waiting_gate", stage |-> k.row.stage, gate |-> gate])
    BY <1>2, <2>2, <2>3 DEF RowOK, RolloutRow, RolloutState, InStage
  <2>5. "waiting_gate" \in RolloutState
    BY DEF RolloutState
  <2>6. QED
    BY <2>1, <2>3, <2>4, <2>5, TransitionStep DEF StepOK
<1>11. CASE CompleteRollout(w)
  <2>1. "completed" \in RolloutState
    BY DEF RolloutState
  <2>2. QED
    BY <1>2, <1>3, <1>11, <2>1, TransitionStep DEF CompleteRollout, StepOK
<1>12. CASE RollbackRollout(w)
  <2>1. "rolled_back" \in RolloutState
    BY DEF RolloutState
  <2>2. QED
    BY <1>2, <1>3, <1>12, <2>1, TransitionStep DEF RollbackRollout, StepOK
<1>13. QED
  BY <1>5, <1>6, <1>7, <1>8, <1>9, <1>10, <1>11, <1>12 DEF TransitionAction

\* A step that ends a call, or that leaves the row of its worker and the
\* rollout as they are, and enters a stage only where it was in one.
LEMMA LocalStep ==
  ASSUME FleetTypeOK, RowsInStage, NEW w \in Workers, NEW k \in WorkerRecord,
         InStage(k.row), k.pc \in StagePc => k.row.stage \in Stage,
         worker' = [worker EXCEPT ![w] = k], UNCHANGED rollout
  PROVE  StepOK(w)
BY DEF FleetTypeOK, RowsInStage, StepOK, WorkerOK, RowOK

\* A call of transition that returns leaves its worker idle, with the rollout in
\* a state the machine allows.
LEMMA FinishStep ==
  ASSUME FleetTypeOK, RowsInStage, NEW w \in Workers, FinishCall(w), RowOK(rollout'),
         rollout'.state # rollout.state => CanRolloutTransition(rollout.state, rollout'.state)
  PROVE  StepOK(w) /\ worker'[w] = IdleWorker
BY IdleWorkerOK DEF FinishCall, FleetTypeOK, StepOK

\* The steps of a worker that are not calls of transition.
LEMMA OtherStep ==
  ASSUME FleetTypeOK, RowsInStage, NEW w \in Workers, WorkerStep(w), ~TransitionAction(w)
  PROVE  StepOK(w)
<1> DEFINE k == worker[w]
           s == k.row.stage
<1>1. /\ k \in WorkerRecord /\ InStage(k.row) /\ k.row \in RolloutRow
      /\ k.pc \in StagePc => s \in Stage
  BY DEF RowsInStage, WorkerOK, WorkerRecord
<1>2. RowOK(rollout)
  BY DEF RowsInStage
<1>3. CASE EnqueueRollback(w)
  <2>1. CASE worker' = [worker EXCEPT ![w].pc = "rolledback"]
    <3>1. worker' = [worker EXCEPT ![w] = [k EXCEPT !.pc = "rolledback"]]
      BY <2>1 DEF FleetTypeOK
    <3>2. [k EXCEPT !.pc = "rolledback"] \in WorkerRecord
      BY <1>1 DEF WorkerRecord, FleetPc
    <3>3. QED
      BY <1>1, <1>3, <3>1, <3>2, LocalStep DEF EnqueueRollback, WorkerRecord, StagePc
  <2>2. CASE FinishCall(w)
    BY <1>2, <1>3, <2>2, FinishStep DEF EnqueueRollback
  <2>3. QED
    BY <1>3, <2>1, <2>2 DEF EnqueueRollback, Goto
<1>4. CASE RollbackRefused(w) \/ SeedUnresolved(w)
  BY <1>2, <1>4, FinishStep DEF RollbackRefused, SeedUnresolved
<1>5. CASE requestGateApproval(w)
  <2>1. PICK a \in FleetApproval : worker' = [worker EXCEPT ![w].pc = "link", ![w].request = a]
    BY <1>5 DEF requestGateApproval
  <2>2. worker' = [worker EXCEPT ![w] = [k EXCEPT !.pc = "link", !.request = a]]
    BY <2>1 DEF FleetTypeOK
  <2>3. [k EXCEPT !.pc = "link", !.request = a] \in WorkerRecord
    BY <1>1 DEF WorkerRecord, FleetPc
  <2>4. QED
    BY <1>1, <1>5, <2>2, <2>3, LocalStep DEF requestGateApproval, WorkerRecord, StagePc
<1>6. CASE setGateApproval(w)
  <2>1. rollout' = rollout \/ rollout' = [rollout EXCEPT !.gate.approval = k.request]
    BY <1>6 DEF setGateApproval
  <2>2. RowOK([rollout EXCEPT !.gate.approval = k.request])
    BY <1>1, <1>2 DEF RowOK, RolloutRow, RolloutGateContext, WorkerRecord, InStage
  <2>3. [rollout EXCEPT !.gate.approval = k.request].state = rollout.state
    BY <1>2 DEF RowOK, RolloutRow
  <2>4. QED
    BY <1>2, <1>6, <2>1, <2>2, <2>3, FinishStep DEF setGateApproval
<1>7. CASE advanceOnce(w)
  <2>1. PICK next \in {"idle", "clear", "request", "complete", "list"} :
           /\ next = "list" => rollout.state = "running" /\ rollout.stage <= Len(Stages)
           /\ worker' = [worker EXCEPT ![w] = [IdleWorker EXCEPT !.pc = next,
                 !.row = IF next = "idle" THEN IdleWorker.row ELSE rollout]]
    <3>1. rollout.stage \in Nat /\ Len(Stages) \in Nat
      BY <1>2, FleetConstants DEF RowOK, RolloutRow
    <3>2. advanceGate # "list"
      BY DEF advanceGate
    <3>3. PICK next \in {"idle", "clear", "request", "complete", "list"} :
             /\ CASE rollout.state = "running" ->
                       next = IF rollout.stage > Len(Stages) THEN "complete" ELSE "list"
                  [] rollout.state = "waiting_gate" /\ rollout.gate = NoGate -> next = "clear"
                  [] rollout.state = "waiting_gate" /\ rollout.gate.type = "wait" ->
                       next \in {"idle", "clear"}
                  [] rollout.state = "waiting_gate" -> next = advanceGate
                  [] OTHER -> next = "idle"
             /\ worker' = [worker EXCEPT ![w] = [IdleWorker EXCEPT !.pc = next,
                   !.row = IF next = "idle" THEN IdleWorker.row ELSE rollout]]
      BY <1>7 DEF advanceOnce
    <3>4. CASE next = "list"
      <4>1. rollout.state = "running"
        BY <3>2, <3>3, <3>4
      <4>2. next = IF rollout.stage > Len(Stages) THEN "complete" ELSE "list"
        BY <3>3, <4>1
      <4>3. QED
        BY <3>1, <3>3, <3>4, <4>1, <4>2
    <3>5. QED
      BY <3>3, <3>4
  <2> DEFINE j == [IdleWorker EXCEPT !.pc = next, !.row = IF next = "idle" THEN IdleWorker.row ELSE rollout]
  <2>2. j.pc = next /\ RowOK(j.row) /\ (next = "list" => j.row = rollout)
    BY <1>2, IdleWorkerOK DEF IdleWorker
  <2>3. j \in WorkerRecord
    BY <1>2, IdleWorkerOK DEF WorkerOK, WorkerRecord, RowOK, FleetPc, StagePc
  <2>4. next = "list" => rollout.stage \in Stage
    BY <1>2, <2>1, FleetConstants DEF RowOK, RolloutRow
  <2> HIDE DEF j
  <2>5. j.pc \in StagePc => j.row.stage \in Stage
    BY <2>2, <2>4 DEF StagePc
  <2>6. QED
    BY <1>7, <2>1, <2>2, <2>3, <2>5, LocalStep DEF advanceOnce, RowOK, j
<1>8. CASE SeedBegin(w)
  <2> DEFINE to == IF stageMembers(s) = {} THEN "fail" ELSE "seed"
  <2>1. k.pc = "list" /\ worker' = [worker EXCEPT ![w].todo = stageMembers(s), ![w].pc = to]
    BY <1>8 DEF SeedBegin, pc
  <2>2. s \in Stage /\ stageMembers(s) \subseteq FleetCluster /\ to \in FleetPc
    BY <1>1, <2>1, FleetConstants DEF StagePc, FleetPc
  <2> HIDE DEF to
  <2>3. worker' = [worker EXCEPT ![w] = [k EXCEPT !.todo = stageMembers(s), !.pc = to]]
    BY <2>1 DEF FleetTypeOK
  <2>4. [k EXCEPT !.todo = stageMembers(s), !.pc = to] \in WorkerRecord
    BY <1>1, <2>2 DEF WorkerRecord
  <2>5. QED
    BY <1>1, <1>8, <2>2, <2>3, <2>4, LocalStep DEF SeedBegin, WorkerRecord
<1>9. CASE SeedTarget(w)
  <2> DEFINE to == IF Stages[s].before # "none" THEN "before" ELSE "batch"
             slots == ParseMaxConcurrency(s, stageMembers(s))
  <2>1. PICK c \in k.todo :
           worker' = IF k.todo # {c} THEN [worker EXCEPT ![w].todo = @ \ {c}]
                     ELSE [worker EXCEPT ![w].todo = {}, ![w].pc = to, ![w].slots = slots]
    BY <1>9 DEF SeedTarget
  <2>2. k.pc = "seed" /\ s \in Stage
    BY <1>1, <1>9 DEF SeedTarget, pc, StagePc
  <2>3. to \in FleetPc /\ slots \in 0 .. Cardinality(FleetCluster)
    BY <2>2, FleetConstants DEF StagePc, FleetPc
  <2> HIDE DEF to, slots
  <2>4. \/ worker' = [worker EXCEPT ![w] = [k EXCEPT !.todo = k.todo \ {c}]]
        \/ worker' = [worker EXCEPT ![w] = [k EXCEPT !.todo = {}, !.pc = to, !.slots = slots]]
    BY <2>1 DEF FleetTypeOK
  <2>5. /\ [k EXCEPT !.todo = k.todo \ {c}] \in WorkerRecord
        /\ [k EXCEPT !.todo = {}, !.pc = to, !.slots = slots] \in WorkerRecord
    BY <1>1, <2>3 DEF WorkerRecord
  <2>6. QED
    BY <1>1, <1>9, <2>2, <2>4, <2>5, LocalStep DEF SeedTarget, WorkerRecord
<1>10. CASE ReconcileTargets(w)
  <2> DEFINE changed == {c \in FleetCluster : Reconciled(s)[c] # rolloutTarget[s][c]}
             free == ParseMaxConcurrency(s, stageMembers(s))
                     - Cardinality({c \in FleetCluster : Reconciled(s)[c] = "delivered"})
             slots == IF free > 0 THEN free ELSE 0
  <2>1. k.pc = "list" /\ s \in Stage
    BY <1>1, <1>10 DEF ReconcileTargets, pc, StagePc
  <2>2. PICK to \in Acks : worker' = [worker EXCEPT ![w].todo = changed, ![w].slots = slots, ![w].pc = to]
    BY <1>10 DEF ReconcileTargets, Acks
  <2>3. slots \in 0 .. Cardinality(FleetCluster)
    <3>1. Cardinality({c \in FleetCluster : Reconciled(s)[c] = "delivered"}) \in Nat
      BY FleetAssumption, FS_Subset, FS_CardinalityType
    <3>2. QED
      BY <2>1, <3>1, FleetConstants
  <2>4. changed \subseteq FleetCluster
    OBVIOUS
  <2> HIDE DEF slots, changed
  <2>5. worker' = [worker EXCEPT ![w] = [k EXCEPT !.todo = changed, !.slots = slots, !.pc = to]]
    BY <2>2 DEF FleetTypeOK
  <2>6. [k EXCEPT !.todo = changed, !.slots = slots, !.pc = to] \in WorkerRecord
    BY <1>1, <2>3, <2>4 DEF WorkerRecord, FleetPc, StagePc, Acks
  <2>7. QED
    BY <1>1, <1>10, <2>1, <2>5, <2>6, LocalStep DEF ReconcileTargets, WorkerRecord
<1>11. CASE setTargetStatus(w)
  <2>1. s \in Stage
    BY <1>1, <1>11 DEF setTargetStatus, pc, StagePc, Acks
  <2>2. PICK c : worker' = [worker EXCEPT ![w].todo = @ \ {c}]
    BY <1>11 DEF setTargetStatus
  <2>3. worker' = [worker EXCEPT ![w] = [k EXCEPT !.todo = k.todo \ {c}]]
    BY <2>2 DEF FleetTypeOK
  <2>4. [k EXCEPT !.todo = k.todo \ {c}] \in WorkerRecord
    BY <1>1 DEF WorkerRecord
  <2>5. QED
    BY <1>1, <1>11, <2>1, <2>3, <2>4, LocalStep DEF setTargetStatus, WorkerRecord
<1>12. CASE TargetsReconciled(w)
  <2>1. s \in Stage
    BY <1>1, <1>12 DEF TargetsReconciled, pc, StagePc, Acks
  <2>2. (\E to \in {"fail", "after", "next", "batch"} : Goto(w, to)) \/ FinishCall(w)
    BY <1>12 DEF TargetsReconciled
  <2>3. CASE \E to \in {"fail", "after", "next", "batch"} : Goto(w, to)
    <3>1. PICK to \in {"fail", "after", "next", "batch"} : worker' = [worker EXCEPT ![w].pc = to]
      BY <2>3 DEF Goto
    <3>2. worker' = [worker EXCEPT ![w] = [k EXCEPT !.pc = to]]
      BY <3>1 DEF FleetTypeOK
    <3>3. [k EXCEPT !.pc = to] \in WorkerRecord
      BY <1>1 DEF WorkerRecord, FleetPc, StagePc
    <3>4. QED
      BY <1>1, <1>12, <2>1, <3>2, <3>3, LocalStep DEF TargetsReconciled, WorkerRecord
  <2>4. CASE FinishCall(w)
    BY <1>2, <1>12, <2>4, FinishStep DEF TargetsReconciled
  <2>5. QED
    BY <2>2, <2>3, <2>4
<1>13. CASE deliverBatch(w)
  <2>1. k.pc = "batch" /\ s \in Stage
    BY <1>1, <1>13 DEF deliverBatch, pc, StagePc
  <2>2. PICK batch \in SUBSET FleetCluster :
           \/ worker' = [worker EXCEPT ![w] = IdleWorker]
           \/ worker' = [worker EXCEPT ![w].pc = "deliver", ![w].todo = batch]
    BY <1>13 DEF deliverBatch, FinishCall
  <2>3. CASE worker' = [worker EXCEPT ![w] = IdleWorker]
    BY <1>2, <1>13, <2>3, FinishStep DEF deliverBatch, FinishCall
  <2>4. CASE worker' = [worker EXCEPT ![w].pc = "deliver", ![w].todo = batch]
    <3>1. worker' = [worker EXCEPT ![w] = [k EXCEPT !.pc = "deliver", !.todo = batch]]
      BY <2>4 DEF FleetTypeOK
    <3>2. [k EXCEPT !.pc = "deliver", !.todo = batch] \in WorkerRecord
      BY <1>1 DEF WorkerRecord, FleetPc, StagePc
    <3>3. QED
      BY <1>1, <1>13, <2>1, <3>1, <3>2, LocalStep DEF deliverBatch, WorkerRecord
  <2>5. QED
    BY <2>2, <2>3, <2>4
<1>14. CASE EnqueueRollout(w)
  <2>1. k.pc = "deliver" /\ s \in Stage
    BY <1>1, <1>14 DEF EnqueueRollout, pc, StagePc
  <2>2. PICK c \in k.todo : worker' = [worker EXCEPT ![w].pc = "mark", ![w].at = c]
    BY <1>14 DEF EnqueueRollout
  <2>3. worker' = [worker EXCEPT ![w] = [k EXCEPT !.pc = "mark", !.at = c]]
    BY <2>2 DEF FleetTypeOK
  <2>4. [k EXCEPT !.pc = "mark", !.at = c] \in WorkerRecord
    BY <1>1 DEF WorkerRecord, FleetPc, StagePc
  <2>5. QED
    BY <1>1, <1>14, <2>1, <2>3, <2>4, LocalStep DEF EnqueueRollout, WorkerRecord
<1>15. CASE MarkDeliveredTarget(w)
  <2>1. k.pc = "mark" /\ s \in Stage
    BY <1>1, <1>15 DEF MarkDeliveredTarget, pc, StagePc
  <2>2. CASE worker' = [worker EXCEPT ![w] = IdleWorker]
    BY <1>2, <1>15, <2>2, FinishStep DEF MarkDeliveredTarget, FinishCall
  <2>3. CASE worker' = [worker EXCEPT ![w].pc = "deliver", ![w].todo = @ \ {k.at}]
    <3>1. worker' = [worker EXCEPT ![w] = [k EXCEPT !.pc = "deliver", !.todo = k.todo \ {k.at}]]
      BY <2>3 DEF FleetTypeOK
    <3>2. [k EXCEPT !.pc = "deliver", !.todo = k.todo \ {k.at}] \in WorkerRecord
      BY <1>1 DEF WorkerRecord, FleetPc, StagePc
    <3>3. QED
      BY <1>1, <1>15, <2>1, <3>1, <3>2, LocalStep DEF MarkDeliveredTarget, WorkerRecord
  <2>4. QED
    BY <1>15, <2>2, <2>3 DEF MarkDeliveredTarget, FinishCall
<1>16. CASE advanceStage(w)
  <2> DEFINE new == [k.row EXCEPT !.stage = s + 1, !.gate = NoGate]
  <2>1. k.pc = "next" /\ s \in Stage
    BY <1>1, <1>16 DEF advanceStage, pc, StagePc
  <2>2. /\ rollout' = IF rollout.state = k.row.state THEN new ELSE rollout
        /\ worker' = IF rollout.state = k.row.state
                     THEN [worker EXCEPT ![w].pc = "advance"] ELSE [worker EXCEPT ![w] = IdleWorker]
    BY <1>16 DEF advanceStage, setRolloutState, Goto, FinishCall
  <2>3. RowOK(new) /\ new.state = k.row.state
    <3>1. s + 1 \in 1 .. Len(Stages) + 1
      BY <2>1, FleetConstants
    <3>2. NoGate \in RolloutGateContext /\ NoGate.gate = "none"
      BY DEF NoGate, RolloutGateContext
    <3>3. QED
      BY <1>1, <3>1, <3>2 DEF RowOK, RolloutRow, InStage
  <2>4. CASE rollout.state = k.row.state
    <3>1. worker' = [worker EXCEPT ![w] = [k EXCEPT !.pc = "advance"]]
      BY <2>2, <2>4 DEF FleetTypeOK
    <3>2. [k EXCEPT !.pc = "advance"] \in WorkerRecord
      BY <1>1 DEF WorkerRecord, FleetPc
    <3>3. WorkerOK([k EXCEPT !.pc = "advance"])
      BY <1>1, <3>2 DEF WorkerOK, WorkerRecord, StagePc
    <3>4. worker'[w] = [k EXCEPT !.pc = "advance"]
      BY <3>1 DEF FleetTypeOK
    <3>5. QED
      BY <2>2, <2>3, <2>4, <3>1, <3>3, <3>4 DEF StepOK
  <2>5. CASE rollout.state # k.row.state
    BY <1>2, <2>2, <2>5, FinishStep DEF FinishCall
  <2>6. QED
    BY <2>4, <2>5
<1>17. QED
  BY <1>3, <1>4, <1>5, <1>6, <1>7, <1>8, <1>9, <1>10, <1>11, <1>12, <1>13, <1>14, <1>15,
     <1>16
     DEF WorkerStep, TransitionAction

\* A step of a worker keeps every row and every worker in order.
LEMMA WorkerStepOK ==
  ASSUME FleetTypeOK, RowsInStage, NEW w \in Workers, WorkerStep(w) \/ WorkerFails(w)
  PROVE  StepOK(w)
<1>1. RowOK(rollout)
  BY DEF RowsInStage
<1>2. CASE WorkerFails(w)
  BY <1>1, <1>2, FinishStep DEF WorkerFails
<1>3. CASE WorkerStep(w)
  BY <1>3, TransitionActionStep, OtherStep
<1>4. QED
  BY <1>2, <1>3

\* Every step keeps the rollout, and the rows the workers have read, inside the
\* stages, whoever moves the rollout meanwhile.
LEMMA RowsInStagePreserved ==
  ASSUME FleetTypeOK, RowsInStage, [FleetNext]_fleetVars
  PROVE  RowsInStage' /\ worker' \in [Workers -> WorkerRecord]
<1> USE DEF RowsInStage
<1>1. worker \in [Workers -> WorkerRecord] /\ worker = [w \in Workers |-> worker[w]]
  BY DEF FleetTypeOK, WorkerOK
<1>2. CASE UNCHANGED <<rollout, worker>>
  BY <1>1, <1>2
<1>3. ASSUME NEW w \in Workers, StepOK(w)
      PROVE  RowsInStage' /\ worker' \in [Workers -> WorkerRecord]
  BY <1>1, <1>3 DEF StepOK, WorkerOK
<1>4. ASSUME NEW w \in FleetWorker, NEW op \in {"start", "stop", "resume", "rollback"}, LoadRollout(w, op),
             UNCHANGED rollout
      PROVE  RowsInStage' /\ worker' \in [Workers -> WorkerRecord]
  <2> DEFINE k == [IdleWorker EXCEPT !.pc = op, !.row = rollout]
  <2>1. w \in Workers /\ worker' = [worker EXCEPT ![w] = k]
    BY <1>4 DEF LoadRollout, Workers
  <2>2. k \in WorkerRecord /\ k.row = rollout /\ k.pc = op
    BY IdleWorkerOK DEF WorkerOK, WorkerRecord, RowOK, FleetPc, IdleWorker
  <2> HIDE DEF k
  <2>3. WorkerOK(k)
    BY <2>2 DEF WorkerOK, RowOK, StagePc
  <2>4. QED
    BY <1>1, <1>4, <2>1, <2>2, <2>3
<1>5. ASSUME NEW w \in FleetWorker, NEW a \in FleetApproval, GateDecided(w, a)
      PROVE  RowsInStage' /\ worker' \in [Workers -> WorkerRecord]
  <2> DEFINE op == IF gateRequest[a].state = "approved" THEN "clear" ELSE "rejected"
             k == [IdleWorker EXCEPT !.row = rollout, !.pc = op]
  <2>1. w \in Workers /\ worker' = [worker EXCEPT ![w] = k] /\ rollout' = rollout
    BY <1>5 DEF GateDecided, Workers
  <2>2. k \in WorkerRecord /\ k.row = rollout /\ k.pc \notin StagePc
    BY IdleWorkerOK DEF WorkerOK, WorkerRecord, RowOK, FleetPc, StagePc, IdleWorker
  <2> HIDE DEF k
  <2>3. WorkerOK(k)
    BY <2>2 DEF WorkerOK, RowOK
  <2>4. QED
    BY <1>1, <2>1, <2>2, <2>3
<1>6. CASE AdvanceSweep
  <2> DEFINE k == [worker[Sweeper] EXCEPT !.pc = "advance"]
  <2>1. Sweeper \in Workers /\ worker' = [worker EXCEPT ![Sweeper] = k] /\ rollout' = rollout
    BY <1>1, <1>6 DEF AdvanceSweep, Goto, Workers
  <2>2. k \in WorkerRecord /\ k.row = worker[Sweeper].row /\ k.pc \notin StagePc
    BY <1>1, <2>1 DEF WorkerRecord, FleetPc, StagePc
  <2> HIDE DEF k
  <2>3. WorkerOK(k)
    BY <2>1, <2>2 DEF WorkerOK
  <2>4. QED
    BY <1>1, <2>1, <2>2, <2>3
<1>7. ASSUME NEW u \in User, httpCreateRollout(u)
      PROVE  RowsInStage' /\ worker' \in [Workers -> WorkerRecord]
  <2>1. rollout' = [rollout EXCEPT !.state = "pending"] /\ worker' = worker
    BY <1>7 DEF httpCreateRollout
  <2>2. RowOK(rollout')
    BY <2>1 DEF RowOK, RolloutRow, RolloutState, InStage
  <2>3. QED
    BY <1>1, <2>1, <2>2
<1>8. CASE FleetRoutes
  BY <1>2, <1>4, <1>7, <1>8
     DEF FleetRoutes, httpDeleteClusterSet, httpStartRollout, httpStopRollout, httpResumeRollout,
         httpRollbackRollout, RolloutHandler
<1>9. QED
  BY <1>2, <1>3, <1>5, <1>6, <1>8, WorkerStepOK
     DEF FleetNext, fleetVars, AgentAnswersRollout, DecideGate

\* Targets, commands and gate requests keep their types.
LEMMA FleetDataType ==
  ASSUME FleetTypeOK, RowsInStage, [FleetNext]_fleetVars
  PROVE  /\ clusterSets' \subseteq ClusterSet
         /\ rolloutTarget' \in [Stage -> [FleetCluster -> {"absent", "pending", "delivered", "healthy", "failed"}]]
         /\ fleetCmd' \in [{"apply", "rollback"} -> [Stage -> [FleetCluster -> {"absent", "pending", "acked", "nacked"}]]]
         /\ gateRequest' \in [FleetApproval -> [stage : 0 .. Len(Stages) + 1, gate : {"none", "before", "after"},
                                                state : {"none", "pending", "approved", "rejected"}]]
         /\ fleetAsked' \in 0 .. MaxFleetRequests /\ fleetFaults' \in 0 .. MaxFleetFaults
<1> DEFINE TargetType == [FleetCluster -> {"absent", "pending", "delivered", "healthy", "failed"}]
           CmdType == [FleetCluster -> {"absent", "pending", "acked", "nacked"}]
           GateType == [stage : 0 .. Len(Stages) + 1, gate : {"none", "before", "after"},
                        state : {"none", "pending", "approved", "rejected"}]
           Data == /\ clusterSets' \subseteq ClusterSet
                   /\ rolloutTarget' \in [Stage -> TargetType]
                   /\ fleetCmd' \in [{"apply", "rollback"} -> [Stage -> CmdType]]
                   /\ gateRequest' \in [FleetApproval -> GateType]
                   /\ fleetAsked' \in 0 .. MaxFleetRequests /\ fleetFaults' \in 0 .. MaxFleetFaults
<1> SUFFICES Data
  OBVIOUS
<1>1. CASE UNCHANGED <<clusterSets, rolloutTarget, fleetCmd, gateRequest, fleetAsked, fleetFaults>>
  BY <1>1 DEF FleetTypeOK
<1>2. CASE FleetRoutes
  BY <1>2, FleetAssumption
     DEF FleetTypeOK, FleetRoutes, httpCreateRollout, httpDeleteClusterSet, httpStartRollout, httpStopRollout,
         httpResumeRollout, httpRollbackRollout, RolloutHandler, authorizeFleet
<1>3. ASSUME NEW w \in Workers, WorkerFails(w)
      PROVE  Data
  BY <1>3, FleetAssumption DEF FleetTypeOK, WorkerFails
<1>4. ASSUME NEW w \in Workers, EnqueueRollback(w)
      PROVE  Data
  <2>1. fleetCmd' \in [{"apply", "rollback"} -> [Stage -> CmdType]]
    BY <1>4 DEF EnqueueRollback, FleetTypeOK
  <2>2. QED
    BY <1>4, <2>1 DEF EnqueueRollback, FleetTypeOK
<1>5. ASSUME NEW w \in Workers, requestGateApproval(w)
      PROVE  Data
  <2>1. PICK a \in FleetApproval :
           gateRequest' = [gateRequest EXCEPT ![a] =
              [stage |-> worker[w].row.stage, gate |-> worker[w].row.gate.gate, state |-> "pending"]]
    BY <1>5 DEF requestGateApproval
  <2>2. worker[w].row \in RolloutRow
    BY DEF FleetTypeOK
  <2>3. [stage |-> worker[w].row.stage, gate |-> worker[w].row.gate.gate, state |-> "pending"] \in GateType
    BY <2>2, FleetConstants DEF RolloutRow, RolloutGateContext
  <2>4. QED
    BY <1>5, <2>1, <2>3 DEF requestGateApproval, FleetTypeOK
<1>6. ASSUME NEW w \in Workers, SeedTarget(w) \/ MarkDeliveredTarget(w) \/ setTargetStatus(w)
      PROVE  Data
  <2> DEFINE s == worker[w].row.stage
  <2>1. PICK c \in FleetCluster \cup {NoFleetApproval}, v \in {"pending", "delivered", "healthy", "failed"} :
           rolloutTarget' = [rolloutTarget EXCEPT ![s][c] = v]
    <3>1. worker[w].todo \subseteq FleetCluster /\ worker[w].at \in FleetCluster \cup {NoFleetApproval}
      BY DEF RowsInStage, WorkerOK, WorkerRecord
    <3>2. QED
      BY <1>6, <3>1 DEF SeedTarget, MarkDeliveredTarget, setTargetStatus, upsertTarget
  <2>2. rolloutTarget' \in [Stage -> TargetType]
    <3> DEFINE t == [rolloutTarget[s] EXCEPT ![c] = v]
    <3>1. s \in Stage
      BY <1>6 DEF SeedTarget, MarkDeliveredTarget, setTargetStatus, Acks, RowsInStage, WorkerOK, StagePc, pc
    <3>2. rolloutTarget \in [Stage -> TargetType] /\ rolloutTarget' = [rolloutTarget EXCEPT ![s] = t]
      BY <2>1 DEF FleetTypeOK
    <3>3. t \in TargetType
      BY <3>1, <3>2
    <3> HIDE DEF t, TargetType
    <3>4. QED
      BY <3>1, <3>2, <3>3
  <2>3. QED
    BY <1>6, <2>2 DEF SeedTarget, MarkDeliveredTarget, setTargetStatus, FleetTypeOK
<1>7. ASSUME NEW w \in Workers, ReconcileTargets(w) \/ TargetsReconciled(w)
      PROVE  Data
  BY <1>1, <1>7 DEF ReconcileTargets, TargetsReconciled
<1>8. ASSUME NEW w \in Workers, EnqueueRollout(w)
      PROVE  Data
  <2>1. PICK s \in Stage, c \in FleetCluster :
           fleetCmd' = [fleetCmd EXCEPT !["apply"][s][c] = IF @ = "absent" THEN "pending" ELSE @]
    <3>1. worker[w].row.stage \in Stage /\ worker[w].todo \subseteq FleetCluster
      BY <1>8 DEF EnqueueRollout, RowsInStage, WorkerOK, WorkerRecord, StagePc, pc
    <3>2. QED
      BY <1>8, <3>1 DEF EnqueueRollout
  <2>2. fleetCmd' \in [{"apply", "rollback"} -> [Stage -> CmdType]]
    BY <2>1 DEF FleetTypeOK
  <2>3. QED
    BY <1>8, <2>2 DEF EnqueueRollout, FleetTypeOK
<1>9. CASE AgentAnswersRollout
  <2>1. PICK s \in Stage, c \in FleetCluster, r \in {"acked", "nacked"} :
           fleetCmd' = [fleetCmd EXCEPT !["apply"][s][c] = r]
    BY <1>9 DEF AgentAnswersRollout
  <2>2. fleetCmd' \in [{"apply", "rollback"} -> [Stage -> CmdType]]
    BY <2>1 DEF FleetTypeOK
  <2>3. QED
    BY <1>9, <2>2 DEF AgentAnswersRollout, FleetTypeOK
<1>10. CASE DecideGate
  <2>1. PICK a \in FleetApproval, r \in {"approved", "rejected"} :
           gateRequest' = [gateRequest EXCEPT ![a].state = r]
    BY <1>10 DEF DecideGate
  <2>2. gateRequest' \in [FleetApproval -> GateType]
    BY <2>1 DEF FleetTypeOK
  <2>3. QED
    BY <1>10, <2>2 DEF DecideGate, FleetTypeOK
<1>11. ASSUME NEW w \in Workers, TransitionAction(w)
       PROVE  Data
  BY <1>1, <1>11, TransitionActionStep
<1>12. ASSUME NEW w \in Workers, WorkerStep(w)
       PROVE  Data
  BY <1>1, <1>4, <1>5, <1>6, <1>7, <1>8, <1>11, <1>12
     DEF WorkerStep, TransitionAction, RollbackRefused, setGateApproval, advanceOnce, SeedBegin,
         SeedUnresolved, deliverBatch, advanceStage
<1>13. QED
  BY <1>1, <1>2, <1>3, <1>9, <1>10, <1>12 DEF FleetNext, fleetVars, AdvanceSweep, GateDecided

\* Every step preserves the type invariant.
LEMMA FleetTypePreserved ==
  ASSUME FleetTypeOK, RowsInStage, [FleetNext]_fleetVars
  PROVE  FleetTypeOK'
<1>1. worker' \in [Workers -> WorkerRecord] /\ RowOK(rollout')
  BY RowsInStagePreserved DEF RowsInStage
<1>2. QED
  BY <1>1, FleetDataType DEF FleetTypeOK, WorkerRecord, FleetPc, StagePc, RowOK

-----------------------------------------------------------------------------
(* Fleet: commands and targets *)

\* A command that is queued stays queued, and an acknowledgement stays.
CommandsKept ==
    \A s \in Stage, c \in FleetCluster :
        /\ fleetCmd["apply"][s][c] # "absent" => fleetCmd'["apply"][s][c] # "absent"
        /\ fleetCmd["apply"][s][c] = "acked" => fleetCmd'["apply"][s][c] = "acked"

\* No step of the fleet manager or of the agents takes a command back.
LEMMA FleetCommandsKept ==
  ASSUME FleetTypeOK, RowsInStage, [FleetNext]_fleetVars
  PROVE  CommandsKept
<1>1. CASE UNCHANGED fleetCmd
  BY <1>1 DEF CommandsKept
<1>2. ASSUME NEW w \in Workers, EnqueueRollback(w)
      PROVE  CommandsKept
  <2>1. fleetCmd'["apply"] = fleetCmd["apply"]
    BY <1>2 DEF EnqueueRollback, FleetTypeOK
  <2>2. QED
    BY <2>1 DEF CommandsKept
<1>3. ASSUME NEW w \in Workers, EnqueueRollout(w)
      PROVE  CommandsKept
  <2>1. PICK c : fleetCmd' = [fleetCmd EXCEPT !["apply"][worker[w].row.stage][c] =
                                 IF @ = "absent" THEN "pending" ELSE @]
    BY <1>3 DEF EnqueueRollout
  <2>2. QED
    BY <2>1 DEF CommandsKept, FleetTypeOK
<1>4. CASE AgentAnswersRollout
  <2>1. PICK s \in Stage, c \in FleetCluster, r \in {"acked", "nacked"} :
           /\ fleetCmd["apply"][s][c] = "pending"
           /\ fleetCmd' = [fleetCmd EXCEPT !["apply"][s][c] = r]
    BY <1>4 DEF AgentAnswersRollout
  <2>2. QED
    BY <2>1 DEF CommandsKept, FleetTypeOK
<1>5. ASSUME NEW w \in Workers, TransitionAction(w)
      PROVE  CommandsKept
  BY <1>1, <1>5, TransitionActionStep
<1>6. ASSUME NEW w \in Workers, WorkerStep(w) \/ WorkerFails(w)
      PROVE  CommandsKept
  BY <1>1, <1>2, <1>3, <1>5, <1>6
     DEF WorkerStep, WorkerFails, TransitionAction, RollbackRefused, requestGateApproval, setGateApproval,
         advanceOnce, SeedBegin, SeedUnresolved, SeedTarget, ReconcileTargets, setTargetStatus,
         TargetsReconciled, deliverBatch, MarkDeliveredTarget, advanceStage
<1>7. QED
  BY <1>1, <1>4, <1>6
     DEF FleetNext, fleetVars, FleetRoutes, httpCreateRollout, httpDeleteClusterSet, httpStartRollout,
         httpStopRollout, httpResumeRollout, httpRollbackRollout, RolloutHandler, AdvanceSweep, DecideGate,
         GateDecided

\* A worker comes to marking a target only from queueing its command.
LEMMA ComesToMark ==
  ASSUME FleetTypeOK, RowsInStage, [FleetNext]_fleetVars, NEW w \in Workers, worker'[w].pc = "mark"
  PROVE  worker'[w] = worker[w] \/ EnqueueRollout(w)
<1>1. CASE worker' = worker
  BY <1>1
<1>2. ASSUME NEW v \in Workers, v # w, worker' = [worker EXCEPT ![v] = worker'[v]]
      PROVE  worker'[w] = worker[w]
  BY <1>2 DEF FleetTypeOK
<1>3. ASSUME NEW v \in Workers, WorkerStep(v) \/ WorkerFails(v), v # w
      PROVE  worker'[w] = worker[w]
  BY <1>2, <1>3, WorkerStepOK DEF StepOK
<1>4. CASE WorkerFails(w)
  BY <1>4 DEF WorkerFails, FinishCall, FleetTypeOK, IdleWorker
<1>5. CASE TransitionAction(w)
  BY <1>5, TransitionActionStep
<1>6. CASE WorkerStep(w) /\ ~TransitionAction(w)
  <2>1. ASSUME FinishCall(w)
        PROVE  FALSE
    BY <2>1 DEF FinishCall, FleetTypeOK, IdleWorker
  <2>3. ~EnqueueRollback(w) /\ ~RollbackRefused(w) /\ ~SeedUnresolved(w) /\ ~setGateApproval(w)
    BY <2>1 DEF EnqueueRollback, RollbackRefused, SeedUnresolved, setGateApproval, Goto, FleetTypeOK
  <2>4. ~requestGateApproval(w)
    BY DEF requestGateApproval, FleetTypeOK
  <2>5. ~advanceOnce(w)
    <3> SUFFICES ASSUME advanceOnce(w) PROVE FALSE
      OBVIOUS
    <3>1. PICK next \in {"idle", "clear", "request", "complete", "list"} :
             worker' = [worker EXCEPT ![w] = [IdleWorker EXCEPT !.pc = next,
                           !.row = IF next = "idle" THEN IdleWorker.row ELSE rollout]]
      BY DEF advanceOnce
    <3>2. worker'[w] = [IdleWorker EXCEPT !.pc = next, !.row = IF next = "idle" THEN IdleWorker.row ELSE rollout]
      BY <3>1 DEF FleetTypeOK
    <3>3. QED
      BY <3>2 DEF IdleWorker
  <2>6. ~SeedBegin(w)
    BY DEF SeedBegin, FleetTypeOK
  <2>7. ~SeedTarget(w)
    <3> DEFINE stage == worker[w].row.stage
               to == IF Stages[stage].before # "none" THEN "before" ELSE "batch"
               slots == ParseMaxConcurrency(stage, stageMembers(stage))
    <3> SUFFICES ASSUME SeedTarget(w) PROVE FALSE
      OBVIOUS
    <3>1. worker[w].pc = "seed" /\ to # "mark"
      BY DEF SeedTarget, pc
    <3>2. PICK c \in worker[w].todo :
             worker' = IF worker[w].todo # {c} THEN [worker EXCEPT ![w].todo = @ \ {c}]
                       ELSE [worker EXCEPT ![w].todo = {}, ![w].pc = to, ![w].slots = slots]
      BY DEF SeedTarget
    <3> HIDE DEF to, slots
    <3>3. QED
      BY <3>1, <3>2 DEF FleetTypeOK
  <2>8. ~ReconcileTargets(w) /\ ~setTargetStatus(w) /\ ~TargetsReconciled(w)
    <3>1. ASSUME ReconcileTargets(w)
          PROVE  worker'[w].pc \in Acks
      <4> DEFINE stage == worker[w].row.stage
                 changed == {c \in FleetCluster : Reconciled(stage)[c] # rolloutTarget[stage][c]}
                 free == ParseMaxConcurrency(stage, stageMembers(stage))
                         - Cardinality({c \in FleetCluster : Reconciled(stage)[c] = "delivered"})
                 slots == IF free > 0 THEN free ELSE 0
      <4>1. PICK to \in Acks : worker' = [worker EXCEPT ![w].todo = changed, ![w].slots = slots, ![w].pc = to]
        BY <3>1 DEF ReconcileTargets, Acks
      <4> HIDE DEF changed, slots
      <4>2. QED
        BY <4>1 DEF FleetTypeOK
    <3>2. setTargetStatus(w) => worker'[w].pc \in Acks
      BY DEF setTargetStatus, FleetTypeOK, pc
    <3>3. ~TargetsReconciled(w)
      BY <2>1 DEF TargetsReconciled, FleetTypeOK, Goto
    <3>4. QED
      BY <3>1, <3>2, <3>3 DEF Acks
  <2>9. ~deliverBatch(w)
    <3>1. deliverBatch(w) => FinishCall(w) \/ \E batch :
             worker' = [worker EXCEPT ![w].pc = "deliver", ![w].todo = batch]
      BY DEF deliverBatch
    <3>2. QED
      BY <2>1, <3>1 DEF FleetTypeOK
  <2>10. ~MarkDeliveredTarget(w)
    BY <2>1 DEF MarkDeliveredTarget, FleetTypeOK
  <2>11. ~advanceStage(w)
    BY <2>1 DEF advanceStage, FleetTypeOK, Goto
  <2>12. QED
    BY <1>6, <2>3, <2>4, <2>5, <2>6, <2>7, <2>8, <2>9, <2>10, <2>11 DEF WorkerStep, TransitionAction
<1>7. ASSUME NEW v \in FleetWorker, NEW op \in {"start", "stop", "resume", "rollback"}, LoadRollout(v, op)
      PROVE  worker'[w] = worker[w]
  BY <1>7 DEF LoadRollout, FleetTypeOK, Workers
<1>8. ASSUME NEW v \in FleetWorker, NEW a \in FleetApproval, GateDecided(v, a)
      PROVE  worker'[w] = worker[w]
  BY <1>8 DEF GateDecided, FleetTypeOK, Workers
<1>9. CASE AdvanceSweep
  BY <1>9 DEF AdvanceSweep, Goto, FleetTypeOK, Workers
<1>10. CASE FleetRoutes
  BY <1>1, <1>7, <1>10
     DEF FleetRoutes, httpCreateRollout, httpDeleteClusterSet, httpStartRollout, httpStopRollout,
         httpResumeRollout, httpRollbackRollout, RolloutHandler
<1>11. QED
  BY <1>1, <1>3, <1>4, <1>5, <1>6, <1>8, <1>9, <1>10 DEF FleetNext, fleetVars, AgentAnswersRollout, DecideGate

\* Every step keeps a command behind each target that is about to be marked.
LEMMA QueuedBeforeMarkedPreserved ==
  ASSUME FleetTypeOK, RowsInStage, QueuedBeforeMarked, [FleetNext]_fleetVars
  PROVE  QueuedBeforeMarked'
<1> SUFFICES ASSUME NEW w \in Workers, worker'[w].pc = "mark"
             PROVE  /\ worker'[w].at \in FleetCluster
                    /\ fleetCmd'["apply"][worker'[w].row.stage][worker'[w].at] # "absent"
  BY DEF QueuedBeforeMarked, pc
<1>1. CASE worker'[w] = worker[w]
  <2>1. worker[w].row.stage \in Stage
    BY <1>1 DEF RowsInStage, WorkerOK, StagePc
  <2>2. QED
    BY <1>1, <2>1, FleetCommandsKept DEF QueuedBeforeMarked, pc, CommandsKept
<1>2. CASE EnqueueRollout(w)
  <2> DEFINE s == worker[w].row.stage
  <2>1. s \in Stage /\ worker[w].todo \subseteq FleetCluster
    BY <1>2 DEF EnqueueRollout, RowsInStage, WorkerOK, WorkerRecord, StagePc, pc
  <2>2. PICK c \in worker[w].todo :
           /\ fleetCmd' = [fleetCmd EXCEPT !["apply"][s][c] = IF @ = "absent" THEN "pending" ELSE @]
           /\ worker' = [worker EXCEPT ![w].pc = "mark", ![w].at = c]
    BY <1>2 DEF EnqueueRollout
  <2>3. worker'[w].at = c /\ worker'[w].row.stage = s
    BY <2>2 DEF FleetTypeOK
  <2>4. fleetCmd'["apply"][s][c] # "absent"
    BY <2>1, <2>2 DEF FleetTypeOK
  <2>5. QED
    BY <2>1, <2>3, <2>4
<1>3. QED
  BY <1>1, <1>2, ComesToMark

\* What a step may do to a target: seed it again, mark it with its command
\* queued, or carry over the agent's answer.
LEMMA TargetStep ==
  ASSUME FleetTypeOK, RowsInStage, QueuedBeforeMarked, [FleetNext]_fleetVars, NEW s \in Stage, NEW c \in FleetCluster
  PROVE  \/ rolloutTarget'[s][c] \in {rolloutTarget[s][c], "pending"}
         \/ rolloutTarget'[s][c] = "delivered" /\ fleetCmd["apply"][s][c] # "absent"
         \/ rolloutTarget'[s][c] = "healthy" /\ fleetCmd["apply"][s][c] = "acked"
         \/ rolloutTarget'[s][c] = "failed" /\ fleetCmd["apply"][s][c] = "nacked"
<1>1. CASE UNCHANGED rolloutTarget
  BY <1>1
<1>2. ASSUME NEW w \in Workers, SeedTarget(w)
      PROVE  rolloutTarget'[s][c] \in {rolloutTarget[s][c], "pending"}
  <2>1. PICK d : rolloutTarget' = [rolloutTarget EXCEPT ![worker[w].row.stage][d] = "pending"]
    BY <1>2 DEF SeedTarget, upsertTarget
  <2>2. QED
    BY <2>1 DEF FleetTypeOK
<1>3. ASSUME NEW w \in Workers, MarkDeliveredTarget(w)
      PROVE  \/ rolloutTarget'[s][c] = rolloutTarget[s][c]
             \/ rolloutTarget'[s][c] = "delivered" /\ fleetCmd["apply"][s][c] # "absent"
  <2>1. /\ rolloutTarget' = [rolloutTarget EXCEPT ![worker[w].row.stage][worker[w].at] = "delivered"]
        /\ fleetCmd["apply"][worker[w].row.stage][worker[w].at] # "absent"
    BY <1>3 DEF MarkDeliveredTarget, upsertTarget, QueuedBeforeMarked, pc
  <2>2. QED
    BY <2>1 DEF FleetTypeOK
<1>4. ASSUME NEW w \in Workers, setTargetStatus(w)
      PROVE  \/ rolloutTarget'[s][c] = rolloutTarget[s][c]
             \/ rolloutTarget'[s][c] = "healthy" /\ fleetCmd["apply"][s][c] = "acked"
             \/ rolloutTarget'[s][c] = "failed" /\ fleetCmd["apply"][s][c] = "nacked"
  <2> DEFINE at == worker[w].row.stage
  <2>1. PICK d : \/ /\ fleetCmd["apply"][at][d] = "acked"
                    /\ rolloutTarget' = [rolloutTarget EXCEPT ![at][d] = "healthy"]
                 \/ /\ fleetCmd["apply"][at][d] = "nacked"
                    /\ rolloutTarget' = [rolloutTarget EXCEPT ![at][d] = "failed"]
    BY <1>4 DEF setTargetStatus, upsertTarget
  <2> HIDE DEF at
  <2>2. PICK v \in {"healthy", "failed"} :
           /\ rolloutTarget' = [rolloutTarget EXCEPT ![at][d] = v]
           /\ fleetCmd["apply"][at][d] = IF v = "healthy" THEN "acked" ELSE "nacked"
    BY <2>1
  <2>3. rolloutTarget'[s][c] = IF s = at /\ c = d THEN v ELSE rolloutTarget[s][c]
    BY <2>2 DEF FleetTypeOK
  <2>4. QED
    BY <2>2, <2>3
<1>5. ASSUME NEW w \in Workers, TransitionAction(w)
      PROVE  UNCHANGED rolloutTarget
  BY <1>5, TransitionActionStep
<1>6. QED
  BY <1>1, <1>2, <1>3, <1>4, <1>5
     DEF FleetNext, fleetVars, WorkerStep, WorkerFails, TransitionAction, EnqueueRollback, RollbackRefused,
         requestGateApproval, setGateApproval, advanceOnce, SeedBegin, SeedUnresolved, ReconcileTargets,
         TargetsReconciled, deliverBatch, EnqueueRollout, advanceStage, AgentAnswersRollout, DecideGate, AdvanceSweep, GateDecided,
         FleetRoutes, httpCreateRollout, httpDeleteClusterSet, httpStartRollout, httpStopRollout,
         httpResumeRollout, httpRollbackRollout, RolloutHandler

\* Every step keeps a command behind each target that counts.
LEMMA TargetBackedPreserved ==
  ASSUME FleetInv, [FleetNext]_fleetVars
  PROVE  TargetBacked'
<1> SUFFICES ASSUME NEW s \in Stage, NEW c \in FleetCluster
             PROVE  /\ rolloutTarget'[s][c] \in {"delivered", "healthy", "failed"} => fleetCmd'["apply"][s][c] # "absent"
                    /\ rolloutTarget'[s][c] = "healthy" => fleetCmd'["apply"][s][c] = "acked"
  BY DEF TargetBacked
<1>1. /\ fleetCmd["apply"][s][c] # "absent" => fleetCmd'["apply"][s][c] # "absent"
      /\ fleetCmd["apply"][s][c] = "acked" => fleetCmd'["apply"][s][c] = "acked"
  BY FleetCommandsKept DEF FleetInv, CommandsKept
<1>2. QED
  BY <1>1, TargetStep DEF FleetInv, TargetBacked

-----------------------------------------------------------------------------
(* Fleet: theorems *)

\* A tenant without a rollout satisfies the invariant.
LEMMA FleetInitInv == FleetInit => FleetInv
<1> SUFFICES ASSUME FleetInit PROVE FleetInv
  OBVIOUS
<1>1. RowsInStage /\ worker \in [Workers -> WorkerRecord]
  BY IdleWorkerOK DEF FleetInit, RowsInStage, WorkerOK
<1>2. FleetTypeOK
  BY <1>1, FleetAssumption, FleetConstants
     DEF FleetInit, FleetTypeOK, RowsInStage, RowOK, WorkerRecord, FleetPc, StagePc
<1>3. QueuedBeforeMarked /\ TargetBacked
  BY DEF FleetInit, QueuedBeforeMarked, TargetBacked, pc, IdleWorker
<1>4. QED
  BY <1>1, <1>2, <1>3 DEF FleetInv

\* Any number of handlers, sweeps, failures and answers keep the invariant.
THEOREM FleetInvariant == FleetSpec => []FleetInv
<1>1. FleetInv /\ [FleetNext]_fleetVars => FleetInv'
  BY FleetTypePreserved, RowsInStagePreserved, QueuedBeforeMarkedPreserved, TargetBackedPreserved DEF FleetInv
<1>2. QED
  BY FleetInitInv, <1>1, PTL DEF FleetSpec

\* The rollout, its targets and the workers' copies of them are well typed.
THEOREM FleetTypeCorrect == FleetSpec => []FleetTypeOK
<1>1. FleetInv => FleetTypeOK
  BY DEF FleetInv
<1>2. QED
  BY FleetInvariant, <1>1, PTL

\* deliverBatch and its crashes: a target that counts as delivered has its
\* command in the queue, and a healthy one was acknowledged by its agent.
THEOREM FleetTargetBacked == FleetSpec => []TargetBacked
<1>1. FleetInv => TargetBacked
  BY DEF FleetInv
<1>2. QED
  BY FleetInvariant, <1>1, PTL

\* setRolloutState: the state moves along the edges of the machine, although
\* every worker decides on a row it read some steps ago.
THEOREM FleetFollowsMachine == FleetSpec => RolloutFollowsMachine
<1> DEFINE Edge == rollout'.state # rollout.state =>
                      \/ <<rollout.state, rollout'.state>> = <<"absent", "pending">>
                      \/ CanRolloutTransition(rollout.state, rollout'.state)
<1>1. ASSUME FleetTypeOK, RowsInStage, FleetNext
      PROVE  Edge
  <2>1. ASSUME NEW w \in Workers, WorkerStep(w) \/ WorkerFails(w)
        PROVE  Edge
    BY <1>1, <2>1, WorkerStepOK DEF StepOK
  <2>2. ASSUME NEW u \in User, httpCreateRollout(u)
        PROVE  Edge
    BY <1>1, <2>2 DEF httpCreateRollout, FleetTypeOK, RolloutRow
  <2>3. CASE UNCHANGED rollout
    BY <2>3
  <2>4. QED
    BY <1>1, <2>1, <2>2, <2>3
       DEF FleetNext, FleetRoutes, httpDeleteClusterSet, httpStartRollout, httpStopRollout, httpResumeRollout,
           httpRollbackRollout, RolloutHandler, AdvanceSweep, AgentAnswersRollout, DecideGate, GateDecided
<1>2. FleetInv /\ [FleetNext]_fleetVars => [Edge]_fleetVars
  BY <1>1 DEF FleetInv
<1>3. QED
  BY FleetInvariant, <1>2, PTL DEF FleetSpec, RolloutFollowsMachine

-----------------------------------------------------------------------------
(* ExtensionUi *)

\* An entry that is kept under a checksum has it.
KeptIsPinned ==
    \A s \in UiServer : \A e \in uiCache[s] :
        e.file = "remoteEntry.js" /\ e.key.checksum # NoSum => e.body = e.key.checksum
UiInv == UiTypeOK /\ KeptIsPinned /\ PinnedIsServed

UiRequestRow == [pc : {"idle", "lookup", "fetch", "put"}, at : UiServer, desc : UiDescriptor, file : AssetFile, body : Bundle]
UiUpdateRow == [pc : {"idle", "write", "delete", "forget"}, at : UiServer, prev : UiDescriptor]

LEMMA UiConstants == IdleRequest \in UiRequestRow /\ IdleUpdate \in UiUpdateRow
<1>1. AnyDescriptor \in UiDescriptor
  <2>1. [source |-> "remoteEntry", checksum |-> NoSum] \in UiDescriptor
    BY DEF UiDescriptor, RemoteSource
  <2>2. QED
    BY <2>1 DEF AnyDescriptor
<1>2. (CHOOSE s \in UiServer : TRUE) \in UiServer /\ (CHOOSE b \in Bundle : TRUE) \in Bundle
  BY UiAssumption
<1>3. QED
  BY <1>1, <1>2 DEF IdleRequest, IdleUpdate, UiRequestRow, UiUpdateRow, AssetFile

LEMMA UiTyped ==
  ASSUME UiInv
  PROVE  /\ uiRow \in UiRow /\ uiRow.desc \in UiDescriptor /\ published \in [RemoteSource -> Bundle]
         /\ uiCache \in [UiServer -> SUBSET remoteEntryCacheEntry]
         /\ uiRequest \in [UiRequest -> UiRequestRow] /\ \A q \in UiRequest : uiRequest[q] \in UiRequestRow
         /\ uiUpdate \in UiUpdateRow /\ served \in [desc : UiDescriptor, file : AssetFile, body : Bundle]
BY DEF UiInv, UiTypeOK, UiRow, UiRequestRow, UiUpdateRow

\* What a step has to keep.
LEMMA UiKeeps ==
  ASSUME UiInv,
         uiRow' \in UiRow, published' \in [RemoteSource -> Bundle], uiCache' \in [UiServer -> SUBSET remoteEntryCacheEntry],
         uiRequest' \in [UiRequest -> UiRequestRow], uiUpdate' \in UiUpdateRow,
         uiAsked' \in 0 .. MaxUiRequests, uiUpdates' \in 0 .. MaxUpdates, publications' \in 0 .. MaxPublications,
         UNCHANGED served \/ served' \in [desc : UiDescriptor, file : AssetFile, body : Bundle],
         KeptIsPinned', PinnedIsServed'
  PROVE  UiInv'
BY DEF UiInv, UiTypeOK, UiRequestRow, UiUpdateRow

LEMMA ServedSame == ASSUME UiInv, UNCHANGED served PROVE PinnedIsServed'
BY DEF UiInv, PinnedIsServed

\* Entries that go, and entries that get older, are still pinned.
LEMMA CacheShrinks ==
  ASSUME UiInv, NEW s \in UiServer, NEW kept, kept \subseteq remoteEntryCacheEntry, uiCache' = [uiCache EXCEPT ![s] = kept],
         \A e \in kept : \E d \in uiCache[s] : d.file = e.file /\ d.key = e.key /\ d.body = e.body
  PROVE  uiCache' \in [UiServer -> SUBSET remoteEntryCacheEntry] /\ KeptIsPinned'
BY UiTyped DEF UiInv, KeptIsPinned

LEMMA InvalidateKeeps ==
  ASSUME UiInv, NEW s \in UiServer, NEW d, Invalidate(s, d)
  PROVE  uiCache' \in [UiServer -> SUBSET remoteEntryCacheEntry] /\ KeptIsPinned'
<1> DEFINE kept == uiCache[s] \ cachedFor(s, d, "remoteEntry.js")
<1>1. kept \subseteq uiCache[s] /\ kept \subseteq remoteEntryCacheEntry
  BY UiTyped
<1>2. uiCache' = [uiCache EXCEPT ![s] = kept]
  BY DEF Invalidate
<1> HIDE DEF kept
<1>3. QED
  BY <1>1, <1>2, CacheShrinks

LEMMA ttlKeepsInv == ASSUME UiInv, NEW s \in UiServer, NEW e \in uiCache[s], ttl(s, e) PROVE UiInv'
<1> DEFINE kept == (uiCache[s] \ {e}) \cup {[e EXCEPT !.fresh = FALSE]}
<1>1. e \in remoteEntryCacheEntry /\ uiCache[s] \subseteq remoteEntryCacheEntry
  BY UiTyped
<1>2. /\ [e EXCEPT !.fresh = FALSE] \in remoteEntryCacheEntry
      /\ [e EXCEPT !.fresh = FALSE].file = e.file /\ [e EXCEPT !.fresh = FALSE].key = e.key /\ [e EXCEPT !.fresh = FALSE].body = e.body
  BY <1>1 DEF remoteEntryCacheEntry
<1>3. uiCache' = [uiCache EXCEPT ![s] = kept] /\ UNCHANGED <<uiRow, published, uiRequest, uiUpdate, served, uiAsked, uiUpdates, publications>>
  BY DEF ttl
<1>4. kept \subseteq remoteEntryCacheEntry /\ \A f \in kept : \E d \in uiCache[s] : d.file = f.file /\ d.key = f.key /\ d.body = f.body
  BY <1>1, <1>2
<1> HIDE DEF kept
<1>5. uiCache' \in [UiServer -> SUBSET remoteEntryCacheEntry] /\ KeptIsPinned'
  BY <1>3, <1>4, CacheShrinks
<1>6. QED
  BY <1>3, <1>5, UiTyped, UiKeeps, ServedSame DEF UiInv, UiTypeOK

LEMMA RequestEndsTyped == ASSUME UiInv, NEW q \in UiRequest, RequestEnds(q) PROVE uiRequest' \in [UiRequest -> UiRequestRow]
BY UiTyped, UiConstants DEF RequestEnds

\* A body that was checked, or a chunk, is kept and served.
LEMMA PutKeepsInv ==
  ASSUME UiInv, NEW q \in UiRequest, NEW r, r = uiRequest[q], cacheSame, UNCHANGED uiAsked, RequestEnds(q),
         PutEntry(r.at, r.desc, r.file, r.body), Answers(q, r.body),
         r.file = "remoteEntry.js" => r.desc.checksum \in {NoSum, r.body}
  PROVE  UiInv'
<1> DEFINE entry == [key |-> r.desc, file |-> r.file, body |-> r.body, fresh |-> TRUE]
           kept == (uiCache[r.at] \ cachedFor(r.at, r.desc, r.file)) \cup {entry}
<1>1. r \in UiRequestRow /\ r.at \in UiServer /\ r.desc \in UiDescriptor /\ r.file \in AssetFile /\ r.body \in Bundle
  BY UiTyped DEF UiRequestRow
<1>2. entry \in remoteEntryCacheEntry
  BY <1>1 DEF remoteEntryCacheEntry
<1>3. uiCache' = [uiCache EXCEPT ![r.at] = kept]
  BY DEF PutEntry, cacheKey
<1>4. kept \subseteq remoteEntryCacheEntry
  BY <1>1, <1>2, UiTyped
<1>5. \A e \in kept : e \in uiCache[r.at] \/ e = entry
  OBVIOUS
<1>6. entry.file = "remoteEntry.js" /\ entry.key.checksum # NoSum => entry.body = entry.key.checksum
  OBVIOUS
<1> HIDE DEF entry, kept
<1>7. uiCache' \in [UiServer -> SUBSET remoteEntryCacheEntry]
  BY <1>1, <1>3, <1>4, UiTyped
<1>8. KeptIsPinned'
  BY <1>1, <1>3, <1>5, <1>6, UiTyped DEF KeptIsPinned, UiInv
<1>9. served' \in [desc : UiDescriptor, file : AssetFile, body : Bundle] /\ PinnedIsServed'
  BY <1>1 DEF Answers, PinnedIsServed
<1>10. QED
  BY <1>7, <1>8, <1>9, UiTyped, UiKeeps, RequestEndsTyped DEF cacheSame, UiInv, UiTypeOK

LEMMA LookupKeepsInv == ASSUME UiInv, NEW q \in UiRequest, NEW file, Lookup(q, file) PROVE UiInv'
<1> DEFINE r == uiRequest[q]
<1>1. r \in UiRequestRow
  BY UiTyped
<1>2. cacheSame /\ UNCHANGED <<uiCache, uiAsked>>
  BY DEF Lookup
<1>3. KeptIsPinned'
  BY <1>2 DEF UiInv, KeptIsPinned
<1>4. CASE \E e \in cachedFor(r.at, r.desc, r.file) : Answers(q, e.body) /\ RequestEnds(q)
  <2>1. PICK e \in cachedFor(r.at, r.desc, r.file) : Answers(q, e.body) /\ RequestEnds(q)
    BY <1>4
  <2>2. e \in uiCache[r.at] /\ e.key = r.desc /\ e.file = r.file /\ r.at \in UiServer /\ e \in remoteEntryCacheEntry
    BY <1>1, UiTyped DEF cachedFor, cacheKey, UiRequestRow
  <2>3. served' = [desc |-> r.desc, file |-> r.file, body |-> e.body]
    BY <2>1 DEF Answers
  <2>4. served' \in [desc : UiDescriptor, file : AssetFile, body : Bundle]
    BY <1>1, <2>2, <2>3 DEF remoteEntryCacheEntry, UiRequestRow
  <2>5. PinnedIsServed'
    BY <2>2, <2>3 DEF PinnedIsServed, UiInv, KeptIsPinned
  <2>6. QED
    BY <1>2, <1>3, <2>1, <2>4, <2>5, UiTyped, UiKeeps, RequestEndsTyped DEF cacheSame, UiInv, UiTypeOK
<1>5. CASE uiRequest' = [uiRequest EXCEPT ![q].pc = "fetch"] /\ UNCHANGED served
  <2>1. uiRequest' \in [UiRequest -> UiRequestRow]
    BY <1>5, UiTyped DEF UiRequestRow
  <2>2. QED
    BY <1>2, <1>3, <1>5, <2>1, UiTyped, UiKeeps, ServedSame DEF cacheSame, UiInv, UiTypeOK
<1>6. QED
  BY <1>4, <1>5 DEF Lookup

LEMMA FetchStepKeepsInv == ASSUME UiInv, NEW q \in UiRequest, FetchStep(q) PROVE UiInv'
<1>1. ASSUME NEW source \in RemoteSource, FetchFrom(q, source) PROVE UiInv'
  <2>1. cacheSame /\ UNCHANGED <<uiCache, served, uiAsked>> /\ KeptIsPinned'
    BY <1>1 DEF FetchFrom, UiInv, KeptIsPinned
  <2>2. published[source] \in Bundle
    BY <1>1, UiTyped
  <2>3. uiRequest' \in [UiRequest -> UiRequestRow]
    <3>1. CASE RequestEnds(q)
      BY <3>1, RequestEndsTyped
    <3>2. CASE uiRequest' = [uiRequest EXCEPT ![q].pc = "put", ![q].body = published[source]]
      BY <2>2, <3>2, UiTyped DEF UiRequestRow
    <3>3. QED
      BY <1>1, <3>1, <3>2 DEF FetchFrom
  <2>4. QED
    BY <2>1, <2>3, UiTyped, UiKeeps, ServedSame DEF cacheSame, UiInv, UiTypeOK
<1>2. ASSUME cacheSame, RequestEnds(q), UNCHANGED <<uiCache, served, uiAsked>> PROVE UiInv'
  <2>1. KeptIsPinned'
    BY <1>2 DEF UiInv, KeptIsPinned
  <2>2. QED
    BY <1>2, <2>1, UiTyped, UiKeeps, ServedSame, RequestEndsTyped DEF cacheSame, UiInv, UiTypeOK
<1>3. CASE Fetch(q)
  BY <1>2, <1>3, LookupKeepsInv, PutKeepsInv DEF Fetch
<1>4. CASE FetchAsset(q)
  BY <1>4, LookupKeepsInv, PutKeepsInv DEF FetchAsset
<1>5. QED
  BY <1>1, <1>3, <1>4 DEF FetchStep, fetchHTTP, fetchOCI, RemoteSource

LEMMA AssetRequestKeepsInv ==
  ASSUME UiInv, NEW q \in UiRequest, NEW s \in UiServer, NEW file \in AssetFile, AssetRequest(q, s, file) PROVE UiInv'
<1>1. cacheSame /\ UNCHANGED <<uiCache, served>> /\ KeptIsPinned'
  BY DEF AssetRequest, UiInv, KeptIsPinned
<1>2. [IdleRequest EXCEPT !.pc = "lookup", !.at = s, !.desc = uiRow.desc, !.file = file] \in UiRequestRow
  BY UiTyped, UiConstants DEF UiRequestRow
<1>3. uiRequest' \in [UiRequest -> UiRequestRow]
  BY <1>2, UiTyped DEF AssetRequest
<1>4. uiAsked' \in 0 .. MaxUiRequests
  BY UiAssumption DEF AssetRequest, UiInv, UiTypeOK
<1>5. QED
  BY <1>1, <1>3, <1>4, UiTyped, UiKeeps, ServedSame DEF cacheSame, UiInv, UiTypeOK

LEMMA UiManagementKeepsInv ==
  ASSUME UiInv,
         \/ \E u \in User, s \in UiServer : registerUiBegins(u, s) \/ unregisterUiBegins(u, s)
         \/ registerUiWrites \/ unregisterUiWrites \/ invalidateUiCache
  PROVE  UiInv'
<1>1. ASSUME NEW u \in User, NEW s \in UiServer, registerUiBegins(u, s) PROVE UiInv'
  <2>1. uiUpdate' \in UiUpdateRow /\ updateSame /\ UNCHANGED uiRow
    BY <1>1, UiTyped DEF registerUiBegins, UiUpdateRow
  <2>2. uiUpdates' \in 0 .. MaxUpdates
    BY <1>1, UiAssumption DEF registerUiBegins, UiManages, UiInv, UiTypeOK
  <2>3. uiCache' \in [UiServer -> SUBSET remoteEntryCacheEntry] /\ KeptIsPinned'
    <3>1. CASE Invalidate(s, uiRow.desc)
      BY <3>1, InvalidateKeeps
    <3>2. CASE UNCHANGED uiCache
      BY <3>2, UiTyped DEF UiInv, KeptIsPinned
    <3>3. QED
      BY <1>1, <3>1, <3>2 DEF registerUiBegins
  <2>4. QED
    BY <2>1, <2>2, <2>3, UiTyped, UiKeeps, ServedSame DEF updateSame, UiInv, UiTypeOK
<1>2. ASSUME UNCHANGED uiCache PROVE uiCache' \in [UiServer -> SUBSET remoteEntryCacheEntry] /\ KeptIsPinned'
  BY <1>2, UiTyped DEF UiInv, KeptIsPinned
<1>3. ASSUME NEW u \in User, NEW s \in UiServer, unregisterUiBegins(u, s) PROVE UiInv'
  <2>1. uiUpdate' \in UiUpdateRow /\ updateSame /\ UNCHANGED <<uiCache, uiRow>>
    BY <1>3, UiTyped DEF unregisterUiBegins, UiUpdateRow
  <2>2. uiUpdates' \in 0 .. MaxUpdates
    BY <1>3, UiAssumption DEF unregisterUiBegins, UiManages, UiInv, UiTypeOK
  <2>3. QED
    BY <1>2, <2>1, <2>2, UiTyped, UiKeeps, ServedSame DEF updateSame, UiInv, UiTypeOK
<1>4. CASE registerUiWrites
  <2>1. updateSame /\ UNCHANGED <<uiCache, uiUpdates>> /\ uiUpdate' \in UiUpdateRow /\ uiRow' \in UiRow
    BY <1>4, UiConstants DEF registerUiWrites, UiRow
  <2>2. QED
    BY <1>2, <2>1, UiTyped, UiKeeps, ServedSame DEF updateSame, UiInv, UiTypeOK
<1>5. CASE unregisterUiWrites
  <2>1. updateSame /\ UNCHANGED <<uiCache, uiUpdates>> /\ uiUpdate' \in UiUpdateRow /\ uiRow' \in UiRow
    BY <1>5, UiTyped DEF unregisterUiWrites, UiRow, UiUpdateRow
  <2>2. QED
    BY <1>2, <2>1, UiTyped, UiKeeps, ServedSame DEF updateSame, UiInv, UiTypeOK
<1>6. CASE invalidateUiCache
  <2>1. updateSame /\ UNCHANGED <<uiRow, uiUpdates>> /\ uiUpdate' \in UiUpdateRow /\ Invalidate(uiUpdate.at, uiUpdate.prev)
    BY <1>6, UiConstants DEF invalidateUiCache
  <2>2. uiUpdate.at \in UiServer
    BY UiTyped DEF UiUpdateRow
  <2>3. uiCache' \in [UiServer -> SUBSET remoteEntryCacheEntry] /\ KeptIsPinned'
    BY <2>1, <2>2, InvalidateKeeps
  <2>4. QED
    BY <2>1, <2>3, UiTyped, UiKeeps, ServedSame DEF updateSame, UiInv, UiTypeOK
<1>7. QED
  BY <1>1, <1>3, <1>4, <1>5, <1>6

LEMMA PublishesKeepsInv == ASSUME UiInv, Publishes PROVE UiInv'
<1>1. UNCHANGED <<uiRow, uiCache, uiRequest, uiUpdate, served, uiAsked, uiUpdates>> /\ published' \in [RemoteSource -> Bundle]
  BY UiTyped DEF Publishes
<1>2. publications' \in 0 .. MaxPublications /\ KeptIsPinned'
  BY <1>1, UiAssumption DEF Publishes, UiInv, UiTypeOK, KeptIsPinned
<1>3. QED
  BY <1>1, <1>2, UiTyped, UiKeeps, ServedSame DEF UiInv, UiTypeOK

LEMMA UiInvInit == ASSUME UiInit PROVE UiInv
<1>1. PICK b \in Bundle, d \in UiDescriptor :
          /\ d.checksum \in {NoSum, b} /\ uiRow = [on |-> "enabled", desc |-> d] /\ published = [s \in RemoteSource |-> b]
          /\ served = [desc |-> d, file |-> "chunk", body |-> b]
  BY DEF UiInit
<1>2. UiTypeOK
  BY <1>1, UiConstants, UiAssumption DEF UiInit, UiTypeOK, UiRow, AssetFile, UiRequestRow, UiUpdateRow
<1>3. KeptIsPinned /\ PinnedIsServed
  BY <1>1 DEF UiInit, KeptIsPinned, PinnedIsServed
<1>4. QED
  BY <1>2, <1>3 DEF UiInv

\* The inductive invariant of the served interfaces.
THEOREM UiInvariant == UiSpec => []UiInv
<1>1. UiInv /\ UiNext => UiInv'
  BY ttlKeepsInv, FetchStepKeepsInv, AssetRequestKeepsInv, UiManagementKeepsInv, PublishesKeepsInv
     DEF UiNext, EntryAges, ServeHTTP, ServeAsset, AssetFile
<1>2. UiInv /\ UNCHANGED uiVars => UiInv'
  BY DEF UiInv, UiTypeOK, KeptIsPinned, PinnedIsServed, uiVars
<1>3. QED
  BY UiInvInit, <1>1, <1>2, PTL DEF UiSpec

\* RemoteEntryFetcher.Fetch: an entry that was asked for under a checksum is the one with that checksum,
\* from the cache of whichever request kept it, and although the descriptor may change meanwhile.
THEOREM UiPinnedIsServed == UiSpec => []PinnedIsServed
<1>1. UiInv => PinnedIsServed
  BY DEF UiInv
<1>2. QED
  BY UiInvariant, <1>1, PTL
=============================================================================
