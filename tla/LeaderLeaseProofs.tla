-------------------------- MODULE LeaderLeaseProofs --------------------------
(***************************************************************************)
(* Proofs about LeaderLease for every set of replicas, every TTL, renewal  *)
(* interval and statement latency that satisfy the assumptions: types, the *)
(* bound on how long a replica that lost the database keeps driving the    *)
(* gated loop, and mutual exclusion as long as no database call fails.     *)
(***************************************************************************)
EXTENDS LeaderLease, TLAPS


\* Every step preserves the type invariant.
LEMMA TypePreserved ==
  ASSUME TypeOK, [Next]_vars
  PROVE  TypeOK'
<1> USE LeaseAssumption
<1>1. CASE UNCHANGED vars
  BY <1>1 DEF TypeOK, Acquiring, Renewing, Active, AgeCap, vars, row
<1>2. ASSUME NEW r \in Replica, AcquireSend(r)
      PROVE  TypeOK'
  BY <1>2 DEF TypeOK, Acquiring, Renewing, Active, AgeCap, AcquireSend, row
<1>3. ASSUME NEW r \in Replica, AcquireExec(r)
      PROVE  TypeOK'
  BY <1>3 DEF TypeOK, Acquiring, Renewing, Active, AgeCap, AcquireExec, Acquirable, row
<1>4. ASSUME NEW r \in Replica, Lead(r)
      PROVE  TypeOK'
  BY <1>4 DEF TypeOK, Acquiring, Renewing, Active, AgeCap, Lead, row
<1>5. ASSUME NEW r \in Replica, AcquireMiss(r)
      PROVE  TypeOK'
  BY <1>5 DEF TypeOK, Acquiring, Renewing, Active, AgeCap, AcquireMiss, CallFails, Acquiring, row
<1>6. ASSUME NEW r \in Replica, PauseCancelled(r)
      PROVE  TypeOK'
  BY <1>6 DEF TypeOK, Acquiring, Renewing, Active, AgeCap, PauseCancelled, row
<1>7. ASSUME NEW r \in Replica, RenewSend(r)
      PROVE  TypeOK'
  BY <1>7 DEF TypeOK, Acquiring, Renewing, Active, AgeCap, RenewSend, row
<1>8. ASSUME NEW r \in Replica, RenewExec(r)
      PROVE  TypeOK'
  BY <1>8 DEF TypeOK, Acquiring, Renewing, Active, AgeCap, RenewExec, Renewable
<1>9. ASSUME NEW r \in Replica, RenewReply(r)
      PROVE  TypeOK'
  BY <1>9 DEF TypeOK, Acquiring, Renewing, Active, AgeCap, RenewReply, row
<1>10. ASSUME NEW r \in Replica, RenewFail(r)
      PROVE  TypeOK'
  BY <1>10 DEF TypeOK, Acquiring, Renewing, Active, AgeCap, RenewFail, CallFails, Renewing, row
<1>11. ASSUME NEW r \in Replica, RenewEnd(r)
      PROVE  TypeOK'
  BY <1>11 DEF TypeOK, Acquiring, Renewing, Active, AgeCap, RenewEnd, row
<1>12. ASSUME NEW r \in Replica, LoseLead(r)
      PROVE  TypeOK'
  BY <1>12 DEF TypeOK, Acquiring, Renewing, Active, AgeCap, LoseLead, row
<1>13. ASSUME NEW r \in Replica, FnReturn(r)
      PROVE  TypeOK'
  BY <1>13 DEF TypeOK, Acquiring, Renewing, Active, AgeCap, FnReturn, row
<1>14. ASSUME NEW r \in Replica, Release(r)
      PROVE  TypeOK'
  BY <1>14 DEF TypeOK, Acquiring, Renewing, Active, AgeCap, Release, DeleteRow, EndLease, row
<1>15. ASSUME NEW r \in Replica, LateDelete(r)
      PROVE  TypeOK'
  BY <1>15 DEF TypeOK, Acquiring, Renewing, Active, AgeCap, LateDelete, DeleteRow, row
<1>16. ASSUME NEW r \in Replica, Shutdown(r)
      PROVE  TypeOK'
  BY <1>16 DEF TypeOK, Acquiring, Renewing, Active, AgeCap, Shutdown, row
<1>17. ASSUME NEW r \in Replica, Crash(r)
      PROVE  TypeOK'
  BY <1>17 DEF TypeOK, Acquiring, Renewing, Active, AgeCap, Crash, EndLease, row
<1>18. CASE Tick
  BY <1>18 DEF TypeOK, Acquiring, Renewing, Active, AgeCap, Tick, Settled, InFlight
<1>19. QED
  BY <1>1, <1>2, <1>3, <1>4, <1>5, <1>6, <1>7, <1>8, <1>9,
     <1>10, <1>11, <1>12, <1>13, <1>14, <1>15, <1>16, <1>17, <1>18
     DEF Next, Acquire, Renew, RunLoop

-----------------------------------------------------------------------------

\* How Run, the renew goroutine and the gated function go together.
Shape ==
    \A r \in Replica :
        /\ rn[r] # "off" => pc[r] \in {"lead", "join"}
        /\ fn[r] # "no" => pc[r] = "lead"
        /\ fn[r] = "run" => rn[r] # "off" /\ ~cancelled[r]
        /\ rn[r] \in Active => tickIn[r] >= 1

\* The time since the last good renewal: the TTL test of renewLoop sends the
\* replica back to wait only while the lease is at most TTL old, the next tick
\* comes within a renewal interval and the call it issues within Lag.
Ages ==
    \A r \in Replica :
        /\ rn[r] = "wait" /\ ~due[r] => age[r] + tickIn[r] <= TTL + RenewInterval
        /\ rn[r] = "wait" /\ due[r] => age[r] <= TTL + RenewInterval
        /\ rn[r] \in Renewing => age[r] <= TTL + RenewInterval + lag[r]
        /\ rn[r] = "done" => age[r] <= TTL + RenewInterval + Lag

\* Every step preserves Shape.
LEMMA ShapePreserved ==
  ASSUME TypeOK, Shape, [Next]_vars
  PROVE  Shape'
<1> USE LeaseAssumption
<1>1. CASE UNCHANGED vars
  BY <1>1 DEF TypeOK, Shape, Acquiring, Renewing, Active, vars, row
<1>2. ASSUME NEW r \in Replica, AcquireSend(r)
      PROVE  Shape'
  BY <1>2 DEF TypeOK, Shape, Acquiring, Renewing, Active, AcquireSend, row
<1>3. ASSUME NEW r \in Replica, AcquireExec(r)
      PROVE  Shape'
  BY <1>3 DEF TypeOK, Shape, Acquiring, Renewing, Active, AcquireExec, Acquirable, row
<1>4. ASSUME NEW r \in Replica, Lead(r)
      PROVE  Shape'
  BY <1>4 DEF TypeOK, Shape, Acquiring, Renewing, Active, Lead, row
<1>5. ASSUME NEW r \in Replica, AcquireMiss(r)
      PROVE  Shape'
  BY <1>5 DEF TypeOK, Shape, Acquiring, Renewing, Active, AcquireMiss, CallFails, Acquiring, row
<1>6. ASSUME NEW r \in Replica, PauseCancelled(r)
      PROVE  Shape'
  BY <1>6 DEF TypeOK, Shape, Acquiring, Renewing, Active, PauseCancelled, row
<1>7. ASSUME NEW r \in Replica, RenewSend(r)
      PROVE  Shape'
  BY <1>7 DEF TypeOK, Shape, Acquiring, Renewing, Active, RenewSend, row
<1>8. ASSUME NEW r \in Replica, RenewExec(r)
      PROVE  Shape'
  BY <1>8 DEF TypeOK, Shape, Acquiring, Renewing, Active, RenewExec, Renewable
<1>9. ASSUME NEW r \in Replica, RenewReply(r)
      PROVE  Shape'
  BY <1>9 DEF TypeOK, Shape, Acquiring, Renewing, Active, RenewReply, row
<1>10. ASSUME NEW r \in Replica, RenewFail(r)
      PROVE  Shape'
  BY <1>10 DEF TypeOK, Shape, Acquiring, Renewing, Active, RenewFail, CallFails, Renewing, row
<1>11. ASSUME NEW r \in Replica, RenewEnd(r)
      PROVE  Shape'
  BY <1>11 DEF TypeOK, Shape, Acquiring, Renewing, Active, RenewEnd, row
<1>12. ASSUME NEW r \in Replica, LoseLead(r)
      PROVE  Shape'
  BY <1>12 DEF TypeOK, Shape, Acquiring, Renewing, Active, LoseLead, row
<1>13. ASSUME NEW r \in Replica, FnReturn(r)
      PROVE  Shape'
  BY <1>13 DEF TypeOK, Shape, Acquiring, Renewing, Active, FnReturn, row
<1>14. ASSUME NEW r \in Replica, Release(r)
      PROVE  Shape'
  BY <1>14 DEF TypeOK, Shape, Acquiring, Renewing, Active, Release, DeleteRow, EndLease, row
<1>15. ASSUME NEW r \in Replica, LateDelete(r)
      PROVE  Shape'
  BY <1>15 DEF TypeOK, Shape, Acquiring, Renewing, Active, LateDelete, DeleteRow, row
<1>16. ASSUME NEW r \in Replica, Shutdown(r)
      PROVE  Shape'
  BY <1>16 DEF TypeOK, Shape, Acquiring, Renewing, Active, Shutdown, row
<1>17. ASSUME NEW r \in Replica, Crash(r)
      PROVE  Shape'
  BY <1>17 DEF TypeOK, Shape, Acquiring, Renewing, Active, Crash, EndLease, row
<1>18. CASE Tick
  BY <1>18 DEF TypeOK, Shape, Acquiring, Renewing, Active, Tick, Settled, InFlight
<1>19. QED
  BY <1>1, <1>2, <1>3, <1>4, <1>5, <1>6, <1>7, <1>8, <1>9,
     <1>10, <1>11, <1>12, <1>13, <1>14, <1>15, <1>16, <1>17, <1>18
     DEF Next, Acquire, Renew, RunLoop

\* Every step preserves Ages.
LEMMA AgesPreserved ==
  ASSUME TypeOK, Shape, Ages, [Next]_vars
  PROVE  Ages'
<1> USE LeaseAssumption
<1>1. CASE UNCHANGED vars
  BY <1>1 DEF TypeOK, Shape, Ages, Acquiring, Renewing, Active, AgeCap, vars, row
<1>2. ASSUME NEW r \in Replica, AcquireSend(r)
      PROVE  Ages'
  BY <1>2 DEF TypeOK, Shape, Ages, Acquiring, Renewing, Active, AgeCap, AcquireSend, row
<1>3. ASSUME NEW r \in Replica, AcquireExec(r)
      PROVE  Ages'
  BY <1>3 DEF TypeOK, Shape, Ages, Acquiring, Renewing, Active, AgeCap, AcquireExec, Acquirable, row
<1>4. ASSUME NEW r \in Replica, Lead(r)
      PROVE  Ages'
  BY <1>4 DEF TypeOK, Shape, Ages, Acquiring, Renewing, Active, AgeCap, Lead, row
<1>5. ASSUME NEW r \in Replica, AcquireMiss(r)
      PROVE  Ages'
  BY <1>5 DEF TypeOK, Shape, Ages, Acquiring, Renewing, Active, AgeCap, AcquireMiss, CallFails, Acquiring, row
<1>6. ASSUME NEW r \in Replica, PauseCancelled(r)
      PROVE  Ages'
  BY <1>6 DEF TypeOK, Shape, Ages, Acquiring, Renewing, Active, AgeCap, PauseCancelled, row
<1>7. ASSUME NEW r \in Replica, RenewSend(r)
      PROVE  Ages'
  BY <1>7 DEF TypeOK, Shape, Ages, Acquiring, Renewing, Active, AgeCap, RenewSend, row
<1>8. ASSUME NEW r \in Replica, RenewExec(r)
      PROVE  Ages'
  BY <1>8 DEF TypeOK, Shape, Ages, Acquiring, Renewing, Active, AgeCap, RenewExec, Renewable
<1>9. ASSUME NEW r \in Replica, RenewReply(r)
      PROVE  Ages'
  BY <1>9 DEF TypeOK, Shape, Ages, Acquiring, Renewing, Active, AgeCap, RenewReply, row
<1>10. ASSUME NEW r \in Replica, RenewFail(r)
      PROVE  Ages'
  BY <1>10 DEF TypeOK, Shape, Ages, Acquiring, Renewing, Active, AgeCap, RenewFail, CallFails, Renewing, row
<1>11. ASSUME NEW r \in Replica, RenewEnd(r)
      PROVE  Ages'
  BY <1>11 DEF TypeOK, Shape, Ages, Acquiring, Renewing, Active, AgeCap, RenewEnd, row
<1>12. ASSUME NEW r \in Replica, LoseLead(r)
      PROVE  Ages'
  BY <1>12 DEF TypeOK, Shape, Ages, Acquiring, Renewing, Active, AgeCap, LoseLead, row
<1>13. ASSUME NEW r \in Replica, FnReturn(r)
      PROVE  Ages'
  BY <1>13 DEF TypeOK, Shape, Ages, Acquiring, Renewing, Active, AgeCap, FnReturn, row
<1>14. ASSUME NEW r \in Replica, Release(r)
      PROVE  Ages'
  BY <1>14 DEF TypeOK, Shape, Ages, Acquiring, Renewing, Active, AgeCap, Release, DeleteRow, EndLease, row
<1>15. ASSUME NEW r \in Replica, LateDelete(r)
      PROVE  Ages'
  BY <1>15 DEF TypeOK, Shape, Ages, Acquiring, Renewing, Active, AgeCap, LateDelete, DeleteRow, row
<1>16. ASSUME NEW r \in Replica, Shutdown(r)
      PROVE  Ages'
  BY <1>16 DEF TypeOK, Shape, Ages, Acquiring, Renewing, Active, AgeCap, Shutdown, row
<1>17. ASSUME NEW r \in Replica, Crash(r)
      PROVE  Ages'
  BY <1>17 DEF TypeOK, Shape, Ages, Acquiring, Renewing, Active, AgeCap, Crash, EndLease, row
<1>18. CASE Tick
  <2> SUFFICES ASSUME NEW r \in Replica
               PROVE  /\ rn'[r] = "wait" /\ ~due'[r] => age'[r] + tickIn'[r] <= TTL + RenewInterval
                      /\ rn'[r] = "wait" /\ due'[r] => age'[r] <= TTL + RenewInterval
                      /\ rn'[r] \in Renewing => age'[r] <= TTL + RenewInterval + lag'[r]
                      /\ rn'[r] = "done" => age'[r] <= TTL + RenewInterval + Lag
    BY DEF Ages, Renewing
  <2>1. /\ age[r] \in Nat /\ tickIn[r] \in Nat /\ lag[r] \in Nat /\ lag[r] <= Lag
        /\ due[r] \in BOOLEAN /\ rn'[r] = rn[r]
    BY <1>18 DEF TypeOK, Tick, AgeCap
  <2>2. age'[r] = age[r] \/ (rn[r] \in Active /\ age'[r] = age[r] + 1)
    BY <1>18 DEF Tick
  <2>3. CASE rn[r] = "wait"
    <3>1. ~due[r] /\ tickIn[r] >= 1 /\ age[r] + tickIn[r] <= TTL + RenewInterval
      BY <1>18, <2>3 DEF Tick, Settled, Shape, Ages, Active
    <3>2. CASE tickIn[r] = 1
      <4>0. rn[r] \in Active /\ tickIn[r] <= 1
        BY <2>3, <3>2 DEF Active
      <4>1. due'[r]
        BY <1>18, <4>0, Zenon DEF Tick
      <4>2. QED
        BY <2>1, <2>2, <2>3, <3>1, <3>2, <4>1 DEF Renewing
    <3>3. CASE tickIn[r] # 1
      <4>1. ~due'[r] /\ tickIn'[r] = tickIn[r] - 1
        BY <1>18, <2>1, <2>3, <3>1, <3>3 DEF Tick, Active
      <4>2. QED
        BY <2>1, <2>2, <2>3, <3>1, <3>3, <4>1 DEF Renewing
    <3>4. QED
      BY <3>2, <3>3
  <2>4. CASE rn[r] \in Renewing
    <3>1. lag'[r] = lag[r] + 1
      BY <1>18, <2>4 DEF Tick, InFlight
    <3>2. age[r] <= TTL + RenewInterval + lag[r]
      BY <2>4 DEF Ages
    <3>3. QED
      BY <2>1, <2>2, <2>4, <3>1, <3>2 DEF Renewing
  <2>5. CASE rn[r] \notin Active
    BY <2>1, <2>2, <2>5 DEF Ages, Active, Renewing
  <2>6. QED
    BY <2>3, <2>4, <2>5 DEF Active
<1>19. QED
  BY <1>1, <1>2, <1>3, <1>4, <1>5, <1>6, <1>7, <1>8, <1>9,
     <1>10, <1>11, <1>12, <1>13, <1>14, <1>15, <1>16, <1>17, <1>18
     DEF Next, Acquire, Renew, RunLoop

-----------------------------------------------------------------------------

\* As long as no call has failed, a replica that is acquiring, waiting or
\* renewing owns the row, and the row is young enough that the next renewal
\* reaches the database before it expires.
Owns(r, g) == hold = r /\ TTL - left <= g

Owned ==
    \A r \in Replica :
        /\ ~late[r] /\ rn[r] # "miss"
        /\ pc[r] = "acqHit" => Owns(r, lag[r])
        /\ rn[r] = "wait" /\ ~due[r] => Owns(r, RenewInterval + Lag - tickIn[r])
        /\ rn[r] = "wait" /\ due[r] => Owns(r, RenewInterval + Lag)
        /\ rn[r] = "sent" => Owns(r, RenewInterval + Lag + lag[r])
        /\ rn[r] = "hit" => Owns(r, lag[r])
        /\ fn[r] = "run" => rn[r] # "done"

Health == fails = MaxFails => Owned

\* Every step preserves Health.
LEMMA HealthPreserved ==
  ASSUME TypeOK, Shape, Health, [Next]_vars
  PROVE  Health'
<1> USE LeaseAssumption, TimingAssumption
<1>1. CASE UNCHANGED vars
  BY <1>1 DEF TypeOK, Shape, Health, Owned, Owns, Acquiring, Renewing, Active, vars, row
<1>2. ASSUME NEW r \in Replica, AcquireSend(r)
      PROVE  Health'
  BY <1>2 DEF TypeOK, Shape, Health, Owned, Owns, Acquiring, Renewing, Active, AcquireSend, row
<1>3. ASSUME NEW r \in Replica, AcquireExec(r)
      PROVE  Health'
  BY <1>3 DEF TypeOK, Shape, Health, Owned, Owns, Acquiring, Renewing, Active, AcquireExec, Acquirable, row
<1>4. ASSUME NEW r \in Replica, Lead(r)
      PROVE  Health'
  BY <1>4 DEF TypeOK, Shape, Health, Owned, Owns, Acquiring, Renewing, Active, Lead, row
<1>5. ASSUME NEW r \in Replica, AcquireMiss(r)
      PROVE  Health'
  BY <1>5 DEF TypeOK, Shape, Health, Owned, Owns, Acquiring, Renewing, Active, AcquireMiss, CallFails, Acquiring, row
<1>6. ASSUME NEW r \in Replica, PauseCancelled(r)
      PROVE  Health'
  BY <1>6 DEF TypeOK, Shape, Health, Owned, Owns, Acquiring, Renewing, Active, PauseCancelled, row
<1>7. ASSUME NEW r \in Replica, RenewSend(r)
      PROVE  Health'
  BY <1>7 DEF TypeOK, Shape, Health, Owned, Owns, Acquiring, Renewing, Active, RenewSend, row
<1>8. ASSUME NEW r \in Replica, RenewExec(r)
      PROVE  Health'
  BY <1>8 DEF TypeOK, Shape, Health, Owned, Owns, Acquiring, Renewing, Active, RenewExec, Renewable
<1>9. ASSUME NEW r \in Replica, RenewReply(r)
      PROVE  Health'
  BY <1>9 DEF TypeOK, Shape, Health, Owned, Owns, Acquiring, Renewing, Active, RenewReply, row
<1>10. ASSUME NEW r \in Replica, RenewFail(r)
      PROVE  Health'
  BY <1>10 DEF TypeOK, Shape, Health, Owned, Owns, Acquiring, Renewing, Active, RenewFail, CallFails, Renewing, row
<1>11. ASSUME NEW r \in Replica, RenewEnd(r)
      PROVE  Health'
  BY <1>11 DEF TypeOK, Shape, Health, Owned, Owns, Acquiring, Renewing, Active, RenewEnd, row
<1>12. ASSUME NEW r \in Replica, LoseLead(r)
      PROVE  Health'
  BY <1>12 DEF TypeOK, Shape, Health, Owned, Owns, Acquiring, Renewing, Active, LoseLead, row
<1>13. ASSUME NEW r \in Replica, FnReturn(r)
      PROVE  Health'
  BY <1>13 DEF TypeOK, Shape, Health, Owned, Owns, Acquiring, Renewing, Active, FnReturn, row
<1>14. ASSUME NEW r \in Replica, Release(r)
      PROVE  Health'
  BY <1>14 DEF TypeOK, Shape, Health, Owned, Owns, Acquiring, Renewing, Active, Release, DeleteRow, EndLease, row
<1>15. ASSUME NEW r \in Replica, LateDelete(r)
      PROVE  Health'
  BY <1>15 DEF TypeOK, Shape, Health, Owned, Owns, Acquiring, Renewing, Active, LateDelete, DeleteRow, row
<1>16. ASSUME NEW r \in Replica, Shutdown(r)
      PROVE  Health'
  BY <1>16 DEF TypeOK, Shape, Health, Owned, Owns, Acquiring, Renewing, Active, Shutdown, row
<1>17. ASSUME NEW r \in Replica, Crash(r)
      PROVE  Health'
  BY <1>17 DEF TypeOK, Shape, Health, Owned, Owns, Acquiring, Renewing, Active, Crash, EndLease, row
<1>18. CASE Tick
  <2> SUFFICES ASSUME fails = MaxFails, NEW r \in Replica
               PROVE  /\ ~late'[r] /\ rn'[r] # "miss"
                      /\ pc'[r] = "acqHit" => Owns(r, lag[r])'
                      /\ rn'[r] = "wait" /\ ~due'[r] => Owns(r, RenewInterval + Lag - tickIn[r])'
                      /\ rn'[r] = "wait" /\ due'[r] => Owns(r, RenewInterval + Lag)'
                      /\ rn'[r] = "sent" => Owns(r, RenewInterval + Lag + lag[r])'
                      /\ rn'[r] = "hit" => Owns(r, lag[r])'
                      /\ fn'[r] = "run" => rn'[r] # "done"
    BY <1>18 DEF Health, Owned, Tick
  <2>1. /\ tickIn[r] \in Nat /\ lag[r] \in Nat /\ lag[r] <= Lag /\ left \in Int
        /\ due[r] \in BOOLEAN /\ rn'[r] = rn[r] /\ fn'[r] = fn[r] /\ hold' = hold /\ late' = late
        /\ (left >= 0 => left' = left - 1)
    BY <1>18 DEF TypeOK, Tick
  <2>2. Owned
    BY DEF Health
  <2>3. ASSUME NEW g \in Int, NEW h \in Int, Owns(r, g), g < TTL, h >= g + 1
        PROVE  hold' = r /\ TTL - left' <= h
    BY <2>1, <2>3 DEF Owns
  <2>4. pc'[r] = "acqHit" => Owns(r, lag[r])'
    <3> SUFFICES ASSUME pc'[r] = "acqHit" PROVE Owns(r, lag[r])'
      OBVIOUS
    <3>1. pc[r] = "acqHit"
      BY <1>18 DEF Tick, TypeOK
    <3>2. lag'[r] = lag[r] + 1 /\ Owns(r, lag[r])
      BY <1>18, <2>2, <3>1 DEF Tick, InFlight, Acquiring, Owned
    <3>3. QED
      BY <2>1, <2>3, <3>2, TimingAssumption DEF Owns
  <2>5. CASE rn[r] = "wait"
    <3>1. ~due[r] /\ tickIn[r] >= 1 /\ Owns(r, RenewInterval + Lag - tickIn[r])
      BY <1>18, <2>2, <2>5 DEF Tick, Settled, Shape, Owned, Active
    <3>2. CASE tickIn[r] = 1
      <4>0. rn[r] \in Active /\ tickIn[r] <= 1
        BY <2>5, <3>2 DEF Active
      <4>1. due'[r]
        BY <1>18, <4>0, Zenon DEF Tick
      <4>2. Owns(r, RenewInterval + Lag)'
        BY <2>1, <2>3, <3>1, <3>2, TimingAssumption DEF Owns
      <4>3. QED
        BY <2>1, <2>2, <2>4, <2>5, <4>1, <4>2 DEF Owned
    <3>3. CASE tickIn[r] # 1
      <4>1. ~due'[r] /\ tickIn'[r] = tickIn[r] - 1
        BY <1>18, <2>1, <2>5, <3>1, <3>3 DEF Tick, Active
      <4>2. Owns(r, RenewInterval + Lag - tickIn[r])'
        BY <2>1, <2>3, <3>1, <3>3, <4>1, TimingAssumption DEF Owns
      <4>3. QED
        BY <2>1, <2>2, <2>4, <2>5, <4>1, <4>2 DEF Owned
    <3>4. QED
      BY <3>2, <3>3
  <2>6. CASE rn[r] = "sent"
    <3>1. lag[r] < Lag /\ lag'[r] = lag[r] + 1 /\ Owns(r, RenewInterval + Lag + lag[r])
      BY <1>18, <2>1, <2>2, <2>6 DEF Tick, Settled, InFlight, Renewing, Owned
    <3>2. Owns(r, RenewInterval + Lag + lag[r])'
      BY <2>1, <2>3, <3>1, TimingAssumption DEF Owns
    <3>3. QED
      BY <2>1, <2>2, <2>4, <2>6, <3>2 DEF Owned
  <2>7. CASE rn[r] = "hit"
    <3>1. lag'[r] = lag[r] + 1 /\ Owns(r, lag[r])
      BY <1>18, <2>2, <2>7 DEF Tick, InFlight, Renewing, Owned
    <3>2. Owns(r, lag[r])'
      BY <2>1, <2>3, <3>1, TimingAssumption DEF Owns
    <3>3. QED
      BY <2>1, <2>2, <2>4, <2>7, <3>2 DEF Owned
  <2>8. CASE rn[r] \notin {"wait", "sent", "hit"}
    BY <2>1, <2>2, <2>4, <2>8 DEF Owned
  <2>9. QED
    BY <2>5, <2>6, <2>7, <2>8
<1>19. QED
  BY <1>1, <1>2, <1>3, <1>4, <1>5, <1>6, <1>7, <1>8, <1>9,
     <1>10, <1>11, <1>12, <1>13, <1>14, <1>15, <1>16, <1>17, <1>18
     DEF Next, Acquire, Renew, RunLoop

-----------------------------------------------------------------------------

IInv == TypeOK /\ Shape /\ Ages /\ Health

\* The inductive invariant holds initially ...
LEMMA InitIInv == Init => IInv
BY LeaseAssumption
   DEF Init, IInv, TypeOK, Shape, Ages, Health, Owned, Acquiring, Renewing, Active, AgeCap

\* ... and is preserved by every step.
LEMMA NextIInv == IInv /\ [Next]_vars => IInv'
BY TypePreserved, ShapePreserved, AgesPreserved, HealthPreserved DEF IInv

\* Every reachable state of the lease satisfies the inductive invariant.
THEOREM InvariantHolds == Spec => []IInv
BY InitIInv, NextIInv, PTL DEF Spec

\* The row, the loops and the clocks of the lease are well typed.
THEOREM TypeCorrect == Spec => []TypeOK
<1>1. IInv => TypeOK
  BY DEF IInv
<1>2. QED
  BY InvariantHolds, <1>1, PTL

\* A replica cut off from the database, or whose row was taken over, drives the
\* gated loop for at most TTL + RenewInterval + Lag after its last good renewal.
THEOREM OverlapIsBounded == Spec => []OverlapBounded
<1>1. IInv => OverlapBounded
  <2> SUFFICES ASSUME IInv, NEW r \in Replica, fn[r] = "run"
               PROVE  age[r] <= TTL + RenewInterval + Lag
    BY DEF OverlapBounded, Driving
  <2>1. rn[r] \in Active \cup {"done"} /\ age[r] \in Nat /\ lag[r] \in 0 .. Lag /\ tickIn[r] \in Nat
        /\ due[r] \in BOOLEAN
    BY LeaseAssumption DEF IInv, TypeOK, Shape, AgeCap, Active, Renewing
  <2>2. QED
    BY <2>1, LeaseAssumption DEF IInv, Ages, Active, Renewing
<1>2. QED
  BY InvariantHolds, <1>1, PTL

\* Without failing database calls, at most one replica drives the gated loop,
\* whatever crashes, shutdowns, releases and take-overs happen.
THEOREM HealthyMutex == Spec => []HealthyExclusive
<1>1. IInv => HealthyExclusive
  <2> SUFFICES ASSUME IInv, fails = MaxFails, NEW r \in Replica, NEW s \in Replica,
                      fn[r] = "run", fn[s] = "run"
               PROVE  r = s
    BY DEF HealthyExclusive, Driving
  <2>1. \A v \in Replica : fn[v] = "run" => rn[v] \in {"wait", "sent", "hit"} /\ due[v] \in BOOLEAN
    BY DEF IInv, TypeOK, Shape, Health, Owned, Active, Renewing
  <2>2. \A v \in Replica : rn[v] \in {"wait", "sent", "hit"} /\ due[v] \in BOOLEAN => hold = v
    BY DEF IInv, Health, Owned, Owns
  <2>3. QED
    BY <2>1, <2>2
<1>2. QED
  BY InvariantHolds, <1>1, PTL
=============================================================================
