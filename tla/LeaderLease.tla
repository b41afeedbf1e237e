----------------------------- MODULE LeaderLease -----------------------------
(***************************************************************************)
(* internal/leaderlease: one row of the leader_leases table and the        *)
(* replicas that compete for it through leaderlease.Run.  Leases with      *)
(* different names are different rows and never interact, so one name is   *)
(* modelled.  Each element of Replica is one incarnation of a process      *)
(* (Config.Holder is unique per restart): a crash or a shutdown is final,  *)
(* a restarted pod is another element of Replica.                          *)
(*                                                                         *)
(* Every statement sent to PostgreSQL is three steps: sent, executed by    *)
(* the database, answered (or reported as failed, executed or not).  Time  *)
(* is relative: the row's remaining validity, the time since the last good *)
(* renewal, the time to the next ticker tick, the age of the call in       *)
(* flight.  Tick is prompt: it waits for the goroutines that have          *)
(* something to do and for calls that are Lag old.                         *)
(***************************************************************************)
EXTENDS Integers, FiniteSets

CONSTANTS Replica,         \* incarnations of the server (Config.Holder)
          None,            \* the row does not exist
          TTL,             \* Config.TTL
          RenewInterval,   \* Config.RenewInterval
          Lag,             \* longest time a statement is in flight
          MaxFails         \* bound on failed database calls

ASSUME LeaseAssumption ==
    /\ None \notin Replica
    /\ TTL \in Nat /\ RenewInterval \in Nat \ {0} /\ Lag \in Nat
    /\ MaxFails \in Nat

\* Config.withDefaults renews three times per TTL: a renewal issued on a tick
\* reaches the database before the row runs out.
ASSUME TimingAssumption == RenewInterval + 2 * Lag < TTL

VARIABLES hold,       \* leader_leases.holder, None when there is no row
          left,       \* expires_at - now(); -1 once it is in the past
          pc,         \* where the replica's Run loop is
          rn,         \* where the lease's renewLoop goroutine is
          due,        \* a tick is waiting in the ticker's channel
          tickIn,     \* time to the next ticker tick
          age,        \* time since lastOK
          lag,        \* age of the statement in flight
          fn,         \* the gated function: not running, running, cancelled
          cancelled,  \* the replica's parent context is cancelled
          late,       \* a timed-out DELETE the database may still execute
          fails       \* database calls that may still fail

vars == <<hold, left, pc, rn, due, tickIn, age, lag, fn, cancelled, late, fails>>
row == <<hold, left>>

Acquiring == {"acqSent", "acqHit", "acqMiss"}
Renewing == {"sent", "hit", "miss"}
Active == {"wait"} \cup Renewing
\* The age of a lease nobody renews stops mattering beyond this value.
AgeCap == TTL + RenewInterval + Lag + 1

TypeOK ==
    /\ hold \in Replica \cup {None} /\ left \in -1 .. TTL
    /\ pc \in [Replica -> {"acquire", "pause", "lead", "join", "stopped"} \cup Acquiring]
    /\ rn \in [Replica -> {"off", "done"} \cup Active]
    /\ due \in [Replica -> BOOLEAN]
    /\ tickIn \in [Replica -> 0 .. RenewInterval]
    /\ age \in [Replica -> 0 .. AgeCap]
    /\ lag \in [Replica -> 0 .. Lag]
    /\ fn \in [Replica -> {"no", "run", "stop"}]
    /\ cancelled \in [Replica -> BOOLEAN]
    /\ late \in [Replica -> BOOLEAN]
    /\ fails \in 0 .. MaxFails

Init ==
    /\ hold = None /\ left = -1
    /\ pc = [r \in Replica |-> "acquire"]
    /\ rn = [r \in Replica |-> "off"]
    /\ due = [r \in Replica |-> FALSE]
    /\ tickIn = [r \in Replica |-> 0]
    /\ age = [r \in Replica |-> 0]
    /\ lag = [r \in Replica |-> 0]
    /\ fn = [r \in Replica |-> "no"]
    /\ cancelled = [r \in Replica |-> FALSE]
    /\ late = [r \in Replica |-> FALSE]
    /\ fails = MaxFails

\* A database call of r reports an error: the context's own error once the
\* parent context is cancelled, otherwise one of the failures that remain.
CallFails(r) ==
    \/ cancelled[r] /\ UNCHANGED fails
    \/ ~cancelled[r] /\ fails > 0 /\ fails' = fails - 1

-----------------------------------------------------------------------------
(* leaser.Acquire *)

AcquireSend(r) ==
    /\ pc[r] = "acquire"
    /\ pc' = [pc EXCEPT ![r] = "acqSent"]
    /\ lag' = [lag EXCEPT ![r] = 0]
    /\ UNCHANGED <<row, rn, due, tickIn, age, fn, cancelled, late, fails>>

\* Mutant: the upsert replaces any row that was not just renewed.
AcquirableStale(r) == hold = None \/ left < TTL \/ hold = r
\* Mutant: the upsert has no expiry condition and never replaces a dead holder.
AcquirableFree(r) == hold = None \/ hold = r

\* pgStore.acquire: the row is free, expired, or already r's own.
Acquirable(r) == hold = None \/ left < 0 \/ hold = r

AcquireExec(r) ==
    /\ pc[r] = "acqSent"
    /\ \/ /\ Acquirable(r)
          /\ hold' = r /\ left' = TTL
          /\ pc' = [pc EXCEPT ![r] = "acqHit"]
       \/ /\ ~Acquirable(r)
          /\ pc' = [pc EXCEPT ![r] = "acqMiss"]
          /\ UNCHANGED row
    /\ UNCHANGED <<rn, due, tickIn, age, lag, fn, cancelled, late, fails>>

\* The lease is held: newLease starts renewLoop, Run calls fn(lctx).
Lead(r) ==
    /\ pc[r] = "acqHit"
    /\ pc' = [pc EXCEPT ![r] = "lead"]
    /\ rn' = [rn EXCEPT ![r] = "wait"]
    /\ due' = [due EXCEPT ![r] = FALSE]
    /\ tickIn' = [tickIn EXCEPT ![r] = RenewInterval]
    /\ age' = [age EXCEPT ![r] = 0]
    /\ fn' = [fn EXCEPT ![r] = IF cancelled[r] THEN "stop" ELSE "run"]
    /\ lag' = [lag EXCEPT ![r] = 0]
    /\ UNCHANGED <<row, cancelled, late, fails>>

\* Contention or a failed call: wait AcquireRetry, or return when cancelled.
AcquireMiss(r) ==
    /\ \/ pc[r] = "acqMiss" /\ UNCHANGED fails
       \/ pc[r] \in Acquiring /\ CallFails(r)
    /\ pc' = [pc EXCEPT ![r] = IF cancelled[r] THEN "stopped" ELSE "pause"]
    /\ lag' = [lag EXCEPT ![r] = 0]
    /\ UNCHANGED <<row, rn, due, tickIn, age, fn, cancelled, late>>

\* The pause (AcquireRetry, or Run's back-off) is interrupted by shutdown.
PauseCancelled(r) ==
    /\ pc[r] = "pause" /\ cancelled[r]
    /\ pc' = [pc EXCEPT ![r] = "stopped"]
    /\ UNCHANGED <<row, rn, due, tickIn, age, lag, fn, cancelled, late, fails>>

-----------------------------------------------------------------------------
(* lease.renewLoop *)

RenewSend(r) ==
    /\ rn[r] = "wait" /\ due[r]
    /\ rn' = [rn EXCEPT ![r] = "sent"]
    /\ due' = [due EXCEPT ![r] = FALSE]
    /\ lag' = [lag EXCEPT ![r] = 0]
    /\ UNCHANGED <<row, pc, tickIn, age, fn, cancelled, late, fails>>

\* pgStore.renew: only the holder, and only while the row is still valid.
Renewable(r) == hold = r /\ left > 0

RenewExec(r) ==
    /\ rn[r] = "sent"
    /\ \/ /\ Renewable(r)
          /\ left' = TTL
          /\ rn' = [rn EXCEPT ![r] = "hit"]
       \/ /\ ~Renewable(r)
          /\ rn' = [rn EXCEPT ![r] = "miss"]
          /\ UNCHANGED left
    /\ UNCHANGED <<hold, pc, due, tickIn, age, lag, fn, cancelled, late, fails>>

\* Mutant: a definitive miss does not forfeit the lease.
RenewReplyKeeps(r) ==
    /\ rn[r] \in {"hit", "miss"}
    /\ rn' = [rn EXCEPT ![r] = "wait"]
    /\ age' = [age EXCEPT ![r] = IF rn[r] = "hit" THEN 0 ELSE age[r]]
    /\ lag' = [lag EXCEPT ![r] = 0]
    /\ UNCHANGED <<row, pc, due, tickIn, fn, cancelled, late, fails>>

\* A renewal is good (lastOK = now) or a definitive miss (forfeit).
RenewReply(r) ==
    /\ \/ /\ rn[r] = "hit"
          /\ rn' = [rn EXCEPT ![r] = "wait"]
          /\ age' = [age EXCEPT ![r] = 0]
       \/ /\ rn[r] = "miss"
          /\ rn' = [rn EXCEPT ![r] = "done"]
          /\ UNCHANGED age
    /\ lag' = [lag EXCEPT ![r] = 0]
    /\ UNCHANGED <<row, pc, due, tickIn, fn, cancelled, late, fails>>

\* Mutant: a failed renewal is retried for ever.
RenewFailForever(r) ==
    /\ rn[r] \in Renewing
    /\ CallFails(r)
    /\ rn' = [rn EXCEPT ![r] = IF cancelled[r] THEN "done" ELSE "wait"]
    /\ lag' = [lag EXCEPT ![r] = 0]
    /\ UNCHANGED <<row, pc, due, tickIn, age, fn, cancelled, late>>

\* A failed renewal forfeits only when the last good one is older than TTL.
RenewFail(r) ==
    /\ rn[r] \in Renewing
    /\ CallFails(r)
    /\ rn' = [rn EXCEPT ![r] = IF cancelled[r] \/ age[r] > TTL THEN "done" ELSE "wait"]
    /\ lag' = [lag EXCEPT ![r] = 0]
    /\ UNCHANGED <<row, pc, due, tickIn, age, fn, cancelled, late>>

\* The select sees ls.stop (Release was called) or the parent's Done.
RenewEnd(r) ==
    /\ rn[r] = "wait"
    /\ pc[r] = "join" \/ cancelled[r]
    /\ rn' = [rn EXCEPT ![r] = "done"]
    /\ UNCHANGED <<row, pc, due, tickIn, age, lag, fn, cancelled, late, fails>>

-----------------------------------------------------------------------------
(* leaderlease.Run *)

\* lease.Done() is closed: the watcher goroutine cancels lctx.
LoseLead(r) ==
    /\ rn[r] = "done" /\ fn[r] = "run"
    /\ fn' = [fn EXCEPT ![r] = "stop"]
    /\ UNCHANGED <<row, pc, rn, due, tickIn, age, lag, cancelled, late, fails>>

\* fn returns, early or because it was cancelled; Run calls Release.
FnReturn(r) ==
    /\ pc[r] = "lead"
    /\ pc' = [pc EXCEPT ![r] = "join"]
    /\ fn' = [fn EXCEPT ![r] = "no"]
    /\ UNCHANGED <<row, rn, due, tickIn, age, lag, cancelled, late, fails>>

\* The lease object, its goroutine and its ticker are gone.
EndLease(r) ==
    /\ rn' = [rn EXCEPT ![r] = "off"]
    /\ due' = [due EXCEPT ![r] = FALSE]
    /\ tickIn' = [tickIn EXCEPT ![r] = 0]
    /\ age' = [age EXCEPT ![r] = 0]
    /\ lag' = [lag EXCEPT ![r] = 0]

\* pgStore.release executes at the database: holder-scoped DELETE.
DeleteRow(r) ==
    IF hold = r THEN hold' = None /\ left' = -1 ELSE UNCHANGED row

\* lease.Release after <-ls.done, under Run's own five-second context: it
\* succeeds, or fails with the DELETE possibly still to be executed.
Release(r) ==
    /\ pc[r] = "join" /\ rn[r] = "done"
    /\ \/ DeleteRow(r) /\ UNCHANGED <<late, fails>>
       \/ /\ fails > 0 /\ fails' = fails - 1
          /\ \E b \in BOOLEAN : late' = [late EXCEPT ![r] = late[r] \/ b]
          /\ UNCHANGED row
    /\ pc' = [pc EXCEPT ![r] = IF cancelled[r] THEN "stopped" ELSE "pause"]
    /\ EndLease(r)
    /\ UNCHANGED <<fn, cancelled>>

\* The database executes a DELETE whose client has given up waiting.
LateDelete(r) ==
    /\ late[r]
    /\ DeleteRow(r)
    /\ late' = [late EXCEPT ![r] = FALSE]
    /\ UNCHANGED <<pc, rn, due, tickIn, age, lag, fn, cancelled, fails>>

-----------------------------------------------------------------------------
(* The process and the clock *)

\* SIGTERM: the parent context is cancelled, and lctx with it.
Shutdown(r) ==
    /\ pc[r] # "stopped" /\ ~cancelled[r]
    /\ cancelled' = [cancelled EXCEPT ![r] = TRUE]
    /\ fn' = [fn EXCEPT ![r] = IF fn[r] = "run" THEN "stop" ELSE fn[r]]
    /\ UNCHANGED <<row, pc, rn, due, tickIn, age, lag, late, fails>>

\* The pod dies without Release: the row stays until it expires.
Crash(r) ==
    /\ pc[r] # "stopped"
    /\ pc' = [pc EXCEPT ![r] = "stopped"]
    /\ EndLease(r)
    /\ fn' = [fn EXCEPT ![r] = "no"]
    /\ UNCHANGED <<row, cancelled, late, fails>>

InFlight(r) == pc[r] \in Acquiring \/ rn[r] \in Renewing

\* r has nothing to do before the clock may advance.
Settled(r) ==
    /\ ~(rn[r] = "wait" /\ (due[r] \/ pc[r] = "join" \/ cancelled[r]))
    /\ ~(InFlight(r) /\ lag[r] = Lag)
    /\ ~(rn[r] = "done" /\ fn[r] = "run")

Tick ==
    /\ \A r \in Replica : Settled(r)
    /\ left' = IF left >= 0 THEN left - 1 ELSE left
    /\ pc' = [r \in Replica |-> IF pc[r] = "pause" THEN "acquire" ELSE pc[r]]
    /\ tickIn' = [r \in Replica |->
           IF rn[r] \notin Active THEN tickIn[r]
           ELSE IF tickIn[r] <= 1 THEN RenewInterval ELSE tickIn[r] - 1]
    /\ due' = [r \in Replica |-> due[r] \/ (rn[r] \in Active /\ tickIn[r] <= 1)]
    /\ age' = [r \in Replica |->
           IF rn[r] \in Active /\ age[r] < AgeCap THEN age[r] + 1 ELSE age[r]]
    /\ lag' = [r \in Replica |-> IF InFlight(r) THEN lag[r] + 1 ELSE lag[r]]
    /\ UNCHANGED <<hold, rn, fn, cancelled, late, fails>>

-----------------------------------------------------------------------------

Acquire(r) == AcquireSend(r) \/ AcquireExec(r) \/ Lead(r) \/ AcquireMiss(r) \/ PauseCancelled(r)
Renew(r) == RenewSend(r) \/ RenewExec(r) \/ RenewReply(r) \/ RenewFail(r) \/ RenewEnd(r)
RunLoop(r) == LoseLead(r) \/ FnReturn(r) \/ Release(r)

Next ==
    \/ \E r \in Replica : Acquire(r) \/ Renew(r) \/ RunLoop(r)
    \/ \E r \in Replica : LateDelete(r) \/ Shutdown(r) \/ Crash(r)
    \/ Tick

Spec == Init /\ [][Next]_vars

\* The goroutines are scheduled, statements are executed and answered, the
\* gated function returns once its context is cancelled, and time passes.
\* renewLoop's select chooses at random among the channels that are ready, so
\* ls.stop is not passed over for ever (the strong fairness of RenewEnd).
\* Nothing obliges the environment to crash, stop or fail a call.
Fairness ==
    /\ WF_vars(Tick)
    /\ \A r \in Replica :
        /\ WF_vars(AcquireSend(r) \/ AcquireExec(r) \/ Lead(r) \/ PauseCancelled(r))
        /\ WF_vars(AcquireMiss(r) /\ pc[r] = "acqMiss")
        /\ WF_vars(RenewSend(r) \/ RenewExec(r) \/ RenewReply(r))
        /\ SF_vars(RenewEnd(r))
        /\ WF_vars(LoseLead(r))
        /\ WF_vars(FnReturn(r) /\ fn[r] = "stop")
        /\ WF_vars(Release(r))

FairSpec == Spec /\ Fairness

-----------------------------------------------------------------------------
(* Properties *)

\* r drives the gated loop: fn runs with a live context.
Driving(r) == fn[r] = "run"

\* A replica cut off from the database, or whose row another replica took,
\* stops driving at most one renewal interval and one call after its last
\* good renewal has outlived the TTL (renewLoop's time.Since(lastOK) > ttl is
\* only tested when a renewal returns).
OverlapBounded ==
    \A r \in Replica : Driving(r) => age[r] <= TTL + RenewInterval + Lag

\* As long as no database call has failed, two replicas never drive the loop
\* together, whatever the interleaving of acquisitions, renewals, releases,
\* crashes and shutdowns.
HealthyExclusive ==
    fails = MaxFails =>
        \A r, s \in Replica : Driving(r) /\ Driving(s) => r = s

\* A live replica remains that has not been asked to stop.
Available == \E r \in Replica : pc[r] # "stopped" /\ ~cancelled[r]

\* Failover: unless every replica is gone, the loop is driven again and again
\* (the row of a dead or cut-off leader expires and someone else acquires it).
LedAgainAndAgain == <>[]Available => []<>(\E r \in Replica : Driving(r))

\* A replica that drives the loop without owning the row stops driving it.
UsurpedStops ==
    \A r \in Replica : (Driving(r) /\ hold # r) ~> ~Driving(r)
=============================================================================
