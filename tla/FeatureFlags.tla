---------------------------- MODULE FeatureFlags ----------------------------
(***************************************************************************)
(* internal/featureflags for kubectl_access.enabled: the rows of the       *)
(* platform and of one cluster, Service.Set and Clear, and DBProvider.     *)
(* resolve with its cache.  A value is kept under the generation that the  *)
(* cache shows when the value is stored, not when it was read, and ages;   *)
(* a write bumps the generation after its transaction.  With the memory    *)
(* backend the bump stays in the server's process and the proxy's cache    *)
(* only ages.  What was kept under an older generation is never read, so a *)
(* bump that reaches the proxy empties its cache.                          *)
(***************************************************************************)
EXTENDS Naturals

CONSTANTS FlagReader,       \* who evaluates the flag
          MaxFlagWrites,    \* bound: calls of Set and Clear
          MaxFlagFaults     \* bound: statements and cache calls that fail

ASSUME FlagAssumption == MaxFlagWrites \in Nat /\ MaxFlagFaults \in Nat

VARIABLES flagBackend,  \* INARI_CACHE_BACKEND
          flagRow,      \* feature_flags
          flagCache,    \* effective values kept by the proxy under the current generation
          flagBumps,    \* committed writes whose bump is still to come
          flagRead,     \* what a reader got from the database and has not kept yet
          flagWrites, flagFaults  \* bounds

flagVars == <<flagBackend, flagRow, flagCache, flagBumps, flagRead, flagWrites, flagFaults>>

Scope == {"platform", "cluster"}
FlagValue == {"on", "off"}
FlagDefault == "on"
NothingKept == [s \in Scope |-> "none"]

FlagsTypeOK ==
    /\ flagBackend \in {"memory", "redis"} /\ flagRow \in [Scope -> FlagValue \cup {"none"}]
    /\ flagBumps \in 0..MaxFlagWrites /\ flagCache \in [Scope -> FlagValue \cup {"none"}]
    /\ flagRead \in [FlagReader -> FlagValue \cup {"none"}]
    /\ flagWrites \in 0..MaxFlagWrites /\ flagFaults \in 0..MaxFlagFaults

FlagsInit ==
    /\ flagBackend \in {"memory", "redis"} /\ flagRow \in [platform : {"none"}, cluster : {"none", "on"}]
    /\ flagCache = NothingKept /\ flagBumps = 0 /\ flagRead = [r \in FlagReader |-> "none"]
    /\ flagWrites = 0 /\ flagFaults = 0

\* The proxy keeps the value from before the last write of the cluster's row.
FlagKeptOn(row) ==
    /\ flagBackend = "memory" /\ flagRow = [platform |-> "none", cluster |-> row]
    /\ flagCache = [s \in Scope |-> "on"] /\ flagBumps = 0
    /\ flagRead = [r \in FlagReader |-> "none"] /\ flagWrites = MaxFlagWrites /\ flagFaults = MaxFlagFaults

----------------------------------------------------------------------------
(* Writing *)

\* UpsertFlag or delete in a transaction; clearing an absent row bumps nothing.
UpsertFlag(scope, value) ==
    /\ flagWrites < MaxFlagWrites /\ flagWrites' = flagWrites + 1
    /\ flagRow' = [flagRow EXCEPT ![scope] = value] /\ flagBumps' = flagBumps + 1
    /\ UNCHANGED <<flagBackend, flagCache, flagRead, flagFaults>>
SetFlag == \E scope \in Scope, value \in FlagValue : UpsertFlag(scope, value)
ClearFlag == \E scope \in Scope : flagRow[scope] # "none" /\ UpsertFlag(scope, "none")

\* Service.bump: a failure is logged; with memory it is another process' counter.
bump ==
    /\ flagBumps > 0 /\ flagBumps' = flagBumps - 1
    /\ \/ flagBackend = "redis" /\ flagCache' = NothingKept /\ UNCHANGED flagFaults
       \/ flagBackend = "memory" /\ UNCHANGED <<flagCache, flagFaults>>
       \/ flagFaults < MaxFlagFaults /\ flagFaults' = flagFaults + 1 /\ UNCHANGED flagCache
    /\ UNCHANGED <<flagBackend, flagRow, flagRead, flagWrites>>

\* A kept value reaches its age.
FlagExpires(scope) ==
    /\ flagCache[scope] # "none" /\ flagCache' = [flagCache EXCEPT ![scope] = "none"]
    /\ UNCHANGED <<flagBackend, flagRow, flagBumps, flagRead, flagWrites, flagFaults>>

----------------------------------------------------------------------------
(* Reading *)

\* Cluster override, platform row, built-in default.
resolveUncached(scope) ==
    IF scope = "cluster" /\ flagRow["cluster"] # "none" THEN flagRow["cluster"]
    ELSE IF flagRow["platform"] # "none" THEN flagRow["platform"] ELSE FlagDefault
FlagFault == flagFaults < MaxFlagFaults /\ flagFaults' = flagFaults + 1

\* A miss, or a cache that fails, goes to the database.
ReadFlag(r, scope) ==
    /\ flagRead[r] = "none"
    /\ \/ flagCache[scope] = "none" /\ UNCHANGED flagFaults
       \/ flagCache[scope] # "none" /\ FlagFault
    /\ flagRead' = [flagRead EXCEPT ![r] = resolveUncached(scope)]
    /\ UNCHANGED <<flagBackend, flagRow, flagCache, flagBumps, flagWrites>>

setCached(scope, value) == flagCache' = [flagCache EXCEPT ![scope] = value]

\* The evaluation of r ends with value: from the cache, from the database and then kept unless
\* the cache fails, or the default because the database failed.
ResolvesTo(r, scope, value) ==
    /\ UNCHANGED <<flagBackend, flagRow, flagBumps, flagWrites>>
    /\ \/ /\ flagRead[r] = "none" /\ flagCache[scope] = value
          /\ UNCHANGED <<flagCache, flagRead, flagFaults>>
       \/ /\ flagRead[r] = value /\ flagRead' = [flagRead EXCEPT ![r] = "none"]
          /\ \/ setCached(scope, value) /\ UNCHANGED flagFaults
             \/ FlagFault /\ UNCHANGED flagCache
       \/ /\ flagRead[r] = "none" /\ flagCache[scope] = "none" /\ FlagFault /\ value = FlagDefault
          /\ UNCHANGED <<flagCache, flagRead>>

FlagsNext == SetFlag \/ ClearFlag \/ bump \/ \E scope \in Scope : FlagExpires(scope)
=============================================================================
