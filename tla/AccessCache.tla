---------------------------- MODULE AccessCache ----------------------------
(***************************************************************************)
(* internal/authz cachepep.go and tuplewriter.go, internal/cache and       *)
(* internal/tenancy orgcache.go: how long a request may act on what was    *)
(* true.  The tuple writer hangs objects (clusters, packs, extensions, ... *)
(* ) below their organization; every write of tuples bumps a generation    *)
(* that stamps the cached answers of Check; the row of the organization is *)
(* cached under its slug.  The backend is the memory of each replica, which*)
(* is bounded and evicts, or one Redis that all replicas share.            *)
(***************************************************************************)
EXTENDS Naturals, FiniteSets, Functions

CONSTANTS Replica,          \* replicas, each with its memory backend
          Redis,            \* the shared backend
          AccessObject,     \* objects below the organization
          AccessCall,       \* requests in progress at once
          MaxEntries,       \* Memory.max
          MaxAccessRequests, MaxAccessFaults  \* bounds

ASSUME AccessAssumption ==
    /\ Redis \notin Replica /\ Replica # {} /\ AccessObject # {} /\ MaxEntries \in Nat \ {0}
    /\ MaxAccessRequests \in Nat /\ MaxAccessFaults \in Nat

VARIABLES backend,      \* INARI_CACHE_BACKEND
          cached,       \* the entries of each backend
          object,       \* the objects' rows
          parentTuple,  \* the objects with a parent tuple in OpenFGA
          tupleEvents,  \* outbox events the tuple writer has not settled
          writer,       \* the event being handled
          orgRow,       \* organizations.status
          access,       \* requests in progress
          revoked,      \* objects whose tuple was removed, seen by the generation of a backend
          forgotten,    \* backends that evicted their generation
          accessAsked, accessFaults  \* bounds

accessVars == <<backend, cached, object, parentTuple, tupleEvents, writer, orgRow, access, revoked, forgotten,
                accessAsked, accessFaults>>

Instance == Replica \cup {Redis}
CacheOf(r) == IF backend = "redis" THEN Redis ELSE r
pepGenerationKey == <<"gen">>
pepKey(gen, o) == <<"pep", gen, o>>
orgCacheKey == <<"org">>
OrgStatus == {"active", "deleting"}
TupleEvent == [type : {"created", "deleted"}, object : AccessObject]
IdleAccess == [op |-> "none", pc |-> "idle", replica |-> CHOOSE r \in Replica : TRUE, key |-> <<>>,
               object |-> CHOOSE o \in AccessObject : TRUE, up |-> FALSE, value |-> "none", fresh |-> FALSE]
IdleWriter == [pc |-> "idle", replica |-> CHOOSE r \in Replica : TRUE,
               event |-> [type |-> "created", object |-> CHOOSE o \in AccessObject : TRUE]]

\* Entries, events, requests and the writer are well formed.
AccessTypeOK ==
    /\ backend \in {"memory", "redis"}
    /\ \A k \in Instance : \A x \in DOMAIN cached[k] : x[1] \in {"gen", "pep", "org"}
    /\ \A r \in Replica : Cardinality(DOMAIN cached[r] \ {pepGenerationKey}) <= MaxEntries
    /\ object \in [AccessObject -> {"absent", "live", "gone"}] /\ parentTuple \subseteq AccessObject
    /\ tupleEvents \subseteq TupleEvent /\ writer.pc \in {"idle", "bump"} /\ writer.event \in TupleEvent
    /\ orgRow \in OrgStatus
    /\ \A c \in AccessCall :
          /\ access[c].op \in {"none", "check", "lookup", "status"} /\ access[c].replica \in Replica
          /\ access[c].pc \in {"idle", "get", "inner", "set", "fetch", "tx", "invalidate", "done"}
    /\ revoked \in [Instance -> SUBSET AccessObject] /\ forgotten \subseteq Replica
    /\ accessAsked \in 0 .. MaxAccessRequests /\ accessFaults \in 0 .. MaxAccessFaults

AccessInit ==
    /\ backend \in {"memory", "redis"} /\ cached = [k \in Instance |-> [x \in {} |-> 0]]
    /\ object \in [AccessObject -> {"absent", "live"}] /\ parentTuple = {o \in AccessObject : object[o] = "live"}
    /\ tupleEvents = {} /\ writer = IdleWriter
    /\ orgRow = "active" /\ access = [c \in AccessCall |-> IdleAccess]
    /\ revoked = [k \in Instance |-> {}] /\ forgotten = {} /\ accessAsked = 0 /\ accessFaults = 0

-----------------------------------------------------------------------------
(* The backends *)

Hit(k, key) == key \in DOMAIN cached[k]
Put(k, key, value) == [x \in DOMAIN cached[k] \cup {key} |-> IF x = key THEN value ELSE cached[k][x]]
RedisSet(key, value) == cached' = [cached EXCEPT ![Redis] = Put(Redis, key, value)] /\ UNCHANGED forgotten
\* Memory.Set of a new key when full: an arbitrary entry goes, the generation too.
MemorySet(r, key, value) ==
    IF key \notin DOMAIN cached[r] /\ Cardinality(DOMAIN cached[r]) >= MaxEntries
    THEN \E victim \in {v \in SUBSET DOMAIN cached[r] : Cardinality(v) = Cardinality(DOMAIN cached[r]) - MaxEntries + 1} :
            /\ cached' = [cached EXCEPT ![r] = Restrict(Put(r, key, value), (DOMAIN cached[r] \ victim) \cup {key})]
            /\ forgotten' = IF pepGenerationKey \in victim THEN forgotten \cup {r} ELSE forgotten
    ELSE cached' = [cached EXCEPT ![r] = Put(r, key, value)] /\ UNCHANGED forgotten
CacheSet(k, key, value) == IF k = Redis THEN RedisSet(key, value) ELSE MemorySet(k, key, value)
CacheDelete(k, key) == cached' = [cached EXCEPT ![k] = Restrict(@, DOMAIN @ \ {key})] /\ UNCHANGED forgotten
Generation(k) == IF pepGenerationKey \in DOMAIN cached[k] THEN cached[k][pepGenerationKey] ELSE 0
\* Increment takes no room from others, and has no time to live.
Increment(k) ==
    cached' = [cached EXCEPT ![k] = Put(k, pepGenerationKey, Generation(k) + 1)]
\* Mutant: the organization is cached without a time to live.
expiredPepOnly(key) == key[1] = "pep"
\* Any entry but the generation may be older than its time to live.
expired(key) == key # pepGenerationKey
Expire ==
    /\ \E k \in Instance : \E key \in DOMAIN cached[k] : expired(key) /\ CacheDelete(k, key)
    /\ UNCHANGED <<backend, object, parentTuple, tupleEvents, writer, orgRow, access, revoked, accessAsked, accessFaults>>

-----------------------------------------------------------------------------
(* Objects, their events, and TupleWriter over InvalidatingStore *)

ObjectChanges ==
    /\ accessAsked < MaxAccessRequests /\ accessAsked' = accessAsked + 1
    /\ \E o \in AccessObject, type \in {"created", "deleted"} :
          /\ object[o] = (IF type = "created" THEN "absent" ELSE "live")
          /\ object' = [object EXCEPT ![o] = IF type = "created" THEN "live" ELSE "gone"]
          /\ tupleEvents' = tupleEvents \cup {[type |-> type, object |-> o]}
    /\ UNCHANGED <<backend, cached, parentTuple, writer, orgRow, access, revoked, forgotten, accessFaults>>
\* Mutant: the created events of an object have no case.
HandleParentDeletes ==
    /\ writer.pc = "idle"
    /\ \E ev \in tupleEvents, r \in Replica :
          /\ writer' = [pc |-> "bump", replica |-> r, event |-> ev]
          /\ parentTuple' = IF ev.type = "created" THEN parentTuple ELSE parentTuple \ {ev.object}
          /\ revoked' = [k \in Instance |-> revoked[k] \ {ev.object}]
          /\ access' = [c \in AccessCall |-> [access[c] EXCEPT !.fresh = @ /\ access[c].object # ev.object]]
    /\ UNCHANGED <<backend, cached, object, tupleEvents, orgRow, forgotten, accessAsked, accessFaults>>
\* TupleWriter.Handle of an event in any order: the tuple is written or deleted.
\* A request that is in progress may see a tuple that comes back.
HandleParent ==
    /\ writer.pc = "idle"
    /\ \E ev \in tupleEvents, r \in Replica :
          /\ writer' = [pc |-> "bump", replica |-> r, event |-> ev]
          /\ parentTuple' = IF ev.type = "created" THEN parentTuple \cup {ev.object} ELSE parentTuple \ {ev.object}
          /\ revoked' = [k \in Instance |-> revoked[k] \ {ev.object}]
          /\ access' = [c \in AccessCall |-> [access[c] EXCEPT !.fresh = @ /\ access[c].object # ev.object]]
    /\ UNCHANGED <<backend, cached, object, tupleEvents, orgRow, forgotten, accessAsked, accessFaults>>
\* Mutant: answers survive a write.
bumpNothing ==
    /\ writer.pc = "bump" /\ tupleEvents' = tupleEvents \ {writer.event} /\ writer' = IdleWriter
    /\ revoked' = IF writer.event.type = "deleted"
                  THEN [revoked EXCEPT ![CacheOf(writer.replica)] = @ \cup {writer.event.object}] ELSE revoked
    /\ UNCHANGED <<backend, cached, object, parentTuple, orgRow, access, forgotten, accessAsked, accessFaults>>
\* InvalidatingStore.bump, after which the event is settled.
bump ==
    /\ writer.pc = "bump" /\ Increment(CacheOf(writer.replica))
    /\ tupleEvents' = tupleEvents \ {writer.event} /\ writer' = IdleWriter
    /\ revoked' = IF writer.event.type = "deleted"
                  THEN [revoked EXCEPT ![CacheOf(writer.replica)] = @ \cup {writer.event.object}] ELSE revoked
    /\ UNCHANGED <<backend, object, parentTuple, orgRow, access, forgotten, accessAsked, accessFaults>>
\* The bump fails (Redis), and the event is settled all the same; or the replica
\* stops, and the event is delivered again.
WriterFails ==
    /\ writer.pc = "bump" /\ accessFaults < MaxAccessFaults /\ accessFaults' = accessFaults + 1
    /\ \/ backend = "redis" /\ tupleEvents' = tupleEvents \ {writer.event}
       \/ UNCHANGED tupleEvents
    /\ writer' = IdleWriter
    /\ UNCHANGED <<backend, cached, object, parentTuple, orgRow, access, revoked, forgotten, accessAsked>>

-----------------------------------------------------------------------------
(* CachedAuthorizer.Check, OrgCache.Lookup and Invalidate.  A cache error  *)
(* (Redis) sends the request on to the store.                              *)

accessSame == UNCHANGED <<backend, object, parentTuple, tupleEvents, writer, revoked>>
cacheError == backend = "redis" /\ accessFaults < MaxAccessFaults /\ accessFaults' = accessFaults + 1
BeginAccess(c, call) ==
    /\ access[c].pc = "idle" /\ accessAsked < MaxAccessRequests /\ accessAsked' = accessAsked + 1
    /\ access' = [access EXCEPT ![c] = call]
Finish(c, value) == access' = [access EXCEPT ![c] = [@ EXCEPT !.pc = "done", !.value = value]]
\* key: the generation is read first and stamps the answer; without it the cache is not used.
CheckKey(c) ==
    /\ \E r \in Replica, o \in AccessObject :
          LET call == [IdleAccess EXCEPT !.op = "check", !.replica = r, !.object = o, !.fresh = o \in revoked[CacheOf(r)]]
          IN \/ /\ BeginAccess(c, [call EXCEPT !.pc = "get", !.up = TRUE, !.key = pepKey(Generation(CacheOf(r)), o)])
                /\ UNCHANGED accessFaults
             \/ BeginAccess(c, [call EXCEPT !.pc = "inner"]) /\ cacheError
    /\ UNCHANGED <<cached, forgotten, orgRow>> /\ accessSame
AccessCheck(c) ==
    /\ access[c].op = "check"
    /\ LET a == access[c]  k == CacheOf(a.replica)
       IN \/ /\ a.pc = "get" /\ UNCHANGED <<cached, forgotten>>
             /\ \/ Hit(k, a.key) /\ Finish(c, cached[k][a.key]) /\ UNCHANGED accessFaults
                \/ ~Hit(k, a.key) /\ access' = [access EXCEPT ![c].pc = "inner"] /\ UNCHANGED accessFaults
                \/ access' = [access EXCEPT ![c].pc = "inner"] /\ cacheError
          \/ /\ a.pc = "inner" /\ UNCHANGED <<cached, forgotten, accessFaults>>
             /\ LET allowed == IF a.object \in parentTuple THEN "1" ELSE "0"
                IN IF a.up THEN access' = [access EXCEPT ![c] = [a EXCEPT !.pc = "set", !.value = allowed]] ELSE Finish(c, allowed)
          \/ /\ a.pc = "set" /\ Finish(c, a.value)
             /\ \/ CacheSet(k, a.key, a.value) /\ UNCHANGED accessFaults
                \/ UNCHANGED <<cached, forgotten>> /\ cacheError
    /\ UNCHANGED <<orgRow, accessAsked>> /\ accessSame
\* Service.GetTenant begins a lookup; a status change freezes or restores the tenant.
GetTenant(c) ==
    /\ \E r \in Replica : BeginAccess(c, [IdleAccess EXCEPT !.op = "lookup", !.pc = "get", !.replica = r, !.key = orgCacheKey])
    /\ UNCHANGED <<cached, forgotten, orgRow, accessFaults>> /\ accessSame
SetOrgStatus(c) ==
    /\ \E r \in Replica : BeginAccess(c, [IdleAccess EXCEPT !.op = "status", !.pc = "tx", !.replica = r])
    /\ UNCHANGED <<cached, forgotten, orgRow, accessFaults>> /\ accessSame
Lookup(c) ==
    /\ access[c].op = "lookup"
    /\ LET a == access[c]  k == CacheOf(a.replica)
       IN \/ /\ a.pc = "get" /\ UNCHANGED <<cached, forgotten>>
             /\ \/ Hit(k, a.key) /\ Finish(c, cached[k][a.key]) /\ UNCHANGED accessFaults
                \/ ~Hit(k, a.key) /\ access' = [access EXCEPT ![c].pc = "fetch"] /\ UNCHANGED accessFaults
                \/ access' = [access EXCEPT ![c].pc = "fetch"] /\ cacheError
          \/ /\ a.pc = "fetch" /\ access' = [access EXCEPT ![c] = [a EXCEPT !.pc = "set", !.value = orgRow]]
             /\ UNCHANGED <<cached, forgotten, accessFaults>>
          \/ /\ a.pc = "set" /\ Finish(c, a.value)
             /\ \/ CacheSet(k, a.key, a.value) /\ UNCHANGED accessFaults
                \/ UNCHANGED <<cached, forgotten>> /\ cacheError
    /\ UNCHANGED <<orgRow, accessAsked>> /\ accessSame
\* The transaction, then the eviction of the cached row.
Invalidate(c) ==
    /\ access[c].op = "status"
    /\ \/ /\ access[c].pc = "tx" /\ orgRow' = (CHOOSE s \in OrgStatus : s # orgRow)
          /\ access' = [access EXCEPT ![c].pc = "invalidate"] /\ UNCHANGED <<cached, forgotten, accessFaults>>
       \/ /\ access[c].pc = "invalidate" /\ Finish(c, "none") /\ UNCHANGED orgRow
          /\ \/ CacheDelete(CacheOf(access[c].replica), orgCacheKey) /\ UNCHANGED accessFaults
             \/ UNCHANGED <<cached, forgotten>> /\ cacheError
    /\ UNCHANGED accessAsked /\ accessSame
AnswerAccess(c) ==
    /\ access[c].pc = "done" /\ access' = [access EXCEPT ![c] = IdleAccess]
    /\ UNCHANGED <<cached, forgotten, orgRow, accessAsked, accessFaults>> /\ accessSame
AccessStep(c) == AccessCheck(c) \/ Lookup(c) \/ Invalidate(c) \/ AnswerAccess(c)

AccessNext ==
    \/ ObjectChanges \/ HandleParent \/ bump \/ WriterFails \/ Expire
    \/ \E c \in AccessCall : CheckKey(c) \/ GetTenant(c) \/ SetOrgStatus(c) \/ AccessStep(c)

AccessSpec == AccessInit /\ [][AccessNext]_accessVars

-----------------------------------------------------------------------------
(* Properties *)

\* CachedAuthorizer: a check that begins after the removal of a tuple has bumped
\* the generation of its backend, and during which the tuple does not come back,
\* is not allowed, as long as the backend has not evicted its generation.
NoStaleAllow ==
    \A c \in AccessCall :
        access[c].op = "check" /\ access[c].pc = "done" /\ access[c].fresh /\ access[c].replica \notin forgotten
        => access[c].value = "0"

\* What the caches answer becomes what the stores say, although invalidations are
\* lost, stay on one replica, or are overtaken by a late write of an old answer.
CacheConverges ==
    <>[](\A k \in Instance :
            /\ orgCacheKey \in DOMAIN cached[k] => cached[k][orgCacheKey] = orgRow
            /\ \A o \in AccessObject : pepKey(Generation(k), o) \in DOMAIN cached[k] =>
                  (cached[k][pepKey(Generation(k), o)] = "1") = (o \in parentTuple))

\* Every object that stays gets its tuple, in whatever order events arrive.
LiveGetsTuple == <>[](\A o \in AccessObject : object[o] = "live" => o \in parentTuple)
=============================================================================
