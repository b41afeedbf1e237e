----------------------------- MODULE ExtensionUi -----------------------------
(***************************************************************************)
(* internal/extensionhost, uiasset.go and remoteentry.go: a replica serves *)
(* the entry and the other files of one UI extension from a cache in its   *)
(* memory.  The descriptor is a row all replicas share; what is behind it  *)
(* is published elsewhere and may change under the same address.           *)
(***************************************************************************)
EXTENDS Caller, Naturals

CONSTANTS UiServer,                  \* replicas, each with a cache
          UiRequest,                 \* requests in progress at once
          Bundle, NoSum,             \* what is published; a descriptor without a checksum
          MaxUiRequests, MaxUpdates, MaxPublications  \* bounds

ASSUME UiAssumption ==
    /\ UiServer # {} /\ Bundle # {} /\ NoSum \notin Bundle
    /\ MaxUiRequests \in Nat /\ MaxUpdates \in Nat /\ MaxPublications \in Nat

VARIABLES uiRow,       \* the descriptor and whether the extension is enabled
          published,   \* the bundle behind each address
          uiCache,     \* RemoteEntryFetcher.cache of each replica
          uiRequest,   \* requests in progress
          uiUpdate,    \* the update or removal in progress
          served,      \* the last answer
          uiAsked, uiUpdates, publications  \* bounds

uiVars == <<uiRow, published, uiCache, uiRequest, uiUpdate, served, uiAsked, uiUpdates, publications>>

RemoteSource == {"remoteEntry", "remoteEntryOci"}
UiDescriptor == [source : RemoteSource, checksum : Bundle \cup {NoSum}]
\* What is kept under a key: the entry as Fetch keeps it, or a file as FetchAsset does.
\* The latter may be any file of the bundle, the entry itself included.
AssetFile == {"remoteEntry.js", "chunk"}
remoteEntryCacheEntry == [key : UiDescriptor, file : AssetFile, body : Bundle, fresh : BOOLEAN]
UiRow == [on : {"none", "enabled", "disabled"}, desc : UiDescriptor]
AnyDescriptor == CHOOSE d \in UiDescriptor : d.checksum = NoSum
IdleRequest == [pc |-> "idle", at |-> CHOOSE s \in UiServer : TRUE, desc |-> AnyDescriptor, file |-> "chunk", body |-> CHOOSE b \in Bundle : TRUE]
IdleUpdate == [pc |-> "idle", at |-> CHOOSE s \in UiServer : TRUE, prev |-> AnyDescriptor]

\* Cache, requests and the row are well formed.
UiTypeOK ==
    /\ uiRow \in UiRow /\ published \in [RemoteSource -> Bundle] /\ uiCache \in [UiServer -> SUBSET remoteEntryCacheEntry]
    /\ uiRequest \in [UiRequest -> [pc : {"idle", "lookup", "fetch", "put"}, at : UiServer, desc : UiDescriptor, file : AssetFile, body : Bundle]]
    /\ uiUpdate \in [pc : {"idle", "write", "delete", "forget"}, at : UiServer, prev : UiDescriptor]
    /\ served \in [desc : UiDescriptor, file : AssetFile, body : Bundle]
    /\ uiAsked \in 0 .. MaxUiRequests /\ uiUpdates \in 0 .. MaxUpdates /\ publications \in 0 .. MaxPublications

UiInit ==
    /\ \E b \in Bundle, d \in UiDescriptor :
          /\ d.checksum \in {NoSum, b} /\ uiRow = [on |-> "enabled", desc |-> d] /\ published = [s \in RemoteSource |-> b]
          /\ served = [desc |-> d, file |-> "chunk", body |-> b]
    /\ uiCache = [s \in UiServer |-> {}] /\ uiRequest = [q \in UiRequest |-> IdleRequest] /\ uiUpdate = IdleUpdate
    /\ uiAsked = 0 /\ uiUpdates = 0 /\ publications = 0

cacheSame == UNCHANGED <<uiRow, published, uiUpdate, uiUpdates, publications>>

-----------------------------------------------------------------------------
(* The fetcher *)

cacheKey(desc) == desc
cachedFor(s, desc, file) == {e \in uiCache[s] : e.key = cacheKey(desc) /\ e.file = file}
PutEntry(s, desc, file, body) ==
    uiCache' = [uiCache EXCEPT ![s] = (@ \ cachedFor(s, desc, file)) \cup {[key |-> cacheKey(desc), file |-> file, body |-> body, fresh |-> TRUE]}]
\* The entry goes; the other files of the bundle stay until they are old.
Invalidate(s, desc) == uiCache' = [uiCache EXCEPT ![s] = @ \ cachedFor(s, desc, "remoteEntry.js")]
\* Mutant: entries do not age.
ttlNever(s, e) == FALSE
\* An entry gets older than the cache allows.
ttl(s, e) ==
    /\ e.fresh /\ uiCache' = [uiCache EXCEPT ![s] = (@ \ {e}) \cup {[e EXCEPT !.fresh = FALSE]}]
    /\ UNCHANGED <<uiRow, published, uiRequest, uiUpdate, served, uiAsked, uiUpdates, publications>>
EntryAges == \E s \in UiServer : \E e \in uiCache[s] : ttl(s, e)

Answers(q, body) == served' = [desc |-> uiRequest[q].desc, file |-> uiRequest[q].file, body |-> body]
RequestEnds(q) == uiRequest' = [uiRequest EXCEPT ![q] = IdleRequest]
\* Entry and files are looked up alike.
Lookup(q, file) ==
    LET r == uiRequest[q]  hits == {e \in cachedFor(r.at, r.desc, r.file) : e.fresh}
    IN /\ r.pc = "lookup" /\ r.file = file /\ cacheSame /\ UNCHANGED <<uiCache, uiAsked>>
       /\ \/ \E e \in hits : Answers(q, e.body) /\ RequestEnds(q)
          \/ hits = {} /\ uiRequest' = [uiRequest EXCEPT ![q].pc = "fetch"] /\ UNCHANGED served
FetchFrom(q, source) ==
    /\ uiRequest[q].pc = "fetch" /\ uiRequest[q].desc.source = source /\ cacheSame /\ UNCHANGED <<uiCache, served, uiAsked>>
    /\ \/ uiRequest' = [uiRequest EXCEPT ![q].pc = "put", ![q].body = published[source]]
       \/ RequestEnds(q)
fetchHTTP(q) == FetchFrom(q, "remoteEntry")
fetchOCI(q) == FetchFrom(q, "remoteEntryOci")
\* The checksum is the one of the entry: a body that does not match is not kept.
Fetch(q) ==
    \/ Lookup(q, "remoteEntry.js")
    \/ /\ uiRequest[q].pc = "put" /\ uiRequest[q].file = "remoteEntry.js" /\ cacheSame /\ RequestEnds(q) /\ UNCHANGED uiAsked
       /\ LET r == uiRequest[q]
          IN IF r.desc.checksum \in {NoSum, r.body} THEN PutEntry(r.at, r.desc, r.file, r.body) /\ Answers(q, r.body)
             ELSE UNCHANGED <<uiCache, served>>
FetchAsset(q) ==
    \/ Lookup(q, "chunk")
    \/ /\ uiRequest[q].pc = "put" /\ uiRequest[q].file = "chunk" /\ cacheSame /\ RequestEnds(q) /\ UNCHANGED uiAsked
       /\ LET r == uiRequest[q] IN PutEntry(r.at, r.desc, r.file, r.body) /\ Answers(q, r.body)
FetchStep(q) == Fetch(q) \/ FetchAsset(q) \/ fetchHTTP(q) \/ fetchOCI(q)

-----------------------------------------------------------------------------
(* Requests *)

\* The descriptor is read once, at the start.
resolveOrg == uiRow.on = "enabled"
AssetRequest(q, s, file) ==
    /\ resolveOrg /\ uiRequest[q].pc = "idle" /\ uiAsked < MaxUiRequests /\ uiAsked' = uiAsked + 1
    /\ uiRequest' = [uiRequest EXCEPT ![q] = [IdleRequest EXCEPT !.pc = "lookup", !.at = s, !.desc = uiRow.desc, !.file = file]]
    /\ cacheSame /\ UNCHANGED <<uiCache, served>>
ServeHTTP(q, s) == AssetRequest(q, s, "remoteEntry.js")
\* Whatever file the rest of the path names after decoding: the wildcard route is not
\* closed to the name of the entry, and a file it serves is held against no checksum.
ServeAsset(q, s) == AssetRequest(q, s, "chunk")

-----------------------------------------------------------------------------
(* Updates: registerUi forgets the old entry before it writes, unregisterUi after *)

UiManages(u) == Authorized(u, "extensions_manage") /\ uiUpdate.pc = "idle" /\ uiUpdates < MaxUpdates /\ uiUpdates' = uiUpdates + 1
updateSame == UNCHANGED <<published, uiRequest, served, uiAsked, publications>>
registerUiBegins(u, s) ==
    /\ UiManages(u) /\ updateSame /\ UNCHANGED uiRow
    /\ uiUpdate' = [pc |-> "write", at |-> s, prev |-> uiRow.desc]
    /\ IF uiRow.on # "none" THEN Invalidate(s, uiRow.desc) ELSE UNCHANGED uiCache
registerUiWrites ==
    /\ uiUpdate.pc = "write" /\ uiUpdate' = IdleUpdate /\ updateSame /\ UNCHANGED <<uiCache, uiUpdates>>
    /\ \E on \in {"enabled", "disabled"}, d \in UiDescriptor :
          d.checksum \in {NoSum, published[d.source]} /\ uiRow' = [on |-> on, desc |-> d]
unregisterUiBegins(u, s) ==
    /\ UiManages(u) /\ uiRow.on # "none" /\ uiUpdate' = [pc |-> "delete", at |-> s, prev |-> uiRow.desc]
    /\ updateSame /\ UNCHANGED <<uiCache, uiRow>>
unregisterUiWrites ==
    /\ uiUpdate.pc = "delete" /\ uiUpdate' = [uiUpdate EXCEPT !.pc = "forget"] /\ uiRow' = [uiRow EXCEPT !.on = "none"]
    /\ updateSame /\ UNCHANGED <<uiCache, uiUpdates>>
invalidateUiCache ==
    /\ uiUpdate.pc = "forget" /\ Invalidate(uiUpdate.at, uiUpdate.prev) /\ uiUpdate' = IdleUpdate
    /\ updateSame /\ UNCHANGED <<uiRow, uiUpdates>>
\* Someone publishes another bundle at the same address.
Publishes ==
    /\ publications < MaxPublications /\ publications' = publications + 1
    /\ \E s \in RemoteSource, b \in Bundle : b # published[s] /\ published' = [published EXCEPT ![s] = b]
    /\ UNCHANGED <<uiRow, uiCache, uiRequest, uiUpdate, served, uiAsked, uiUpdates>>

UiNext ==
    \/ EntryAges \/ registerUiWrites \/ unregisterUiWrites \/ invalidateUiCache \/ Publishes
    \/ \E q \in UiRequest : FetchStep(q) \/ \E s \in UiServer : ServeHTTP(q, s) \/ ServeAsset(q, s)
    \/ \E u \in User, s \in UiServer : registerUiBegins(u, s) \/ unregisterUiBegins(u, s)
UiSpec == UiInit /\ [][UiNext]_uiVars

-----------------------------------------------------------------------------
(* Properties *)

\* An entry that ServeHTTP was asked for under a checksum is the one with that checksum,
\* whether it was just fetched, was kept from another request, or the descriptor changed in
\* between.  Of what ServeAsset serves it says nothing.
PinnedIsServed ==
    served.file = "remoteEntry.js" /\ served.desc.checksum # NoSum => served.body = served.desc.checksum

\* What the replicas keep ends up as what is published: a fetch that was under way when
\* the cache was cleared, or a replica that never heard of the update, is corrected by age.
CachesCatchUp == <>[](\A s \in UiServer : \A e \in uiCache[s] : e.fresh => e.body = published[e.key.source])
=============================================================================
