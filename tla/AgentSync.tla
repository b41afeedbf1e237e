------------------------------ MODULE AgentSync ------------------------------
(***************************************************************************)
(* internal/agentgateway (stream.go) and internal/capabilities: the        *)
(* server's view of the capabilities of one cluster, kept by incremental   *)
(* updates and by framed full syncs (chunks, an empty terminal chunk, then *)
(* the resync response) over one event stream at a time.                   *)
(*                                                                         *)
(* The agent is external and modelled from what stream.go expects of it:   *)
(* it reports every change with the checksum of its state after it, and    *)
(* replays a snapshot when it is asked to, or when it has just started.    *)
(* A checksum identifies a state, so it is modelled as that state.         *)
(***************************************************************************)
EXTENDS Integers, Sequences, FiniteSets

CONSTANTS Cap,         \* capability keys (kind, group, name, version)
          NoSum,       \* the empty checksum, and "no sync in flight"
          MaxChanges,  \* bound: changes of the agent's state
          MaxDrops,    \* bound: updates lost before the stream (sequence gaps)
          MaxStreams   \* bound: streams opened

ASSUME SyncAssumption ==
    /\ IsFiniteSet(Cap) /\ \A s \in SUBSET Cap : s # NoSum
    /\ MaxChanges \in Nat /\ MaxDrops \in Nat /\ MaxStreams \in Nat \ {0}

VARIABLES live,        \* the agent's capabilities
          agentSum,    \* LastSeenStateChecksum of the agent's next handshake
          replay,      \* events of the agent's full sync still to be sent
          asked,       \* the agent has to replay: a request, or its own start
          gapNext,     \* an update was lost: the next event leaves a gap
          caps,        \* capabilities rows with deleted_at IS NULL
          checksum,    \* clusters.capability_checksum
          stream,      \* the stream is open
          inbox,       \* events sent and not yet handled by the session
          sess,        \* session: cached checksum, resyncSent, syncKeep
          settled,     \* a full sync was finalized on this stream and no
                       \* update was lost since its snapshot
          whole,       \* no update was lost since the last snapshot
          changes, drops, streams   \* bounds

agentVars == <<live, agentSum, replay, asked, gapNext>>
viewVars == <<caps, checksum>>
boundVars == <<changes, drops, streams>>
syncVars == <<agentVars, viewVars, stream, inbox, sess, settled, whole, boundVars>>

Sum == {NoSum} \cup SUBSET Cap
Event == [type : {"handshake"}, sum : Sum, gap : BOOLEAN]
   \cup [type : {"upsert", "delete"}, cap : Cap, sum : Sum, gap : BOOLEAN]
   \cup [type : {"chunk"}, items : SUBSET Cap, gap : BOOLEAN]
   \cup [type : {"terminal", "response"}, sum : Sum, gap : BOOLEAN]
\* newSession: the cluster row as AuthorizeCluster read it, no sync in flight.
newSession(sum) == [sum |-> sum, resyncSent |-> FALSE, syncKeep |-> NoSum]

SyncTypeOK ==
    /\ live \subseteq Cap /\ agentSum \in Sum /\ caps \subseteq Cap /\ checksum \in Sum
    /\ replay \in Seq(Event) /\ inbox \in Seq(Event)
    /\ asked \in BOOLEAN /\ gapNext \in BOOLEAN /\ stream \in BOOLEAN
    /\ sess \in [sum : Sum, resyncSent : BOOLEAN, syncKeep : Sum]
    /\ settled \in BOOLEAN /\ whole \in BOOLEAN
    /\ changes \in 0 .. MaxChanges /\ drops \in 0 .. MaxDrops /\ streams \in 0 .. MaxStreams

SyncInit ==
    /\ live \in SUBSET Cap /\ agentSum = NoSum /\ replay = <<>>
    /\ asked = FALSE /\ gapNext = FALSE
    /\ caps = {} /\ checksum = NoSum
    /\ stream = FALSE /\ inbox = <<>> /\ sess = newSession(NoSum)
    /\ settled = FALSE /\ whole = TRUE
    /\ changes = 0 /\ drops = 0 /\ streams = 0

-----------------------------------------------------------------------------
(* The agent (external) *)

\* A full sync of the current state: one chunk per capability, the terminal
\* chunk, the response.
Chunk(c) == [type |-> "chunk", items |-> {c}, gap |-> FALSE]
Replays(s) == {[i \in 1 .. Cardinality(s) + 2 |->
                  IF i <= Cardinality(s) THEN Chunk(f[i])
                  ELSE [type |-> IF i = Cardinality(s) + 1 THEN "terminal" ELSE "response",
                        sum |-> s, gap |-> FALSE]] :
               f \in {g \in [1 .. Cardinality(s) -> s] : \A c \in s : \E i \in 1 .. Cardinality(s) : g[i] = c}}

\* Connect: the interceptor and AuthorizeCluster admit the agent, and the
\* session starts from the cluster row; a fresh agent replays without a request.
Connect ==
    /\ ~stream /\ streams < MaxStreams
    /\ stream' = TRUE /\ streams' = streams + 1
    /\ inbox' = <<[type |-> "handshake", sum |-> agentSum, gap |-> FALSE]>>
    /\ sess' = newSession(checksum)
    /\ asked' = (agentSum = NoSum)
    /\ agentSum' = live
    /\ replay' = <<>> /\ gapNext' = FALSE /\ settled' = FALSE /\ whole' = TRUE
    /\ UNCHANGED <<live, viewVars, changes, drops>>

Send(e) == inbox' = Append(inbox, [e EXCEPT !.gap = gapNext]) /\ gapNext' = FALSE

\* The agent's state changes; on an open stream the update is sent or lost.
Change(c) ==
    /\ changes < MaxChanges /\ changes' = changes + 1
    /\ live' = IF c \in live THEN live \ {c} ELSE live \cup {c}
    /\ agentSum' = IF agentSum = NoSum THEN NoSum ELSE live'
    /\ \/ /\ stream
          /\ Send([type |-> IF c \in live THEN "delete" ELSE "upsert",
                   cap |-> c, sum |-> live', gap |-> FALSE])
          /\ UNCHANGED <<settled, whole, drops>>
       \/ /\ stream /\ drops < MaxDrops
          /\ drops' = drops + 1 /\ gapNext' = TRUE
          /\ settled' = FALSE /\ whole' = FALSE
          /\ UNCHANGED inbox
       \/ ~stream /\ UNCHANGED <<inbox, gapNext, settled, whole, drops>>
    /\ UNCHANGED <<replay, asked, viewVars, stream, sess, streams>>

\* The agent has to replay: it takes a snapshot and sends its first event, so
\* that no update comes between the two.
TakeSnapshot ==
    /\ stream /\ asked /\ replay = <<>>
    /\ asked' = FALSE
    /\ \E r \in Replays(live) : Send(Head(r)) /\ replay' = Tail(r)
    /\ whole' = TRUE
    /\ UNCHANGED <<live, agentSum, viewVars, stream, sess, settled, boundVars>>

SendReplay ==
    /\ stream /\ replay # <<>>
    /\ Send(Head(replay))
    /\ replay' = Tail(replay)
    /\ UNCHANGED <<live, agentSum, asked, viewVars, stream, sess, settled, whole, boundVars>>

\* The agent's process restarts and has seen no state yet.
AgentRestart ==
    /\ ~stream /\ agentSum # NoSum
    /\ agentSum' = NoSum
    /\ UNCHANGED <<live, replay, asked, gapNext, viewVars, stream, inbox, sess, settled, whole, boundVars>>

-----------------------------------------------------------------------------
(* session.run and session.handleEvent *)

\* The stream ends: a receive or send error, an eviction, or a handler error
\* (a failed transaction); what was not handled is lost.
EndStream ==
    /\ stream
    /\ stream' = FALSE /\ inbox' = <<>> /\ replay' = <<>>
    /\ asked' = FALSE /\ gapNext' = FALSE /\ settled' = FALSE /\ whole' = TRUE
    /\ sess' = newSession(NoSum)
    /\ UNCHANGED <<live, agentSum, viewVars, boundVars>>

\* Store.Upsert and Store.SoftDelete, as applyItems calls them.
Upsert(v, c) == v \cup {c}
SoftDelete(v, c) == v \ {c}
applyItems(v, e) == IF e.type = "upsert" THEN Upsert(v, e.cap) ELSE SoftDelete(v, e.cap)
\* Store.SoftDeleteMissing
SoftDeleteMissing(v, keep) == v \cap keep

\* Mutant: an update that arrives during a sync does not join the keep set.
unionKeepForgets(keep, e) == keep
unionKeep(keep, e) == IF e.type = "delete" THEN keep ELSE keep \cup {e.cap}

\* The sequence check of handleEvent: one resync request per gap.
GapSeen(e) == e.gap /\ ~sess.resyncSent
Receive(type) ==
    /\ stream /\ inbox # <<>> /\ Head(inbox).type = type
    /\ inbox' = Tail(inbox)
AfterGap(e) == [sess EXCEPT !.resyncSent = sess.resyncSent \/ e.gap]

\* The handshake: both checksums known and different ask for a resync.
HandleHandshake ==
    LET e == Head(inbox)
        resync == e.sum # NoSum /\ sess.sum # NoSum /\ e.sum # sess.sum
    IN  /\ Receive("handshake")
        /\ asked' = (asked \/ resync)
        /\ sess' = [sess EXCEPT !.resyncSent = resync]
        /\ UNCHANGED <<live, agentSum, replay, gapNext, viewVars, stream, settled, whole, boundVars>>

\* Service.Ingest: the items, and the checksum unless a sync is in flight.
Ingest(e) ==
    /\ caps' = applyItems(caps, e)
    /\ checksum' = IF sess.syncKeep = NoSum THEN e.sum ELSE checksum

\* handleCapabilityUpdate without FullSync.
HandleIncremental ==
    LET e == Head(inbox)
    IN  /\ Receive("upsert") \/ Receive("delete")
        /\ Ingest(e)
        /\ asked' = (asked \/ GapSeen(e))
        /\ sess' = IF sess.syncKeep = NoSum
                   THEN [AfterGap(e) EXCEPT !.sum = e.sum]
                   ELSE [AfterGap(e) EXCEPT !.syncKeep = unionKeep(sess.syncKeep, e)]
        /\ UNCHANGED <<live, agentSum, replay, gapNext, stream, settled, whole, boundVars>>

\* Service.IngestChunk: upserts at once, deletions wait for the terminal chunk.
IngestChunk(e) == caps' = caps \cup e.items /\ UNCHANGED checksum

HandleChunk ==
    LET e == Head(inbox)
        keep == IF sess.syncKeep = NoSum THEN {} ELSE sess.syncKeep
    IN  /\ Receive("chunk")
        /\ IngestChunk(e)
        /\ asked' = (asked \/ GapSeen(e))
        /\ sess' = [AfterGap(e) EXCEPT !.syncKeep = keep \cup e.items]
        /\ UNCHANGED <<live, agentSum, replay, gapNext, stream, settled, whole, boundVars>>

\* Service.FinalizeSync: delete what the sync did not name, commit its checksum.
FinalizeSync(keep, sum) ==
    /\ caps' = SoftDeleteMissing(caps, keep)
    /\ checksum' = sum

\* No later sync is on its way (bookkeeping for LiveNeverDropped).
LastSync == /\ \A i \in 2 .. Len(inbox) : inbox[i].type \notin {"chunk", "terminal"}
            /\ \A i \in DOMAIN replay : replay[i].type # "terminal"

\* The empty terminal chunk of a full sync.
HandleTerminal ==
    LET e == Head(inbox)
        keep == IF sess.syncKeep = NoSum THEN {} ELSE sess.syncKeep
    IN  /\ Receive("terminal")
        /\ FinalizeSync(keep, e.sum)
        /\ asked' = (asked \/ GapSeen(e))
        /\ sess' = [AfterGap(e) EXCEPT !.syncKeep = NoSum, !.sum = e.sum]
        /\ settled' = (whole /\ LastSync)
        /\ UNCHANGED <<live, agentSum, replay, gapNext, stream, whole, boundVars>>

\* RESYNC_RESPONSE: the checksum is stored and the next gap may ask again.
HandleResponse ==
    LET e == Head(inbox)
    IN  /\ Receive("response")
        /\ checksum' = e.sum
        /\ asked' = (asked \/ GapSeen(e))
        /\ sess' = [sess EXCEPT !.sum = e.sum, !.resyncSent = FALSE]
        /\ UNCHANGED <<live, agentSum, replay, gapNext, caps, stream, settled, whole, boundVars>>

SyncNext ==
    \/ Connect \/ TakeSnapshot \/ SendReplay \/ AgentRestart \/ EndStream
    \/ \E c \in Cap : Change(c)
    \/ HandleHandshake \/ HandleIncremental \/ HandleChunk \/ HandleTerminal \/ HandleResponse

SyncSpec == SyncInit /\ [][SyncNext]_syncVars

-----------------------------------------------------------------------------
(* Properties *)

\* Capabilities whose upsert is still on its way.
OnTheWay == {inbox[i].cap : i \in {j \in DOMAIN inbox : inbox[j].type = "upsert"}}

\* "finalize cannot delete a capability the replay snapshot predates": once a
\* sync was finalized on a stream that lost no update since the snapshot,
\* everything the agent has is in the view or on its way there, with updates
\* and the chunks of later syncs interleaved in any order.
LiveNeverDropped == settled => live \subseteq (caps \cup OnTheWay)
=============================================================================
