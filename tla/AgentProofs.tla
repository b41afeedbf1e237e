---------------------------- MODULE AgentProofs ----------------------------
(***************************************************************************)
(* Proofs about AgentSync, AgentCommands, KubeProxy and PlatformResources, *)
(* for every set of capabilities, commands, sessions, streams, requests,   *)
(* clusters and files: type correctness, that a finalized sync never drops *)
(* a capability the agent has, that a credential is handed out once, that  *)
(* nothing counts as applied that was not, that an answer is final, that   *)
(* the tunnel of a cluster, the requests over it and the agent agree, and  *)
(* that a platform resource's rows, its Git files and the orders sent to   *)
(* the agents agree.                                                       *)
(***************************************************************************)
EXTENDS AgentSync, AgentCommands, KubeProxy, PlatformResources, FiniteSetTheorems, TLAPS

-----------------------------------------------------------------------------
(* AgentSync: the inductive invariant *)

Terminates(e) == e.type = "terminal"
IsChunk(e) == e.type = "chunk"
ChunkOf(e, c) == e.type = "chunk" /\ c \in e.items
UpsertOf(e, c) == e.type = "upsert" /\ e.cap = c
DeleteOf(e, c) == e.type = "delete" /\ e.cap = c

\* The agent is still sending chunks of a sync: its terminal chunk is to come.
Sending == \E j \in DOMAIN replay : Terminates(replay[j])

\* At most one terminal chunk, or none, comes after position i.
LastAfter(i) ==
    IF Sending THEN \A j \in DOMAIN inbox : j > i => ~Terminates(inbox[j])
    ELSE \A j, k \in DOMAIN inbox : i < j /\ j < k => ~(Terminates(inbox[j]) /\ Terminates(inbox[k]))
NoneAfter(i) == ~Sending /\ \A j \in DOMAIN inbox : j > i => ~Terminates(inbox[j])

\* The session is collecting the names of a sync when it comes to position i.
InFlight(i) ==
    \/ sess.syncKeep # NoSum /\ \A j \in DOMAIN inbox : j < i => ~Terminates(inbox[j])
    \/ \E j \in DOMAIN inbox : /\ j < i /\ IsChunk(inbox[j])
                               /\ \A k \in DOMAIN inbox : j < k /\ k < i => ~Terminates(inbox[k])

\* What the agent replays ends with one terminal chunk, and the session
\* collects names while the agent is sending.
ReplayFramed ==
    /\ \A i \in DOMAIN replay : replay[i].type \in {"chunk", "terminal", "response"}
    /\ \A i, j \in DOMAIN replay : Terminates(replay[i]) /\ Terminates(replay[j]) => i = j
    /\ \A i \in DOMAIN replay : IsChunk(replay[i]) => \E j \in DOMAIN replay : i < j /\ Terminates(replay[j])
    /\ Sending => InFlight(Len(inbox) + 1)

InReplay(c) == \E j \in DOMAIN replay : ChunkOf(replay[j], c)

\* An update or a chunk that adds a capability follows each update that removes
\* it, as long as the agent has it.
DeletesUndone ==
    whole => \A c \in live, i \in DOMAIN inbox :
        DeleteOf(inbox[i], c) =>
            \/ \E j \in DOMAIN inbox : j > i /\ (UpsertOf(inbox[j], c) \/ ChunkOf(inbox[j], c))
            \/ InReplay(c)

\* After a finalized sync it is an update.
DeletesUndoneByUpserts ==
    settled => whole /\ \A c \in live, i \in DOMAIN inbox :
        DeleteOf(inbox[i], c) => \E j \in DOMAIN inbox : j > i /\ UpsertOf(inbox[j], c)

\* The last sync under way names everything the agent has: in what the session
\* has collected, in a chunk to come, or in an update that comes while it
\* collects or after the sync.
Named(c) ==
    \/ InReplay(c)
    \/ \E i \in DOMAIN inbox : LastAfter(i) /\ (ChunkOf(inbox[i], c) \/ (UpsertOf(inbox[i], c) /\ InFlight(i)))
    \/ \E i \in DOMAIN inbox : NoneAfter(i) /\ UpsertOf(inbox[i], c)
    \/ LastAfter(0) /\ sess.syncKeep # NoSum /\ c \in sess.syncKeep
LastSyncNames ==
    (whole /\ (Sending \/ \E i \in DOMAIN inbox : Terminates(inbox[i]))) => \A c \in live : Named(c)

\* What the session has collected is in the view, or is on its way there.
KeptIsPresent ==
    whole /\ sess.syncKeep # NoSum =>
        \A c \in live \cap sess.syncKeep :
            \/ c \in caps \/ InReplay(c)
            \/ \E i \in DOMAIN inbox : UpsertOf(inbox[i], c) \/ ChunkOf(inbox[i], c)

\* Without a stream nothing is under way.
Quiet == ~stream => inbox = <<>> /\ replay = <<>> /\ sess.syncKeep = NoSum /\ ~settled

\* What the steps read and write, apart from the bounds and the checksums.
SyncShape == SyncTypeOK /\ Quiet /\ ReplayFramed
SyncSafe == /\ DeletesUndone /\ DeletesUndoneByUpserts /\ LastSyncNames /\ KeptIsPresent
            /\ LiveNeverDropped
SyncInv == SyncShape /\ SyncSafe

-----------------------------------------------------------------------------
(* AgentSync: lemmas about events and sequences *)

\* Appending leaves the positions before it as they were.
LEMMA Appending ==
    ASSUME NEW S, NEW q \in Seq(S), NEW e \in S
    PROVE  /\ Append(q, e) \in Seq(S) /\ Len(Append(q, e)) = Len(q) + 1 /\ Len(q) \in Nat
           /\ DOMAIN q = 1 .. Len(q) /\ DOMAIN Append(q, e) = 1 .. Len(q) + 1
           /\ \A i \in 1 .. Len(q) : Append(q, e)[i] = q[i]
           /\ Append(q, e)[Len(q) + 1] = e
OBVIOUS

\* Taking the head moves every other position down by one.
LEMMA Taking ==
    ASSUME NEW S, NEW q \in Seq(S), q # <<>>
    PROVE  /\ Tail(q) \in Seq(S) /\ Len(q) \in Nat \ {0} /\ Len(Tail(q)) = Len(q) - 1
           /\ Head(q) = q[1] /\ q[1] \in S
           /\ DOMAIN q = 1 .. Len(q) /\ DOMAIN Tail(q) = 1 .. Len(q) - 1
           /\ \A i \in 1 .. Len(q) - 1 : Tail(q)[i] = q[i + 1]
OBVIOUS

\* Send marks the gap and changes nothing else of an event.
LEMMA GapMark ==
    ASSUME NEW e \in Event, NEW g \in BOOLEAN
    PROVE  LET f == [e EXCEPT !.gap = g]
           IN  /\ f \in Event /\ f.type = e.type
               /\ \A c : (ChunkOf(f, c) <=> ChunkOf(e, c)) /\ (UpsertOf(f, c) <=> UpsertOf(e, c))
                         /\ (DeleteOf(f, c) <=> DeleteOf(e, c))
<1>1. CASE e \in [type : {"handshake"}, sum : Sum, gap : BOOLEAN]
  BY <1>1 DEF Event, ChunkOf, UpsertOf, DeleteOf
<1>2. CASE e \in [type : {"upsert", "delete"}, cap : Cap, sum : Sum, gap : BOOLEAN]
  BY <1>2 DEF Event, ChunkOf, UpsertOf, DeleteOf
<1>3. CASE e \in [type : {"chunk"}, items : SUBSET Cap, gap : BOOLEAN]
  BY <1>3 DEF Event, ChunkOf, UpsertOf, DeleteOf
<1>4. CASE e \in [type : {"terminal", "response"}, sum : Sum, gap : BOOLEAN]
  BY <1>4 DEF Event, ChunkOf, UpsertOf, DeleteOf
<1> QED
  BY <1>1, <1>2, <1>3, <1>4 DEF Event

\* A full sync names everything the agent has, in chunks that one terminal
\* chunk follows.
LEMMA ReplayShape ==
    ASSUME NEW s \in SUBSET Cap, NEW r \in Replays(s)
    PROVE  /\ r \in Seq(Event) /\ r # <<>> /\ Len(r) \in Nat
           /\ \A i \in DOMAIN r : r[i].type \in {"chunk", "terminal", "response"}
           /\ \A c \in s : \E i \in DOMAIN r : ChunkOf(r[i], c)
           /\ \E t \in DOMAIN r : /\ \A i \in DOMAIN r : Terminates(r[i]) <=> i = t
                                  /\ \A i \in DOMAIN r : IsChunk(r[i]) <=> i < t
<1> DEFINE n == Cardinality(s)
<1>1. n \in Nat
  BY SyncAssumption, FS_Subset, FS_CardinalityType
<1> DEFINE Piece(f, i) == IF i <= n THEN Chunk(f[i])
                          ELSE [type |-> IF i = n + 1 THEN "terminal" ELSE "response", sum |-> s, gap |-> FALSE]
<1>2. PICK f \in {g \in [1 .. n -> s] : \A c \in s : \E i \in 1 .. n : g[i] = c} :
          r = [i \in 1 .. n + 2 |-> Piece(f, i)]
  BY DEF Replays
<1>3. f \in [1 .. n -> s] /\ \A c \in s : \E i \in 1 .. n : f[i] = c
  BY <1>2
<1> HIDE DEF n
<1>a. \A i \in 1 .. n : Piece(f, i) = Chunk(f[i])
  BY <1>1
<1>b. Piece(f, n + 1) = [type |-> "terminal", sum |-> s, gap |-> FALSE]
  BY <1>1
<1>c. Piece(f, n + 2) = [type |-> "response", sum |-> s, gap |-> FALSE]
  <2>1. ~(n + 2 <= n) /\ n + 2 # n + 1
    BY <1>1
  <2> QED
    BY <2>1, Zenon
<1> HIDE DEF Piece
<1>d. \A i \in 1 .. n + 2 : r[i] = Piece(f, i)
  BY <1>2
<1>4. ASSUME NEW i \in 1 .. n PROVE r[i].type = "chunk" /\ r[i].items = {f[i]} /\ r[i] \in Event
  <2>1. r[i] = [type |-> "chunk", items |-> {f[i]}, gap |-> FALSE]
    <3>1. i \in 1 .. n + 2
      BY <1>1
    <3> QED
      BY <3>1, <1>a, <1>d, Zenon DEF Chunk
  <2>2. {f[i]} \in SUBSET Cap
    BY <1>3
  <2>3. r[i] \in [type : {"chunk"}, items : SUBSET Cap, gap : BOOLEAN]
    BY <2>1, <2>2
  <2> QED
    BY <2>1, <2>3 DEF Event
<1>5. s \in Sum
  BY DEF Sum
<1>6. r[n + 1].type = "terminal" /\ r[n + 1] \in Event
  <2>1. r[n + 1] = [type |-> "terminal", sum |-> s, gap |-> FALSE]
    BY <1>1, <1>b, <1>d
  <2>2. r[n + 1] \in [type : {"terminal", "response"}, sum : Sum, gap : BOOLEAN]
    BY <1>5, <2>1
  <2> QED
    BY <2>1, <2>2 DEF Event
<1>7. r[n + 2].type = "response" /\ r[n + 2] \in Event
  <2>1. r[n + 2] = [type |-> "response", sum |-> s, gap |-> FALSE]
    BY <1>1, <1>c, <1>d
  <2>2. r[n + 2] \in [type : {"terminal", "response"}, sum : Sum, gap : BOOLEAN]
    BY <1>5, <2>1
  <2> QED
    BY <2>1, <2>2 DEF Event
<1>8. DOMAIN r = 1 .. n + 2 /\ \A i \in 1 .. n + 2 : i \in 1 .. n \/ i = n + 1 \/ i = n + 2
  BY <1>1, <1>2
<1>9. r \in [1 .. n + 2 -> Event]
  BY <1>2, <1>4, <1>6, <1>7, <1>8
<1>10. r \in Seq(Event) /\ r # <<>> /\ Len(r) \in Nat
  BY <1>1, <1>8, <1>9
<1>11. \A c \in s : \E i \in DOMAIN r : ChunkOf(r[i], c)
  BY <1>1, <1>3, <1>4, <1>8 DEF ChunkOf
<1>12. \A i \in DOMAIN r : (Terminates(r[i]) <=> i = n + 1) /\ (IsChunk(r[i]) <=> i < n + 1)
  BY <1>1, <1>4, <1>6, <1>7, <1>8 DEF Terminates, IsChunk
<1>13. n + 1 \in DOMAIN r
  BY <1>1, <1>8
<1>14. \A i \in DOMAIN r : r[i].type \in {"chunk", "terminal", "response"}
  BY <1>4, <1>6, <1>7, <1>8
<1> QED
  BY <1>10, <1>11, <1>12, <1>13, <1>14

\* What is on its way is what some update in the inbox adds.
LEMMA Ways ==
    /\ \A c : c \in OnTheWay <=> \E i \in DOMAIN inbox : UpsertOf(inbox[i], c)
    /\ \A c : c \in OnTheWay' <=> \E i \in DOMAIN inbox' : UpsertOf(inbox'[i], c)
BY DEF OnTheWay, UpsertOf

-----------------------------------------------------------------------------
(* AgentSync: an event is sent *)

\* The agent sends e: a terminal chunk ends the sync it was sending, any other
\* event leaves it where it was.
Sends(e) == e \in Event /\ inbox' = Append(inbox, e) /\ UNCHANGED sess
Continues(e) == IF Terminates(e) THEN Sending /\ ~Sending' ELSE Sending' <=> Sending

\* The positions of the inbox keep what came before and after them.
LEMMA SendPositions ==
    ASSUME SyncTypeOK, NEW e, Sends(e)
    PROVE  /\ Len(inbox) \in Nat /\ DOMAIN inbox = 1 .. Len(inbox) /\ DOMAIN inbox' = 1 .. Len(inbox) + 1
           /\ Len(inbox') = Len(inbox) + 1 /\ inbox' \in Seq(Event)
           /\ \A i \in 1 .. Len(inbox) : inbox'[i] = inbox[i]
           /\ inbox'[Len(inbox) + 1] = e
BY Appending DEF SyncTypeOK, Sends

\* What the session collects and which sync is the last, after e was sent.
LEMMA SendFrames ==
    ASSUME SyncTypeOK, NEW e, Sends(e), NEW n \in Nat, n = Len(inbox)
    PROVE  /\ LastAfter(n + 1)' /\ (~Sending' => NoneAfter(n + 1)')
           /\ \A i \in 1 .. n + 1 : InFlight(i) => InFlight(i)'
           /\ ~Terminates(e) /\ InFlight(n + 1) => InFlight(n + 2)'
           /\ IsChunk(e) => InFlight(n + 2)'
           /\ Continues(e) => \A i \in Nat : /\ LastAfter(i) => LastAfter(i)'
                                             /\ NoneAfter(i) => NoneAfter(i)'
<1>1. /\ n \in Nat /\ DOMAIN inbox = 1 .. n /\ DOMAIN inbox' = 1 .. n + 1
      /\ \A i \in 1 .. n : inbox'[i] = inbox[i]
      /\ inbox'[n + 1] = e
  BY SendPositions
<1>2. sess' = sess
  BY DEF Sends
<1>3. LastAfter(n + 1)' /\ (~Sending' => NoneAfter(n + 1)')
  <2>1. \A j \in DOMAIN inbox' : ~(j > n + 1)
    BY <1>1
  <2> QED
    BY <2>1 DEF LastAfter, NoneAfter
<1>4. ASSUME NEW i \in 1 .. n + 1, InFlight(i) PROVE InFlight(i)'
  <2>1. CASE sess.syncKeep # NoSum /\ \A j \in DOMAIN inbox : j < i => ~Terminates(inbox[j])
    <3>1. \A j \in DOMAIN inbox' : j < i => j \in 1 .. n
      BY <1>1
    <3> QED
      BY <1>1, <1>2, <2>1, <3>1 DEF InFlight
  <2>2. CASE \E j \in DOMAIN inbox : /\ j < i /\ IsChunk(inbox[j])
                                     /\ \A k \in DOMAIN inbox : j < k /\ k < i => ~Terminates(inbox[k])
    <3>1. PICK j \in DOMAIN inbox : /\ j < i /\ IsChunk(inbox[j])
                                    /\ \A k \in DOMAIN inbox : j < k /\ k < i => ~Terminates(inbox[k])
      BY <2>2
    <3>2. \A k \in DOMAIN inbox' : k < i => k \in 1 .. n
      BY <1>1
    <3>3. j \in DOMAIN inbox' /\ IsChunk(inbox'[j])
      BY <1>1, <3>1
    <3> QED
      BY <1>1, <3>1, <3>2, <3>3 DEF InFlight
  <2> QED
    BY <1>4, <2>1, <2>2 DEF InFlight
<1>5. ASSUME ~Terminates(e), InFlight(n + 1) PROVE InFlight(n + 2)'
  <2>0. \A k \in DOMAIN inbox' : k < n + 1 \/ (k = n + 1 /\ ~Terminates(inbox'[k]))
    BY <1>1, <1>5
  <2>1. CASE sess.syncKeep # NoSum /\ \A j \in DOMAIN inbox : j < n + 1 => ~Terminates(inbox[j])
    BY <1>1, <1>2, <2>0, <2>1 DEF InFlight
  <2>2. CASE \E j \in DOMAIN inbox : /\ j < n + 1 /\ IsChunk(inbox[j])
                                     /\ \A k \in DOMAIN inbox : j < k /\ k < n + 1 => ~Terminates(inbox[k])
    <3>1. PICK j \in DOMAIN inbox : /\ j < n + 1 /\ IsChunk(inbox[j])
                                    /\ \A k \in DOMAIN inbox : j < k /\ k < n + 1 => ~Terminates(inbox[k])
      BY <2>2
    <3>2. j \in DOMAIN inbox' /\ IsChunk(inbox'[j]) /\ j < n + 2
      BY <1>1, <3>1
    <3>3. \A k \in DOMAIN inbox' : j < k => ~Terminates(inbox'[k])
      BY <1>1, <2>0, <3>1
    <3> QED
      BY <3>2, <3>3 DEF InFlight
  <2> QED
    BY <1>5, <2>1, <2>2 DEF InFlight
<1>6. ASSUME IsChunk(e) PROVE InFlight(n + 2)'
  <2>1. n + 1 \in DOMAIN inbox' /\ n + 1 < n + 2 /\ IsChunk(inbox'[n + 1])
    BY <1>1, <1>6
  <2>2. \A k \in DOMAIN inbox' : ~(n + 1 < k /\ k < n + 2)
    BY <1>1
  <2> QED
    BY <2>1, <2>2 DEF InFlight
<1>7. ASSUME Continues(e), NEW i \in Nat
      PROVE  (LastAfter(i) => LastAfter(i)') /\ (NoneAfter(i) => NoneAfter(i)')
  <2>1. CASE Terminates(e)
    <3>1. Sending /\ ~Sending'
      BY <1>7, <2>1 DEF Continues
    <3>2. ASSUME LastAfter(i), NEW j \in DOMAIN inbox', NEW k \in DOMAIN inbox', i < j, j < k,
                 Terminates(inbox'[j])
          PROVE  FALSE
      <4>1. j \in 1 .. n /\ inbox'[j] = inbox[j]
        BY <1>1, <3>2
      <4> QED
        BY <1>1, <3>1, <3>2, <4>1 DEF LastAfter
    <3> QED
      BY <3>1, <3>2 DEF LastAfter, NoneAfter
  <2>2. CASE ~Terminates(e)
    <3>1. Sending' <=> Sending
      BY <1>7, <2>2 DEF Continues
    <3>2. \A j \in DOMAIN inbox' : Terminates(inbox'[j]) => j \in DOMAIN inbox /\ Terminates(inbox[j])
      BY <1>1, <2>2
    <3> QED
      BY <3>1, <3>2 DEF LastAfter, NoneAfter
  <2> QED
    BY <2>1, <2>2
<1>8. /\ \A i \in 1 .. n + 1 : InFlight(i) => InFlight(i)'
      /\ Continues(e) => \A i \in Nat : (LastAfter(i) => LastAfter(i)') /\ (NoneAfter(i) => NoneAfter(i)')
  BY <1>4, <1>7
<1> QED
  BY <1>3, <1>5, <1>6, <1>8

\* A capability the last sync names is still named.
LEMMA SendNames ==
    ASSUME SyncTypeOK, NEW e, Sends(e), Continues(e), NEW c, Named(c),
           InReplay(c) => InReplay(c)' \/ ChunkOf(e, c)
    PROVE  Named(c)'
<1>0. PICK m \in Nat : m = Len(inbox)
  BY SendPositions
<1>1. /\ DOMAIN inbox = 1 .. m /\ DOMAIN inbox' = 1 .. m + 1
      /\ \A i \in 1 .. m : inbox'[i] = inbox[i]
      /\ inbox'[m + 1] = e
  BY <1>0, SendPositions
<1>2. /\ LastAfter(m + 1)'
      /\ \A i \in 1 .. m + 1 : InFlight(i) => InFlight(i)'
      /\ \A i \in Nat : (LastAfter(i) => LastAfter(i)') /\ (NoneAfter(i) => NoneAfter(i)')
  BY <1>0, SendFrames
<1>3. CASE InReplay(c)
  BY <1>1, <1>2, <1>3 DEF Named
<1>4. CASE \E i \in DOMAIN inbox : LastAfter(i) /\ (ChunkOf(inbox[i], c) \/ (UpsertOf(inbox[i], c) /\ InFlight(i)))
  <2>1. PICK i \in 1 .. m : LastAfter(i) /\ (ChunkOf(inbox[i], c) \/ (UpsertOf(inbox[i], c) /\ InFlight(i)))
    BY <1>1, <1>4
  <2>2. i \in 1 .. m + 1 /\ i \in Nat /\ inbox'[i] = inbox[i]
    BY <1>1, <2>1
  <2> QED
    BY <1>1, <1>2, <2>1, <2>2 DEF Named
<1>5. CASE \E i \in DOMAIN inbox : NoneAfter(i) /\ UpsertOf(inbox[i], c)
  <2>1. PICK i \in 1 .. m : NoneAfter(i) /\ UpsertOf(inbox[i], c)
    BY <1>1, <1>5
  <2>2. i \in 1 .. m + 1 /\ i \in Nat /\ inbox'[i] = inbox[i]
    BY <1>1, <2>1
  <2> QED
    BY <1>1, <1>2, <2>1, <2>2 DEF Named
<1>6. CASE LastAfter(0) /\ sess.syncKeep # NoSum /\ c \in sess.syncKeep
  BY <1>2, <1>6 DEF Named, Sends
<1> QED
  BY <1>3, <1>4, <1>5, <1>6 DEF Named

\* An event that continues the agent's syncs, and announces what is new, leaves
\* nothing the agent has behind.
LEMMA SendSafe ==
    ASSUME SyncInv, NEW e, Sends(e), Continues(e), UNCHANGED <<caps, settled, whole>>,
           \A c : InReplay(c) => InReplay(c)' \/ ChunkOf(e, c),
           \A c \in live' : ~DeleteOf(e, c) /\ (c \in live \/ UpsertOf(e, c))
    PROVE  SyncSafe'
<1>0. PICK n \in Nat : n = Len(inbox)
  BY SendPositions DEF SyncInv, SyncShape
<1>1. /\ DOMAIN inbox = 1 .. n /\ DOMAIN inbox' = 1 .. n + 1
      /\ \A i \in 1 .. n : inbox'[i] = inbox[i]
      /\ inbox'[n + 1] = e
  BY <1>0, SendPositions DEF SyncInv, SyncShape
<1>2. LastAfter(n + 1)' /\ (~Sending' => NoneAfter(n + 1)')
  BY <1>0, SendFrames DEF SyncInv, SyncShape
<1>3. ASSUME NEW c \in live', NEW i \in DOMAIN inbox', DeleteOf(inbox'[i], c)
      PROVE  i \in DOMAIN inbox /\ DeleteOf(inbox[i], c) /\ (c \in live \/ UpsertOf(e, c))
  BY <1>1, <1>3
<1>4. DeletesUndone'
  <2> SUFFICES ASSUME whole', NEW c \in live', NEW i \in DOMAIN inbox', DeleteOf(inbox'[i], c)
               PROVE  \/ \E j \in DOMAIN inbox' : j > i /\ (UpsertOf(inbox'[j], c) \/ ChunkOf(inbox'[j], c))
                      \/ InReplay(c)'
    BY DEF DeletesUndone
  <2>1. i \in 1 .. n /\ DeleteOf(inbox[i], c) /\ n + 1 > i /\ n + 1 \in DOMAIN inbox'
    BY <1>1, <1>3
  <2>2. CASE UpsertOf(e, c) \/ ChunkOf(e, c)
    BY <1>1, <2>1, <2>2
  <2>3. CASE c \in live /\ ~ChunkOf(e, c)
    <3>1. \/ \E j \in DOMAIN inbox : j > i /\ (UpsertOf(inbox[j], c) \/ ChunkOf(inbox[j], c))
          \/ InReplay(c)
      BY <1>1, <2>1, <2>3 DEF SyncInv, SyncSafe, DeletesUndone
    <3> QED
      BY <1>1, <2>3, <3>1
  <2> QED
    BY <1>3, <2>2, <2>3
<1>5. DeletesUndoneByUpserts'
  <2>1. ASSUME settled', NEW c \in live', NEW i \in DOMAIN inbox', DeleteOf(inbox'[i], c)
        PROVE  \E j \in DOMAIN inbox' : j > i /\ UpsertOf(inbox'[j], c)
    <3>1. i \in 1 .. n /\ DeleteOf(inbox[i], c) /\ n + 1 > i /\ n + 1 \in DOMAIN inbox'
      BY <1>1, <1>3, <2>1
    <3>2. CASE UpsertOf(e, c)
      BY <1>1, <3>1, <3>2
    <3>3. CASE c \in live
      <4>1. PICK j \in DOMAIN inbox : j > i /\ UpsertOf(inbox[j], c)
        BY <1>1, <2>1, <3>1, <3>3 DEF SyncInv, SyncSafe, DeletesUndoneByUpserts
      <4> QED
        BY <1>1, <4>1
    <3> QED
      BY <1>3, <2>1, <3>2, <3>3
  <2>2. settled' => whole'
    BY DEF SyncInv, SyncSafe, DeletesUndoneByUpserts
  <2> QED
    BY <2>1, <2>2 DEF DeletesUndoneByUpserts
<1>6. LastSyncNames'
  <2> SUFFICES ASSUME whole', Sending' \/ \E i \in DOMAIN inbox' : Terminates(inbox'[i]), NEW c \in live'
               PROVE  Named(c)'
    BY DEF LastSyncNames
  <2>1. Sending \/ \E i \in DOMAIN inbox : Terminates(inbox[i])
    BY <1>1 DEF Continues
  <2>2. CASE c \in live
    BY <2>1, <2>2, SendNames DEF SyncInv, SyncShape, SyncSafe, LastSyncNames
  <2>3. CASE UpsertOf(e, c)
    <3>1. n + 1 \in DOMAIN inbox' /\ UpsertOf(inbox'[n + 1], c)
      BY <1>1, <2>3
    <3>2. CASE Sending'
      <4>1. Sending /\ InFlight(n + 1)
        BY <1>0, <2>3, <3>2 DEF Continues, UpsertOf, Terminates, SyncInv, SyncShape, ReplayFramed
      <4>2. n + 1 \in 1 .. n + 1
        BY <1>0
      <4>3. InFlight(n + 1)'
        BY <1>0, <4>1, <4>2, SendFrames DEF SyncInv, SyncShape
      <4> QED
        BY <1>2, <3>1, <4>3 DEF Named
    <3>3. CASE ~Sending'
      BY <1>2, <3>1, <3>3 DEF Named
    <3> QED
      BY <3>2, <3>3
  <2> QED
    BY <2>2, <2>3
<1>7. KeptIsPresent'
  <2> SUFFICES ASSUME whole', sess'.syncKeep # NoSum, NEW c \in live' \cap sess'.syncKeep
               PROVE  \/ c \in caps' \/ InReplay(c)'
                      \/ \E i \in DOMAIN inbox' : UpsertOf(inbox'[i], c) \/ ChunkOf(inbox'[i], c)
    BY DEF KeptIsPresent
  <2>1. n + 1 \in DOMAIN inbox'
    BY <1>1
  <2>2. CASE UpsertOf(e, c) \/ ChunkOf(e, c)
    BY <1>1, <2>1, <2>2
  <2>3. CASE c \in live /\ ~ChunkOf(e, c)
    <3>1. \/ c \in caps \/ InReplay(c)
          \/ \E i \in DOMAIN inbox : UpsertOf(inbox[i], c) \/ ChunkOf(inbox[i], c)
      BY <2>3 DEF SyncInv, SyncSafe, KeptIsPresent, Sends
    <3> QED
      BY <1>1, <2>3, <3>1
  <2> QED
    BY <2>2, <2>3
<1>8. LiveNeverDropped'
  <2> SUFFICES ASSUME settled', NEW c \in live' PROVE c \in caps' \/ c \in OnTheWay'
    BY DEF LiveNeverDropped
  <2>1. n + 1 \in DOMAIN inbox'
    BY <1>1
  <2>2. CASE UpsertOf(e, c)
    BY <1>1, <2>1, <2>2, Ways
  <2>3. CASE c \in live
    BY <1>1, <2>3, Ways DEF SyncInv, SyncSafe, LiveNeverDropped
  <2> QED
    BY <2>2, <2>3
<1> QED
  BY <1>4, <1>5, <1>6, <1>7, <1>8 DEF SyncSafe

\* Nothing is under way once the stream has ended.
LEMMA QuietIsSafe ==
    ASSUME inbox' = <<>>, replay' = <<>>, sess'.syncKeep = NoSum, ~settled'
    PROVE  ReplayFramed' /\ SyncSafe'
<1>1. DOMAIN inbox' = {} /\ DOMAIN replay' = {}
  OBVIOUS
<1>2. ReplayFramed'
  BY <1>1 DEF ReplayFramed, Sending
<1>3. DeletesUndone' /\ DeletesUndoneByUpserts' /\ LiveNeverDropped'
  BY <1>1 DEF DeletesUndone, DeletesUndoneByUpserts, LiveNeverDropped
<1>4. LastSyncNames' /\ KeptIsPresent'
  BY <1>1 DEF LastSyncNames, KeptIsPresent, Sending
<1> QED
  BY <1>2, <1>3, <1>4 DEF SyncSafe

\* The agent's state changes: an update announces it, or the stream is not whole.
LEMMA ChangeStep ==
    ASSUME SyncInv, NEW c \in Cap, Change(c)
    PROVE  SyncInv'
<1> USE DEF SyncInv, SyncShape
<1> DEFINE e == [type |-> IF c \in live THEN "delete" ELSE "upsert", cap |-> c, sum |-> live', gap |-> FALSE]
           g == [e EXCEPT !.gap = gapNext]
<1>1. live' \in SUBSET Cap /\ agentSum' \in Sum /\ live' \in Sum
  BY DEF Change, SyncTypeOK, Sum
<1>2. e \in Event
  <2>1. e \in [type : {"upsert", "delete"}, cap : Cap, sum : Sum, gap : BOOLEAN]
    BY <1>1
  <2> QED
    BY <2>1 DEF Event
<1>3. CASE stream /\ Send(e) /\ UNCHANGED <<settled, whole, drops>>
  <2>1. e.type = (IF c \in live THEN "delete" ELSE "upsert") /\ e.cap = c
    OBVIOUS
  <2> HIDE DEF e
  <2>2. g \in Event /\ g.type = e.type
    BY <1>2, GapMark DEF SyncTypeOK
  <2>3. \A d : (UpsertOf(g, d) <=> UpsertOf(e, d)) /\ (DeleteOf(g, d) <=> DeleteOf(e, d))
    BY <1>2, GapMark DEF SyncTypeOK
  <2>4. Sends(g) /\ UNCHANGED <<replay, caps, stream>>
    BY <1>3, <2>2 DEF Change, Sends, Send, viewVars
  <2>5. ~Terminates(g) /\ Continues(g)
    BY <2>1, <2>2, <2>4 DEF Terminates, Continues, Sending
  <2>6. \A d \in live' : ~DeleteOf(g, d) /\ (d \in live \/ UpsertOf(g, d))
    <3>1. CASE c \in live
      BY <2>1, <2>3, <3>1 DEF Change, DeleteOf, UpsertOf
    <3>2. CASE c \notin live
      BY <2>1, <2>3, <3>2 DEF Change, DeleteOf, UpsertOf
    <3> QED
      BY <3>1, <3>2
  <2>7. \A d : InReplay(d) => InReplay(d)'
    BY <2>4 DEF InReplay
  <2>8. SyncSafe'
    <3> HIDE DEF g
    <3> QED
      BY <1>3, <2>4, <2>5, <2>6, <2>7, SendSafe
  <2>9. SyncTypeOK' /\ Quiet'
    <3>1. inbox' \in Seq(Event) /\ gapNext' = FALSE /\ stream' = stream
      BY <1>3, <2>4, SendPositions DEF Send
    <3>2. changes' \in 0 .. MaxChanges
      BY SyncAssumption DEF Change, SyncTypeOK
    <3> HIDE DEF g
    <3>3. Quiet'
      BY <1>3, <3>1 DEF Quiet
    <3>4. UNCHANGED <<replay, asked, caps, checksum, sess, settled, whole, streams, drops>>
      BY <1>3 DEF Change, viewVars
    <3>5. SyncTypeOK'
      BY <1>1, <3>1, <3>2, <3>4 DEF SyncTypeOK
    <3> QED
      BY <3>3, <3>5
  <2>10. ReplayFramed'
    <3>1. PICK n \in Nat : n = Len(inbox) /\ Len(inbox') = n + 1
      BY <2>4, SendPositions
    <3>2. Sending' => InFlight(n + 2)'
      <4> HIDE DEF g
      <4> QED
        BY <2>4, <2>5, <3>1, SendFrames DEF ReplayFramed, Continues
    <3>3. (n + 1) + 1 = n + 2
      BY <3>1
    <3>4. Sending' => InFlight(Len(inbox) + 1)'
      BY <3>1, <3>2, <3>3
    <3> QED
      BY <2>4, <3>4 DEF ReplayFramed
  <2> QED
    BY <2>8, <2>9, <2>10
<1>4. CASE /\ stream /\ drops < MaxDrops
           /\ drops' = drops + 1 /\ gapNext' = TRUE
           /\ settled' = FALSE /\ whole' = FALSE
           /\ UNCHANGED inbox
  <2>1. SyncTypeOK' /\ Quiet'
    <3>1. changes' \in 0 .. MaxChanges /\ drops' \in 0 .. MaxDrops
      BY <1>4, SyncAssumption DEF Change, SyncTypeOK
    <3> QED
      BY <1>1, <1>4, <3>1 DEF SyncTypeOK, Quiet, Change, viewVars
  <2>2. ReplayFramed'
    BY <1>4 DEF ReplayFramed, Sending, InFlight, Change
  <2>3. SyncSafe'
    BY <1>4 DEF SyncSafe, DeletesUndone, DeletesUndoneByUpserts, LastSyncNames, KeptIsPresent, LiveNeverDropped
  <2> QED
    BY <2>1, <2>2, <2>3
<1>5. CASE ~stream /\ UNCHANGED <<inbox, gapNext, settled, whole, drops>>
  <2>1. SyncTypeOK' /\ Quiet'
    BY <1>1, <1>5, SyncAssumption DEF SyncTypeOK, Quiet, Change, viewVars
  <2> QED
    BY <1>5, <2>1, QuietIsSafe DEF Quiet, Change
<1> QED
  BY <1>3, <1>4, <1>5 DEF Change

\* The next event of a full sync is sent.
LEMMA SendReplayStep ==
    ASSUME SyncInv, SendReplay
    PROVE  SyncInv'
<1> USE DEF SyncInv, SyncShape
<1> DEFINE e == Head(replay)
           g == [e EXCEPT !.gap = gapNext]
<1>1. /\ e \in Event /\ replay' \in Seq(Event) /\ Len(replay) \in Nat \ {0}
      /\ e = replay[1] /\ DOMAIN replay = 1 .. Len(replay) /\ DOMAIN replay' = 1 .. Len(replay) - 1
      /\ \A i \in DOMAIN replay' : i + 1 \in DOMAIN replay /\ replay'[i] = replay[i + 1]
      /\ \A i \in DOMAIN replay : i = 1 \/ (i - 1 \in DOMAIN replay' /\ replay'[i - 1] = replay[i])
  <2>1. /\ e \in Event /\ replay' \in Seq(Event) /\ Len(replay) \in Nat \ {0}
        /\ e = replay[1] /\ DOMAIN replay = 1 .. Len(replay) /\ DOMAIN replay' = 1 .. Len(replay) - 1
        /\ \A i \in 1 .. Len(replay) - 1 : replay'[i] = replay[i + 1]
    BY Taking DEF SendReplay, SyncTypeOK
  <2> QED
    BY <2>1
<1> HIDE DEF e
<1>2. g \in Event /\ g.type = e.type /\ \A c : (ChunkOf(g, c) <=> ChunkOf(e, c)) /\ (DeleteOf(g, c) <=> DeleteOf(e, c))
  BY <1>1, GapMark DEF SyncTypeOK
<1>3. Sends(g) /\ UNCHANGED <<live, caps, settled, whole, stream, sess>>
  BY <1>2 DEF SendReplay, Sends, Send, viewVars, e
<1>4. (Terminates(g) <=> Terminates(e)) /\ (IsChunk(g) <=> IsChunk(e))
  BY <1>2 DEF Terminates, IsChunk
<1> HIDE DEF g
<1>5. Continues(g)
  <2>1. CASE Terminates(e)
    BY <1>1, <1>4, <2>1 DEF Continues, Sending, ReplayFramed
  <2>2. CASE ~Terminates(e)
    BY <1>1, <1>4, <2>2 DEF Continues, Sending
  <2> QED
    BY <2>1, <2>2
<1>6. \A c : InReplay(c) => InReplay(c)' \/ ChunkOf(g, c)
  BY <1>1, <1>2 DEF InReplay
<1>7. \A c : ~DeleteOf(g, c)
  BY <1>1, <1>2 DEF DeleteOf, ReplayFramed
<1>8. SyncSafe'
  BY <1>3, <1>5, <1>6, <1>7, SendSafe
<1>9. SyncTypeOK' /\ Quiet'
  <2>1. inbox' \in Seq(Event) /\ gapNext' = FALSE
    BY <1>3, SendPositions DEF SendReplay, Send
  <2>2. stream' = stream /\ stream
    BY DEF SendReplay
  <2>3. Quiet'
    BY <2>2 DEF Quiet
  <2>4. UNCHANGED <<live, agentSum, asked, caps, checksum, sess, settled, whole, changes, drops, streams>>
    BY DEF SendReplay, viewVars, boundVars
  <2>5. SyncTypeOK'
    BY <1>1, <2>1, <2>2, <2>4 DEF SyncTypeOK
  <2> QED
    BY <2>3, <2>5
<1>10. ReplayFramed'
  <2>1. PICK n \in Nat : n = Len(inbox) /\ Len(inbox') = n + 1
    BY <1>3, SendPositions
  <2>2. Sending' => Sending /\ ~Terminates(g)
    BY <1>5 DEF Continues
  <2>3. Sending' => InFlight(n + 2)'
    BY <1>3, <2>1, <2>2, SendFrames DEF ReplayFramed
  <2>4. (n + 1) + 1 = n + 2
    BY <2>1
  <2>5. Sending' => InFlight(Len(inbox) + 1)'
    BY <2>1, <2>3, <2>4
  <2>6. /\ \A i \in DOMAIN replay' : replay'[i].type \in {"chunk", "terminal", "response"}
        /\ \A i, j \in DOMAIN replay' : Terminates(replay'[i]) /\ Terminates(replay'[j]) => i = j
    BY <1>1 DEF ReplayFramed
  <2>7. ASSUME NEW i \in DOMAIN replay', IsChunk(replay'[i])
        PROVE  \E j \in DOMAIN replay' : i < j /\ Terminates(replay'[j])
    <3>1. PICK j \in DOMAIN replay : i + 1 < j /\ Terminates(replay[j])
      BY <1>1, <2>7 DEF ReplayFramed
    <3>2. i \in Nat /\ j \in Nat /\ j # 1
      BY <1>1, <3>1
    <3>3. j - 1 \in DOMAIN replay' /\ Terminates(replay'[j - 1]) /\ i < j - 1
      BY <1>1, <3>1, <3>2
    <3> QED
      BY <3>3
  <2> QED
    BY <2>5, <2>6, <2>7 DEF ReplayFramed
<1> QED
  BY <1>8, <1>9, <1>10

\* The snapshot's events name everything the agent has, whatever came before.
LEMMA SnapshotStep ==
    ASSUME SyncInv, TakeSnapshot
    PROVE  SyncInv'
<1> USE DEF SyncInv, SyncShape
<1>1. PICK r \in Replays(live) : Send(Head(r)) /\ replay' = Tail(r)
  BY DEF TakeSnapshot
<1>2. live \in SUBSET Cap
  BY DEF SyncTypeOK
<1>3. /\ r \in Seq(Event) /\ r # <<>> /\ Len(r) \in Nat
      /\ \A i \in DOMAIN r : r[i].type \in {"chunk", "terminal", "response"}
      /\ \A c \in live : \E i \in DOMAIN r : ChunkOf(r[i], c)
  BY <1>2, ReplayShape
<1>4. PICK t \in DOMAIN r : \A i \in DOMAIN r : (Terminates(r[i]) <=> i = t) /\ (IsChunk(r[i]) <=> i < t)
  BY <1>2, ReplayShape
<1> DEFINE e == r[1]
           g == [e EXCEPT !.gap = gapNext]
<1>5. /\ e \in Event /\ replay' \in Seq(Event) /\ Len(r) \in Nat \ {0}
      /\ e = Head(r) /\ DOMAIN r = 1 .. Len(r) /\ DOMAIN replay' = 1 .. Len(r) - 1
      /\ \A i \in DOMAIN replay' : i + 1 \in DOMAIN r /\ replay'[i] = r[i + 1]
      /\ \A i \in DOMAIN r : i = 1 \/ (i - 1 \in DOMAIN replay' /\ replay'[i - 1] = r[i])
  <2>1. /\ e \in Event /\ replay' \in Seq(Event) /\ Len(r) \in Nat \ {0}
        /\ e = Head(r) /\ DOMAIN r = 1 .. Len(r) /\ DOMAIN replay' = 1 .. Len(r) - 1
        /\ \A i \in 1 .. Len(r) - 1 : replay'[i] = r[i + 1]
    BY <1>1, <1>3, Taking
  <2> QED
    BY <2>1
<1> HIDE DEF e
<1>6. g \in Event /\ g.type = e.type /\ \A c : (ChunkOf(g, c) <=> ChunkOf(e, c)) /\ (DeleteOf(g, c) <=> DeleteOf(e, c))
  BY <1>5, GapMark DEF SyncTypeOK
<1>7. Sends(g) /\ UNCHANGED <<live, caps, settled, stream, sess>> /\ whole' = TRUE
  BY <1>1, <1>5, <1>6 DEF TakeSnapshot, Sends, Send, viewVars
<1> HIDE DEF g
<1>8. \A c : ~DeleteOf(g, c)
  BY <1>3, <1>5, <1>6 DEF DeleteOf, e
<1>9. \A c \in live' : InReplay(c)' \/ ChunkOf(g, c)
  BY <1>3, <1>5, <1>6, <1>7 DEF InReplay, e
<1>10. PICK n \in Nat : n = Len(inbox)
  BY <1>7, SendPositions
<1>11. /\ DOMAIN inbox = 1 .. n /\ DOMAIN inbox' = 1 .. n + 1 /\ n + 1 \in DOMAIN inbox'
       /\ \A i \in 1 .. n : inbox'[i] = inbox[i]
       /\ inbox'[n + 1] = g /\ Len(inbox') = n + 1
  BY <1>7, <1>10, SendPositions
<1>12. ReplayFramed'
  <2>1. \A i \in DOMAIN replay' : replay'[i].type \in {"chunk", "terminal", "response"}
    BY <1>3, <1>5
  <2>2. \A i, j \in DOMAIN replay' : Terminates(replay'[i]) /\ Terminates(replay'[j]) => i = j
    BY <1>4, <1>5
  <2>3. ASSUME NEW i \in DOMAIN replay', IsChunk(replay'[i])
        PROVE  \E j \in DOMAIN replay' : i < j /\ Terminates(replay'[j])
    <3>1. i + 1 < t
      BY <1>4, <1>5, <2>3
    <3>2. t - 1 \in DOMAIN replay' /\ Terminates(replay'[t - 1]) /\ i < t - 1
      BY <1>4, <1>5, <3>1
    <3> QED
      BY <3>2
  <2>4. Sending' => IsChunk(g)
    <3> SUFFICES ASSUME NEW j \in DOMAIN replay', Terminates(replay'[j]) PROVE IsChunk(g)
      BY DEF Sending
    <3>1. j + 1 = t /\ 1 \in DOMAIN r /\ 1 < t
      BY <1>4, <1>5
    <3>2. IsChunk(e)
      BY <1>4, <3>1 DEF e
    <3> QED
      BY <1>6, <3>2 DEF IsChunk
  <2>5. Sending' => InFlight(n + 2)'
    BY <1>7, <1>10, <2>4, SendFrames
  <2>6. Sending' => InFlight(Len(inbox) + 1)'
    <3>1. (n + 1) + 1 = n + 2
      BY <1>10
    <3> QED
      BY <1>11, <2>5, <3>1
  <2> QED
    BY <2>1, <2>2, <2>3, <2>6 DEF ReplayFramed
<1>13. DeletesUndone'
  <2> SUFFICES ASSUME NEW c \in live', NEW i \in DOMAIN inbox', DeleteOf(inbox'[i], c)
               PROVE  \/ \E j \in DOMAIN inbox' : j > i /\ (UpsertOf(inbox'[j], c) \/ ChunkOf(inbox'[j], c))
                      \/ InReplay(c)'
    BY DEF DeletesUndone
  <2>1. n + 1 > i
    BY <1>8, <1>11
  <2> QED
    BY <1>9, <1>11, <2>1
<1>14. DeletesUndoneByUpserts'
  <2> SUFFICES ASSUME settled', NEW c \in live', NEW i \in DOMAIN inbox', DeleteOf(inbox'[i], c)
               PROVE  \E j \in DOMAIN inbox' : j > i /\ UpsertOf(inbox'[j], c)
    BY <1>7 DEF DeletesUndoneByUpserts
  <2>1. i \in DOMAIN inbox /\ DeleteOf(inbox[i], c)
    BY <1>8, <1>11
  <2>2. PICK j \in DOMAIN inbox : j > i /\ UpsertOf(inbox[j], c)
    BY <1>7, <2>1 DEF SyncSafe, DeletesUndoneByUpserts
  <2> QED
    BY <1>11, <2>2
<1>15. LastSyncNames'
  <2>1. LastAfter(n + 1)'
    BY <1>7, <1>10, SendFrames
  <2> QED
    BY <1>9, <1>11, <2>1 DEF LastSyncNames, Named
<1>16. KeptIsPresent'
  BY <1>9, <1>11 DEF KeptIsPresent
<1>17. LiveNeverDropped'
  BY <1>7, <1>11, Ways DEF SyncSafe, LiveNeverDropped
<1>18. SyncTypeOK' /\ Quiet'
  <2>1. inbox' \in Seq(Event) /\ gapNext' = FALSE /\ asked' = FALSE
    BY <1>1, <1>7, SendPositions DEF TakeSnapshot, Send
  <2>2. stream' = stream /\ stream
    BY DEF TakeSnapshot
  <2>3. Quiet'
    BY <2>2 DEF Quiet
  <2>4. UNCHANGED <<live, agentSum, caps, checksum, sess, settled, changes, drops, streams>>
    BY DEF TakeSnapshot, viewVars, boundVars
  <2>5. SyncTypeOK'
    BY <1>5, <1>7, <2>1, <2>2, <2>4 DEF SyncTypeOK
  <2> QED
    BY <2>3, <2>5
<1> QED
  BY <1>12, <1>13, <1>14, <1>15, <1>16, <1>17, <1>18 DEF SyncSafe

\* A stream starts with the handshake alone, and ends with nothing under way.
LEMMA StreamStep ==
    ASSUME SyncInv, Connect \/ EndStream \/ AgentRestart
    PROVE  SyncInv'
<1> USE DEF SyncInv, SyncShape
<1>1. CASE Connect
  <2> DEFINE e == [type |-> "handshake", sum |-> agentSum, gap |-> FALSE]
  <2>1. e \in Event /\ e.type = "handshake"
    <3>1. e \in [type : {"handshake"}, sum : Sum, gap : BOOLEAN]
      BY DEF SyncTypeOK
    <3> QED
      BY <3>1 DEF Event
  <2>2. inbox' = <<e>> /\ replay' = <<>> /\ ~settled' /\ sess'.syncKeep = NoSum
    BY <1>1 DEF Connect, newSession
  <2> HIDE DEF e
  <2>3. DOMAIN inbox' = {1} /\ inbox'[1] = e /\ DOMAIN replay' = {} /\ inbox' \in Seq(Event)
    BY <2>1, <2>2
  <2>4. /\ ~Terminates(inbox'[1])
        /\ \A c : ~DeleteOf(inbox'[1], c)
    BY <2>1, <2>3 DEF Terminates, DeleteOf
  <2>5. ReplayFramed' /\ SyncSafe'
    BY <2>2, <2>3, <2>4 DEF ReplayFramed, Sending, SyncSafe, DeletesUndone, DeletesUndoneByUpserts,
       LastSyncNames, KeptIsPresent, LiveNeverDropped
  <2>6. NoSum \in Sum /\ live \in Sum /\ replay' \in Seq(Event)
    BY <2>2 DEF SyncTypeOK, Sum
  <2>7. sess' \in [sum : Sum, resyncSent : BOOLEAN, syncKeep : Sum]
    BY <1>1, <2>6 DEF Connect, newSession, SyncTypeOK
  <2>8. streams' \in 0 .. MaxStreams /\ asked' \in BOOLEAN
    BY <1>1, SyncAssumption DEF Connect, SyncTypeOK
  <2>9. UNCHANGED <<live, caps, checksum, changes, drops>>
    BY <1>1 DEF Connect, viewVars
  <2>10. stream' = TRUE /\ agentSum' = live /\ gapNext' = FALSE /\ settled' = FALSE /\ whole' = TRUE
    BY <1>1 DEF Connect
  <2>11. SyncTypeOK' /\ Quiet'
    BY <2>3, <2>6, <2>7, <2>8, <2>9, <2>10 DEF SyncTypeOK, Quiet
  <2> QED
    BY <2>5, <2>11
<1>2. CASE EndStream
  <2>1. inbox' = <<>> /\ replay' = <<>> /\ settled' = FALSE /\ sess'.syncKeep = NoSum /\ stream' = FALSE
    BY <1>2 DEF EndStream, newSession
  <2>2. sess' \in [sum : Sum, resyncSent : BOOLEAN, syncKeep : Sum]
    BY <1>2 DEF EndStream, newSession, Sum
  <2>3. inbox' \in Seq(Event) /\ replay' \in Seq(Event)
    BY <2>1
  <2>4. SyncTypeOK' /\ Quiet'
    BY <1>2, <2>1, <2>2, <2>3 DEF EndStream, SyncTypeOK, Quiet, viewVars, boundVars
  <2> QED
    BY <2>1, <2>4, QuietIsSafe
<1>3. CASE AgentRestart
  <2>1. UNCHANGED <<live, replay, asked, gapNext, caps, checksum, stream, inbox, sess, settled, whole, changes, drops, streams>>
    BY <1>3 DEF AgentRestart, viewVars, boundVars
  <2>2. agentSum' \in Sum /\ ~stream
    BY <1>3 DEF AgentRestart, Sum
  <2>3. SyncTypeOK' /\ Quiet'
    BY <2>1, <2>2 DEF SyncTypeOK, Quiet
  <2> QED
    BY <2>1, <2>2, <2>3, QuietIsSafe DEF Quiet
<1> QED
  BY <1>1, <1>2, <1>3

-----------------------------------------------------------------------------
(* AgentSync: the session handles the head of the inbox *)

\* What every handler does to the events: the head goes, nothing else changes.
Takes(e) == /\ inbox # <<>> /\ e = inbox[1] /\ inbox' = Tail(inbox)
            /\ UNCHANGED <<live, replay, whole>>
\* What the session collects: a chunk starts it, updates and chunks add to it,
\* the terminal chunk ends it.
Collects(e) ==
    /\ Terminates(e) => sess'.syncKeep = NoSum
    /\ IsChunk(e) => sess'.syncKeep # NoSum
    /\ ~Terminates(e) /\ sess.syncKeep # NoSum => sess'.syncKeep # NoSum /\ sess.syncKeep \subseteq sess'.syncKeep
    /\ sess'.syncKeep # NoSum =>
         /\ \A c : ChunkOf(e, c) \/ (UpsertOf(e, c) /\ sess.syncKeep # NoSum) => c \in sess'.syncKeep
         /\ \A c \in sess'.syncKeep : \/ sess.syncKeep # NoSum /\ c \in sess.syncKeep
                                      \/ UpsertOf(e, c) \/ ChunkOf(e, c)
\* What an event other than the terminal chunk does to the view.
Applies(e) ==
    /\ \A c \in caps : c \in caps' \/ DeleteOf(e, c)
    /\ \A c : UpsertOf(e, c) \/ ChunkOf(e, c) => c \in caps'

\* The positions of the inbox after its head move down by one.
LEMMA TakePositions ==
    ASSUME SyncTypeOK, NEW e, Takes(e)
    PROVE  /\ Len(inbox) \in Nat \ {0} /\ Len(inbox') = Len(inbox) - 1 /\ inbox' \in Seq(Event) /\ e \in Event
           /\ DOMAIN inbox = 1 .. Len(inbox) /\ DOMAIN inbox' = 1 .. Len(inbox) - 1
           /\ \A i \in DOMAIN inbox' : i + 1 \in DOMAIN inbox /\ inbox'[i] = inbox[i + 1]
           /\ \A i \in DOMAIN inbox : i = 1 \/ (i - 1 \in DOMAIN inbox' /\ inbox'[i - 1] = inbox[i])
<1>1. /\ Len(inbox) \in Nat \ {0} /\ Len(inbox') = Len(inbox) - 1 /\ inbox' \in Seq(Event) /\ e \in Event
      /\ DOMAIN inbox = 1 .. Len(inbox) /\ DOMAIN inbox' = 1 .. Len(inbox) - 1
      /\ \A i \in 1 .. Len(inbox) - 1 : inbox'[i] = inbox[i + 1]
  BY Taking DEF SyncTypeOK, Takes
<1> QED
  BY <1>1

\* What the session collects and which sync is the last, after the head is gone.
LEMMA TakeFrames ==
    ASSUME SyncTypeOK, NEW e, Takes(e), Collects(e)
    PROVE  /\ \A i \in Nat : (LastAfter(i + 1) => LastAfter(i)') /\ (NoneAfter(i + 1) => NoneAfter(i)')
           /\ LastAfter(0) => LastAfter(0)'
           /\ \A i \in Nat \ {0} : InFlight(i + 1) => InFlight(i)'
<1> DEFINE n == Len(inbox)
<1>1. /\ n \in Nat \ {0} /\ DOMAIN inbox = 1 .. n /\ DOMAIN inbox' = 1 .. n - 1
      /\ \A i \in DOMAIN inbox' : i + 1 \in DOMAIN inbox /\ inbox'[i] = inbox[i + 1]
      /\ e = inbox[1]
  BY TakePositions DEF Takes
<1>2. Sending' <=> Sending
  BY DEF Takes, Sending
<1> HIDE DEF n
<1>3. ASSUME NEW i \in Nat, NEW m \in Nat, m \in {i, i + 1}, LastAfter(m) PROVE LastAfter(i)'
  <2>1. CASE Sending
    <3>1. \A j \in DOMAIN inbox : j > m => ~Terminates(inbox[j])
      BY <1>3, <2>1 DEF LastAfter
    <3>2. \A j \in DOMAIN inbox' : j > i => j + 1 > m /\ j + 1 \in DOMAIN inbox
      BY <1>1, <1>3
    <3>3. \A j \in DOMAIN inbox' : j > i => ~Terminates(inbox'[j])
      BY <1>1, <3>1, <3>2
    <3> QED
      BY <1>2, <2>1, <3>3 DEF LastAfter
  <2>2. CASE ~Sending
    <3>1. \A j, k \in DOMAIN inbox : m < j /\ j < k => ~(Terminates(inbox[j]) /\ Terminates(inbox[k]))
      BY <1>3, <2>2 DEF LastAfter
    <3>2. ASSUME NEW j \in DOMAIN inbox', NEW k \in DOMAIN inbox', i < j, j < k
          PROVE  ~(Terminates(inbox'[j]) /\ Terminates(inbox'[k]))
      <4>1. m < j + 1 /\ j + 1 < k + 1 /\ j + 1 \in DOMAIN inbox /\ k + 1 \in DOMAIN inbox
        BY <1>1, <1>3, <3>2
      <4> QED
        BY <1>1, <3>1, <4>1
    <3> QED
      BY <1>2, <2>2, <3>2 DEF LastAfter
  <2> QED
    BY <2>1, <2>2
<1>4. ASSUME NEW i \in Nat, NoneAfter(i + 1) PROVE NoneAfter(i)'
  <2>1. \A j \in DOMAIN inbox' : j > i => j + 1 > i + 1
    BY <1>1, <1>4
  <2> QED
    BY <1>1, <1>2, <1>4, <2>1 DEF NoneAfter
<1>5. ASSUME NEW i \in Nat \ {0}, InFlight(i + 1) PROVE InFlight(i)'
  <2>1. CASE sess.syncKeep # NoSum /\ \A j \in DOMAIN inbox : j < i + 1 => ~Terminates(inbox[j])
    <3>1. 1 \in DOMAIN inbox /\ 1 < i + 1 /\ \A j \in DOMAIN inbox' : j < i => j + 1 < i + 1
      BY <1>1, <1>5
    <3>2. sess'.syncKeep # NoSum
      BY <1>1, <2>1, <3>1 DEF Collects
    <3> QED
      BY <1>1, <2>1, <3>1, <3>2 DEF InFlight
  <2>2. CASE \E j \in DOMAIN inbox : /\ j < i + 1 /\ IsChunk(inbox[j])
                                     /\ \A k \in DOMAIN inbox : j < k /\ k < i + 1 => ~Terminates(inbox[k])
    <3>1. PICK j \in DOMAIN inbox : /\ j < i + 1 /\ IsChunk(inbox[j])
                                    /\ \A k \in DOMAIN inbox : j < k /\ k < i + 1 => ~Terminates(inbox[k])
      BY <2>2
    <3>2. CASE j = 1
      <4>1. sess'.syncKeep # NoSum
        BY <1>1, <3>1, <3>2 DEF Collects
      <4>2. \A k \in DOMAIN inbox' : k < i => j < k + 1 /\ k + 1 < i + 1
        BY <1>1, <1>5, <3>2
      <4> QED
        BY <1>1, <3>1, <4>1, <4>2 DEF InFlight
    <3>3. CASE j # 1
      <4>1. j - 1 \in DOMAIN inbox' /\ inbox'[j - 1] = inbox[j] /\ j - 1 < i
        BY <1>1, <1>5, <3>1, <3>3
      <4>2. \A k \in DOMAIN inbox' : j - 1 < k /\ k < i => j < k + 1 /\ k + 1 < i + 1
        BY <1>1, <1>5, <3>1, <3>3
      <4>3. \A k \in DOMAIN inbox' : j - 1 < k /\ k < i => ~Terminates(inbox'[k])
        BY <1>1, <3>1, <4>2
      <4> QED
        BY <3>1, <4>1, <4>3 DEF InFlight
    <3> QED
      BY <3>2, <3>3
  <2> QED
    BY <1>5, <2>1, <2>2 DEF InFlight
<1> QED
  BY <1>3, <1>4, <1>5

\* The framing of the agent's syncs does not depend on what is handled.
LEMMA TakeFramed ==
    ASSUME SyncInv, NEW e, Takes(e), Collects(e)
    PROVE  ReplayFramed'
<1> USE DEF SyncInv, SyncShape
<1>1. PICK n \in Nat \ {0} : n = Len(inbox) /\ Len(inbox') = n - 1
  BY TakePositions
<1>2. UNCHANGED replay
  BY DEF Takes
<1>3. Sending => InFlight(n)'
  BY <1>1, TakeFrames DEF ReplayFramed
<1>4. (n - 1) + 1 = n
  BY <1>1
<1>5. Sending' => InFlight(Len(inbox) + 1)'
  BY <1>1, <1>2, <1>3, <1>4 DEF Sending
<1> QED
  BY <1>2, <1>5 DEF ReplayFramed

\* As long as a sync is to be finalized, its names are collected or to come.
LEMMA TakeNames ==
    ASSUME SyncTypeOK, NEW e, Takes(e), Collects(e), NEW c, Named(c),
           Sending' \/ \E i \in DOMAIN inbox' : Terminates(inbox'[i])
    PROVE  Named(c)'
<1>1. /\ \A i \in DOMAIN inbox' : i \in Nat \ {0} /\ i + 1 \in DOMAIN inbox /\ inbox'[i] = inbox[i + 1]
      /\ \A i \in DOMAIN inbox : i \in Nat \ {0} /\ (i = 1 \/ (i - 1 \in DOMAIN inbox' /\ inbox'[i - 1] = inbox[i]))
      /\ e = inbox[1] /\ 1 \in DOMAIN inbox /\ UNCHANGED replay
  BY TakePositions DEF Takes
<1>2. /\ \A i \in Nat : (LastAfter(i + 1) => LastAfter(i)') /\ (NoneAfter(i + 1) => NoneAfter(i)')
      /\ LastAfter(0) => LastAfter(0)'
      /\ \A i \in Nat \ {0} : InFlight(i + 1) => InFlight(i)'
  BY TakeFrames
<1>3. Sending' <=> Sending
  BY <1>1 DEF Sending
<1>4. ASSUME NEW i \in DOMAIN inbox, i # 1
      PROVE  /\ i - 1 \in DOMAIN inbox' /\ inbox'[i - 1] = inbox[i]
             /\ (LastAfter(i) => LastAfter(i - 1)') /\ (NoneAfter(i) => NoneAfter(i - 1)')
             /\ (InFlight(i) => InFlight(i - 1)')
  <2>1. i - 1 \in Nat \ {0} /\ (i - 1) + 1 = i
    BY <1>1, <1>4
  <2>2. PICK k \in Nat \ {0} : k = i - 1
    BY <2>1
  <2>3. (LastAfter(i) => LastAfter(k)') /\ (NoneAfter(i) => NoneAfter(k)') /\ (InFlight(i) => InFlight(k)')
    BY <1>2, <2>1, <2>2
  <2> QED
    BY <1>1, <1>4, <2>2, <2>3
<1>5. CASE InReplay(c)
  BY <1>1, <1>5 DEF Named, InReplay
<1>6. CASE \E i \in DOMAIN inbox : LastAfter(i) /\ (ChunkOf(inbox[i], c) \/ (UpsertOf(inbox[i], c) /\ InFlight(i)))
  <2>1. PICK i \in DOMAIN inbox : LastAfter(i) /\ (ChunkOf(inbox[i], c) \/ (UpsertOf(inbox[i], c) /\ InFlight(i)))
    BY <1>6
  <2>2. CASE i = 1
    <3>1. LastAfter(0)'
      <4>1. LastAfter(0 + 1) /\ 0 \in Nat
        BY <2>1, <2>2
      <4> QED
        BY <1>2, <4>1
    <3>2. CASE ChunkOf(e, c)
      BY <3>1, <3>2 DEF Named, Collects, ChunkOf, IsChunk
    <3>3. CASE UpsertOf(e, c) /\ InFlight(1)
      <4>1. sess.syncKeep # NoSum
        BY <1>1, <3>3 DEF InFlight
      <4>2. ~Terminates(e)
        BY <3>3 DEF UpsertOf, Terminates
      <4> QED
        BY <3>1, <3>3, <4>1, <4>2 DEF Named, Collects
    <3> QED
      BY <1>1, <2>1, <2>2, <3>2, <3>3
  <2>3. CASE i # 1
    BY <1>4, <2>1, <2>3 DEF Named
  <2> QED
    BY <2>2, <2>3
<1>7. CASE \E i \in DOMAIN inbox : NoneAfter(i) /\ UpsertOf(inbox[i], c)
  <2>1. PICK i \in DOMAIN inbox : NoneAfter(i) /\ UpsertOf(inbox[i], c)
    BY <1>7
  <2>2. i # 1
    <3> SUFFICES ASSUME NoneAfter(1) PROVE FALSE
      BY <2>1
    <3>1. ~Sending' /\ \A j \in DOMAIN inbox' : ~Terminates(inbox'[j])
      BY <1>1, <1>3 DEF NoneAfter
    <3> QED
      BY <3>1
  <2> QED
    BY <1>4, <2>1, <2>2 DEF Named
<1>8. CASE LastAfter(0) /\ sess.syncKeep # NoSum /\ c \in sess.syncKeep
  <2>1. ~Terminates(e)
    <3> SUFFICES ASSUME Terminates(e) PROVE FALSE
      OBVIOUS
    <3>1. CASE Sending
      BY <1>1, <1>8, <3>1 DEF LastAfter
    <3>2. CASE ~Sending
      <4>1. PICK j \in DOMAIN inbox' : Terminates(inbox'[j])
        BY <1>3, <3>2
      <4>2. j + 1 \in DOMAIN inbox /\ Terminates(inbox[j + 1]) /\ 0 < 1 /\ 1 < j + 1
        BY <1>1, <4>1, TakePositions
      <4> QED
        BY <1>1, <1>8, <3>2, <4>2 DEF LastAfter
    <3> QED
      BY <3>1, <3>2
  <2> QED
    BY <1>2, <1>8, <2>1 DEF Named, Collects
<1> QED
  BY <1>5, <1>6, <1>7, <1>8 DEF Named

\* What a later event undoes is still undone when the head is gone, and the
\* names of a sync to be finalized are still known.
LEMMA TakeKeeps ==
    ASSUME SyncInv, NEW e, Takes(e), Collects(e)
    PROVE  /\ DeletesUndone' /\ LastSyncNames'
           /\ \A c \in live, i \in DOMAIN inbox : DeleteOf(inbox[i], c) /\ settled =>
                \E j \in DOMAIN inbox' : j >= i /\ UpsertOf(inbox'[j], c)
<1> USE DEF SyncInv, SyncShape
<1>1. /\ \A i \in DOMAIN inbox' : i \in Nat \ {0} /\ i + 1 \in DOMAIN inbox /\ inbox'[i] = inbox[i + 1]
      /\ \A i \in DOMAIN inbox : i \in Nat \ {0} /\ (i = 1 \/ (i - 1 \in DOMAIN inbox' /\ inbox'[i - 1] = inbox[i]))
      /\ e = inbox[1] /\ 1 \in DOMAIN inbox /\ UNCHANGED <<live, replay, whole>>
  BY TakePositions DEF Takes
<1>2. DeletesUndone'
  <2> SUFFICES ASSUME whole', NEW c \in live', NEW i \in DOMAIN inbox', DeleteOf(inbox'[i], c), ~InReplay(c)'
               PROVE  \E j \in DOMAIN inbox' : j > i /\ (UpsertOf(inbox'[j], c) \/ ChunkOf(inbox'[j], c))
    BY DEF DeletesUndone
  <2>1. PICK j \in DOMAIN inbox : j > i + 1 /\ (UpsertOf(inbox[j], c) \/ ChunkOf(inbox[j], c))
    BY <1>1 DEF SyncSafe, DeletesUndone, InReplay
  <2>2. j - 1 \in DOMAIN inbox' /\ inbox'[j - 1] = inbox[j] /\ j - 1 > i
    BY <1>1, <2>1
  <2> QED
    BY <2>1, <2>2
<1>3. LastSyncNames'
  <2> SUFFICES ASSUME whole', Sending' \/ \E i \in DOMAIN inbox' : Terminates(inbox'[i]), NEW c \in live'
               PROVE  Named(c)'
    BY DEF LastSyncNames
  <2>1. Sending \/ \E i \in DOMAIN inbox : Terminates(inbox[i])
    BY <1>1 DEF Sending
  <2>2. Named(c)
    BY <1>1, <2>1 DEF SyncSafe, LastSyncNames
  <2> QED
    BY <2>2, TakeNames
<1>4. ASSUME NEW c \in live, NEW i \in DOMAIN inbox, DeleteOf(inbox[i], c), settled
      PROVE  \E j \in DOMAIN inbox' : j >= i /\ UpsertOf(inbox'[j], c)
  <2>1. PICK j \in DOMAIN inbox : j > i /\ UpsertOf(inbox[j], c)
    BY <1>4 DEF SyncSafe, DeletesUndoneByUpserts
  <2>2. j - 1 \in DOMAIN inbox' /\ inbox'[j - 1] = inbox[j] /\ j - 1 >= i
    BY <1>1, <2>1
  <2> QED
    BY <2>1, <2>2
<1> QED
  BY <1>2, <1>3, <1>4

\* An update, a chunk, a handshake or a response leaves nothing behind.
LEMMA ApplySafe ==
    ASSUME SyncInv, NEW e, Takes(e), Collects(e), Applies(e), ~Terminates(e), UNCHANGED settled
    PROVE  SyncSafe'
<1> USE DEF SyncInv, SyncShape
<1>1. /\ \A i \in DOMAIN inbox' : i \in Nat \ {0} /\ i + 1 \in DOMAIN inbox /\ inbox'[i] = inbox[i + 1]
      /\ \A i \in DOMAIN inbox : i \in Nat \ {0} /\ (i = 1 \/ (i - 1 \in DOMAIN inbox' /\ inbox'[i - 1] = inbox[i]))
      /\ e = inbox[1] /\ 1 \in DOMAIN inbox /\ UNCHANGED <<live, replay, whole>>
  BY TakePositions DEF Takes
<1>2. DeletesUndoneByUpserts'
  <2>1. ASSUME settled', NEW c \in live', NEW i \in DOMAIN inbox', DeleteOf(inbox'[i], c)
        PROVE  \E j \in DOMAIN inbox' : j > i /\ UpsertOf(inbox'[j], c)
    <3>1. i + 1 \in DOMAIN inbox /\ DeleteOf(inbox[i + 1], c) /\ c \in live
      BY <1>1, <2>1
    <3>2. PICK j \in DOMAIN inbox' : j >= i + 1 /\ UpsertOf(inbox'[j], c)
      BY <2>1, <3>1, TakeKeeps
    <3> QED
      BY <1>1, <3>2
  <2>2. settled' => whole'
    BY <1>1 DEF SyncSafe, DeletesUndoneByUpserts
  <2> QED
    BY <2>1, <2>2 DEF DeletesUndoneByUpserts
<1>3. KeptIsPresent'
  <2> SUFFICES ASSUME whole', sess'.syncKeep # NoSum, NEW c \in live' \cap sess'.syncKeep, c \notin caps',
                      ~InReplay(c)'
               PROVE  \E i \in DOMAIN inbox' : UpsertOf(inbox'[i], c) \/ ChunkOf(inbox'[i], c)
    BY DEF KeptIsPresent
  <2>1. ~UpsertOf(e, c) /\ ~ChunkOf(e, c) /\ ~InReplay(c)
    BY <1>1 DEF Applies, InReplay
  <2>2. sess.syncKeep # NoSum /\ c \in sess.syncKeep
    BY <2>1 DEF Collects
  <2>3. CASE c \in caps
    <3>1. DeleteOf(inbox[1], c)
      BY <1>1, <2>3 DEF Applies
    <3>2. PICK j \in DOMAIN inbox : j > 1 /\ (UpsertOf(inbox[j], c) \/ ChunkOf(inbox[j], c))
      BY <1>1, <2>1, <3>1 DEF SyncSafe, DeletesUndone
    <3> QED
      BY <1>1, <3>2
  <2>4. CASE c \notin caps
    <3>1. PICK j \in DOMAIN inbox : UpsertOf(inbox[j], c) \/ ChunkOf(inbox[j], c)
      BY <1>1, <2>1, <2>2, <2>4 DEF SyncSafe, KeptIsPresent
    <3> QED
      BY <1>1, <2>1, <3>1
  <2> QED
    BY <2>3, <2>4
<1>4. LiveNeverDropped'
  <2> SUFFICES ASSUME settled', NEW c \in live', c \notin caps'
               PROVE  \E i \in DOMAIN inbox' : UpsertOf(inbox'[i], c)
    BY Ways DEF LiveNeverDropped
  <2>1. ~UpsertOf(e, c)
    BY DEF Applies
  <2>2. CASE c \in caps
    <3>1. DeleteOf(inbox[1], c)
      BY <1>1, <2>2 DEF Applies
    <3> QED
      BY <1>1, <3>1, TakeKeeps
  <2>3. CASE c \notin caps
    <3>1. PICK j \in DOMAIN inbox : UpsertOf(inbox[j], c)
      BY <1>1, <2>3, Ways DEF SyncSafe, LiveNeverDropped
    <3> QED
      BY <1>1, <2>1, <3>1
  <2> QED
    BY <2>2, <2>3
<1> QED
  BY <1>2, <1>3, <1>4, TakeKeeps DEF SyncSafe

\* SoftDeleteMissing after the terminal chunk: what the last sync did not
\* collect and the agent has is in an update on its way.
LEMMA FinalizeSafe ==
    ASSUME SyncInv, NEW e, Takes(e), Collects(e), Terminates(e),
           caps' = caps \cap (IF sess.syncKeep = NoSum THEN {} ELSE sess.syncKeep),
           settled' = (whole /\ LastSync)
    PROVE  SyncSafe'
<1> USE DEF SyncInv, SyncShape
<1>1. /\ \A i \in DOMAIN inbox' : i \in Nat \ {0} /\ i + 1 \in DOMAIN inbox /\ inbox'[i] = inbox[i + 1]
      /\ \A i \in DOMAIN inbox : i \in Nat \ {0} /\ (i = 1 \/ (i - 1 \in DOMAIN inbox' /\ inbox'[i - 1] = inbox[i]))
      /\ e = inbox[1] /\ 1 \in DOMAIN inbox /\ UNCHANGED <<live, replay, whole>>
      /\ \A i \in DOMAIN inbox : i = 1 \/ i \in 2 .. Len(inbox)
  BY TakePositions DEF Takes
<1>2. KeptIsPresent'
  BY DEF Collects, KeptIsPresent
<1>3. ASSUME settled', NEW c
      PROVE  whole /\ ~InReplay(c) /\ \A i \in DOMAIN inbox : ~ChunkOf(inbox[i], c)
  <2>1. \A i \in 2 .. Len(inbox) : inbox[i].type \notin {"chunk", "terminal"}
    BY <1>3 DEF LastSync
  <2>2. \A i \in DOMAIN replay : ~Terminates(replay[i])
    BY <1>3 DEF LastSync, Terminates
  <2>3. ~InReplay(c)
    BY <2>2 DEF ReplayFramed, InReplay, ChunkOf, IsChunk
  <2> QED
    BY <1>1, <1>3, <2>1, <2>3 DEF ChunkOf, Terminates
<1>4. DeletesUndoneByUpserts'
  <2> SUFFICES ASSUME settled', NEW c \in live', NEW i \in DOMAIN inbox', DeleteOf(inbox'[i], c)
               PROVE  \E j \in DOMAIN inbox' : j > i /\ UpsertOf(inbox'[j], c)
    BY <1>1, <1>3 DEF DeletesUndoneByUpserts
  <2>1. PICK j \in DOMAIN inbox : j > i + 1 /\ UpsertOf(inbox[j], c)
    BY <1>1, <1>3 DEF SyncSafe, DeletesUndone
  <2>2. j - 1 \in DOMAIN inbox' /\ inbox'[j - 1] = inbox[j] /\ j - 1 > i
    BY <1>1, <2>1
  <2> QED
    BY <2>1, <2>2
<1>5. LiveNeverDropped'
  <2> SUFFICES ASSUME settled', NEW c \in live', c \notin caps'
               PROVE  \E i \in DOMAIN inbox' : UpsertOf(inbox'[i], c)
    BY Ways DEF LiveNeverDropped
  <2>1. Named(c)
    BY <1>1, <1>3 DEF SyncSafe, LastSyncNames
  <2>2. \E i \in DOMAIN inbox : UpsertOf(inbox[i], c)
    <3>1. CASE sess.syncKeep # NoSum /\ c \in sess.syncKeep
      <4>1. c \notin caps
        BY <3>1
      <4> QED
        BY <1>1, <1>3, <3>1, <4>1 DEF SyncSafe, KeptIsPresent
    <3>2. CASE ~(sess.syncKeep # NoSum /\ c \in sess.syncKeep)
      BY <1>3, <2>1, <3>2 DEF Named
    <3> QED
      BY <3>1, <3>2
  <2>3. \A i \in DOMAIN inbox : UpsertOf(inbox[i], c) => i # 1
    BY <1>1 DEF UpsertOf, Terminates
  <2> QED
    BY <1>1, <2>2, <2>3
<1> QED
  BY <1>2, <1>4, <1>5, TakeKeeps DEF SyncSafe

\* The fields of the events a handler reads.
LEMMA EventFields ==
    ASSUME NEW e \in Event
    PROVE  /\ e.gap \in BOOLEAN
           /\ e.type # "chunk" => e.sum \in Sum
           /\ e.type \in {"upsert", "delete"} => e.cap \in Cap
           /\ e.type = "chunk" => e.items \in SUBSET Cap
<1>1. CASE e \in [type : {"handshake"}, sum : Sum, gap : BOOLEAN]
  BY <1>1
<1>2. CASE e \in [type : {"upsert", "delete"}, cap : Cap, sum : Sum, gap : BOOLEAN]
  BY <1>2
<1>3. CASE e \in [type : {"chunk"}, items : SUBSET Cap, gap : BOOLEAN]
  BY <1>3
<1>4. CASE e \in [type : {"terminal", "response"}, sum : Sum, gap : BOOLEAN]
  BY <1>4
<1> QED
  BY <1>1, <1>2, <1>3, <1>4 DEF Event

\* A handler that keeps the session and the view well typed keeps the shape.
LEMMA TakeShape ==
    ASSUME SyncInv, NEW e, Takes(e), Collects(e), stream,
           sess' \in [sum : Sum, resyncSent : BOOLEAN, syncKeep : Sum],
           caps' \subseteq Cap, checksum' \in Sum, asked' \in BOOLEAN, settled' \in BOOLEAN,
           UNCHANGED <<agentSum, gapNext, stream, changes, drops, streams>>
    PROVE  SyncShape'
<1> USE DEF SyncInv, SyncShape
<1>1. inbox' \in Seq(Event) /\ UNCHANGED <<live, replay, whole>>
  BY TakePositions DEF Takes
<1>2. SyncTypeOK'
  BY <1>1 DEF SyncTypeOK
<1>3. Quiet'
  BY DEF Quiet
<1> QED
  BY <1>2, <1>3, TakeFramed

\* What Receive means for the events.
LEMMA Received ==
    ASSUME SyncTypeOK, NEW type, Receive(type), UNCHANGED <<live, replay, whole>>
    PROVE  /\ Takes(inbox[1]) /\ Head(inbox) = inbox[1] /\ inbox[1].type = type /\ inbox[1] \in Event
           /\ stream
<1>1. inbox # <<>> /\ stream /\ inbox' = Tail(inbox) /\ Head(inbox).type = type
  BY DEF Receive
<1>2. Head(inbox) = inbox[1] /\ inbox[1] \in Event
  BY <1>1, Taking DEF SyncTypeOK
<1> QED
  BY <1>1, <1>2 DEF Takes

\* The session after the sequence check, and after an update of its keep set.
LEMMA SessionTypes ==
    ASSUME SyncTypeOK, NEW e \in Event
    PROVE  /\ AfterGap(e) \in [sum : Sum, resyncSent : BOOLEAN, syncKeep : Sum]
           /\ AfterGap(e).syncKeep = sess.syncKeep /\ AfterGap(e).sum = sess.sum
           /\ (asked \/ GapSeen(e)) \in BOOLEAN
           /\ sess.syncKeep \in Sum /\ sess.sum \in Sum
           /\ sess.syncKeep # NoSum => sess.syncKeep \in SUBSET Cap
           /\ \A k \in SUBSET Cap : k # NoSum /\ k \in Sum
  <1>1. e.gap \in BOOLEAN
    BY EventFields
  <1>2. sess \in [sum : Sum, resyncSent : BOOLEAN, syncKeep : Sum]
    BY DEF SyncTypeOK
  <1>3. sess.resyncSent \/ e.gap \in BOOLEAN
    BY <1>1, <1>2
  <1>4. /\ AfterGap(e) \in [sum : Sum, resyncSent : BOOLEAN, syncKeep : Sum]
        /\ AfterGap(e).syncKeep = sess.syncKeep /\ AfterGap(e).sum = sess.sum
    BY <1>2, <1>3 DEF AfterGap
  <1>5. \A k \in SUBSET Cap : k # NoSum /\ k \in Sum
    BY SyncAssumption DEF Sum
  <1>6. sess.syncKeep \in Sum /\ sess.sum \in Sum /\ (sess.syncKeep # NoSum => sess.syncKeep \in SUBSET Cap)
    BY <1>2 DEF Sum
  <1>7. (asked \/ GapSeen(e)) \in BOOLEAN
    BY <1>1 DEF GapSeen, SyncTypeOK
  <1> QED
    BY <1>4, <1>5, <1>6, <1>7

\* The handshake and the resync response touch no capability.
LEMMA HandshakeStep ==
    ASSUME SyncInv, HandleHandshake \/ HandleResponse
    PROVE  SyncInv'
<1> USE DEF SyncInv, SyncShape
<1> DEFINE e == inbox[1]
<1>1. /\ Takes(e) /\ Head(inbox) = e /\ e.type \in {"handshake", "response"} /\ e \in Event /\ stream
      /\ UNCHANGED <<agentSum, gapNext, stream, changes, drops, streams, caps, settled>>
  <2>1. CASE HandleHandshake
    BY <2>1, Received DEF HandleHandshake, viewVars, boundVars
  <2>2. CASE HandleResponse
    BY <2>2, Received DEF HandleResponse, boundVars
  <2> QED
    BY <2>1, <2>2
<1> HIDE DEF e
<1>2. e.sum \in Sum /\ sess.sum \in Sum
  BY <1>1, EventFields, SessionTypes
<1>3. /\ sess' \in [sum : Sum, resyncSent : BOOLEAN, syncKeep : Sum] /\ sess'.syncKeep = sess.syncKeep
      /\ checksum' \in Sum /\ asked' \in BOOLEAN
  <2>1. CASE HandleHandshake
    <3>1. sess' = [sess EXCEPT !.resyncSent = (e.sum # NoSum /\ sess.sum # NoSum /\ e.sum # sess.sum)]
      BY <1>1, <2>1 DEF HandleHandshake
    <3>2. checksum' = checksum /\ asked' = (asked \/ (e.sum # NoSum /\ sess.sum # NoSum /\ e.sum # sess.sum))
      BY <1>1, <2>1 DEF HandleHandshake, viewVars
    <3> QED
      BY <3>1, <3>2 DEF SyncTypeOK
  <2>2. CASE HandleResponse
    <3>1. sess' = [sess EXCEPT !.sum = e.sum, !.resyncSent = FALSE] /\ checksum' = e.sum
      BY <1>1, <2>2 DEF HandleResponse
    <3>2. asked' = (asked \/ GapSeen(e))
      BY <1>1, <2>2 DEF HandleResponse
    <3>3. asked' \in BOOLEAN
      BY <1>1, <3>2, SessionTypes
    <3> QED
      BY <1>2, <3>1, <3>3 DEF SyncTypeOK
  <2> QED
    BY <2>1, <2>2
<1>4. ~Terminates(e) /\ Collects(e) /\ Applies(e)
  BY <1>1, <1>3 DEF Terminates, Collects, Applies, IsChunk, ChunkOf, UpsertOf
<1>5. SyncSafe'
  BY <1>1, <1>4, ApplySafe
<1>6. caps' \subseteq Cap /\ settled' \in BOOLEAN
  BY <1>1 DEF SyncTypeOK
<1>7. SyncShape'
  BY <1>1, <1>3, <1>4, <1>6, TakeShape
<1> QED
  BY <1>5, <1>7

\* An update is applied, and joins the names of a sync in flight.
LEMMA IncrementalStep ==
    ASSUME SyncInv, HandleIncremental
    PROVE  SyncInv'
<1> USE DEF SyncInv, SyncShape
<1> DEFINE e == inbox[1]
<1>1. /\ Takes(e) /\ Head(inbox) = e /\ e.type \in {"upsert", "delete"} /\ e \in Event /\ stream
      /\ UNCHANGED <<agentSum, gapNext, stream, changes, drops, streams, settled>>
  BY Received DEF HandleIncremental, boundVars
<1> HIDE DEF e
<1>2. /\ caps' = (IF e.type = "upsert" THEN caps \cup {e.cap} ELSE caps \ {e.cap})
      /\ checksum' = (IF sess.syncKeep = NoSum THEN e.sum ELSE checksum)
      /\ asked' = (asked \/ GapSeen(e))
      /\ sess' = (IF sess.syncKeep = NoSum THEN [AfterGap(e) EXCEPT !.sum = e.sum]
                  ELSE [AfterGap(e) EXCEPT !.syncKeep = unionKeep(sess.syncKeep, e)])
  BY <1>1 DEF HandleIncremental, Ingest, applyItems, Upsert, SoftDelete
<1>3. e.sum \in Sum /\ e.cap \in Cap
  BY <1>1, EventFields
<1>4. /\ AfterGap(e) \in [sum : Sum, resyncSent : BOOLEAN, syncKeep : Sum]
      /\ AfterGap(e).syncKeep = sess.syncKeep
      /\ (asked \/ GapSeen(e)) \in BOOLEAN
      /\ sess.syncKeep \in Sum
      /\ sess.syncKeep # NoSum => sess.syncKeep \in SUBSET Cap
      /\ \A k \in SUBSET Cap : k # NoSum /\ k \in Sum
  BY <1>1, SessionTypes
<1>5. /\ sess' \in [sum : Sum, resyncSent : BOOLEAN, syncKeep : Sum]
      /\ sess.syncKeep = NoSum => sess'.syncKeep = NoSum
      /\ sess.syncKeep # NoSum => sess'.syncKeep # NoSum /\ sess'.syncKeep = unionKeep(sess.syncKeep, e)
  <2>1. CASE sess.syncKeep = NoSum
    BY <1>2, <1>3, <1>4, <2>1
  <2>2. CASE sess.syncKeep # NoSum
    <3>1. unionKeep(sess.syncKeep, e) \in SUBSET Cap
      BY <1>3, <1>4, <2>2 DEF unionKeep
    <3>2. unionKeep(sess.syncKeep, e) \in Sum /\ unionKeep(sess.syncKeep, e) # NoSum
      BY <1>4, <3>1
    <3> QED
      BY <1>2, <1>4, <2>2, <3>2
  <2> QED
    BY <2>1, <2>2
<1>6. ~Terminates(e) /\ ~IsChunk(e) /\ \A c : ~ChunkOf(e, c)
  BY <1>1 DEF Terminates, IsChunk, ChunkOf
<1>7. Collects(e)
  BY <1>1, <1>5, <1>6 DEF Collects, unionKeep, UpsertOf
<1>8. Applies(e)
  BY <1>1, <1>2, <1>6 DEF Applies, UpsertOf, DeleteOf
<1>9. SyncSafe'
  BY <1>1, <1>6, <1>7, <1>8, ApplySafe
<1>10. caps' \subseteq Cap /\ settled' \in BOOLEAN /\ checksum' \in Sum /\ asked' \in BOOLEAN
  BY <1>1, <1>2, <1>3, <1>4 DEF SyncTypeOK
<1>11. SyncShape'
  BY <1>1, <1>5, <1>7, <1>10, TakeShape
<1> QED
  BY <1>9, <1>11

\* A chunk is applied, and its names are collected.
LEMMA ChunkStep ==
    ASSUME SyncInv, HandleChunk
    PROVE  SyncInv'
<1> USE DEF SyncInv, SyncShape
<1> DEFINE e == inbox[1]
           keep == IF sess.syncKeep = NoSum THEN {} ELSE sess.syncKeep
<1>1. /\ Takes(e) /\ Head(inbox) = e /\ e.type = "chunk" /\ e \in Event /\ stream
      /\ UNCHANGED <<agentSum, gapNext, stream, changes, drops, streams, settled>>
  BY Received DEF HandleChunk, boundVars
<1> HIDE DEF e
<1>2. /\ caps' = caps \cup e.items /\ checksum' = checksum
      /\ asked' = (asked \/ GapSeen(e))
      /\ sess' = [AfterGap(e) EXCEPT !.syncKeep = keep \cup e.items]
  BY <1>1 DEF HandleChunk, IngestChunk
<1>3. e.items \in SUBSET Cap
  BY <1>1, EventFields
<1>4. /\ AfterGap(e) \in [sum : Sum, resyncSent : BOOLEAN, syncKeep : Sum]
      /\ (asked \/ GapSeen(e)) \in BOOLEAN
      /\ sess.syncKeep # NoSum => sess.syncKeep \in SUBSET Cap
      /\ \A k \in SUBSET Cap : k # NoSum /\ k \in Sum
  BY <1>1, SessionTypes
<1>5. keep \cup e.items \in SUBSET Cap
  BY <1>3, <1>4
<1>6. keep \cup e.items \in Sum /\ keep \cup e.items # NoSum
  BY <1>4, <1>5
<1>7. /\ sess' \in [sum : Sum, resyncSent : BOOLEAN, syncKeep : Sum]
      /\ sess'.syncKeep = keep \cup e.items /\ sess'.syncKeep # NoSum
  <2> HIDE DEF keep
  <2> QED
    BY <1>2, <1>4, <1>6
<1>8. ~Terminates(e) /\ Collects(e) /\ Applies(e)
  BY <1>1, <1>2, <1>7 DEF Terminates, Collects, Applies, IsChunk, ChunkOf, UpsertOf
<1>9. SyncSafe'
  BY <1>1, <1>8, ApplySafe
<1>10. caps' \subseteq Cap /\ settled' \in BOOLEAN /\ checksum' \in Sum /\ asked' \in BOOLEAN
  BY <1>1, <1>2, <1>3, <1>4 DEF SyncTypeOK
<1>11. SyncShape'
  BY <1>1, <1>7, <1>8, <1>10, TakeShape
<1> QED
  BY <1>9, <1>11

\* The terminal chunk finalizes the sync.
LEMMA TerminalStep ==
    ASSUME SyncInv, HandleTerminal
    PROVE  SyncInv'
<1> USE DEF SyncInv, SyncShape
<1> DEFINE e == inbox[1]
<1>1. /\ Takes(e) /\ Head(inbox) = e /\ e.type = "terminal" /\ e \in Event /\ stream
      /\ UNCHANGED <<agentSum, gapNext, stream, changes, drops, streams>>
  BY Received DEF HandleTerminal, boundVars
<1> HIDE DEF e
<1>2. /\ caps' = caps \cap (IF sess.syncKeep = NoSum THEN {} ELSE sess.syncKeep)
      /\ checksum' = e.sum
      /\ asked' = (asked \/ GapSeen(e))
      /\ sess' = [AfterGap(e) EXCEPT !.syncKeep = NoSum, !.sum = e.sum]
      /\ settled' = (whole /\ LastSync)
  BY <1>1 DEF HandleTerminal, FinalizeSync, SoftDeleteMissing
<1>3. e.sum \in Sum /\ NoSum \in Sum
  BY <1>1, EventFields DEF Sum
<1>4. /\ AfterGap(e) \in [sum : Sum, resyncSent : BOOLEAN, syncKeep : Sum]
      /\ (asked \/ GapSeen(e)) \in BOOLEAN
  BY <1>1, SessionTypes
<1>5. sess' \in [sum : Sum, resyncSent : BOOLEAN, syncKeep : Sum] /\ sess'.syncKeep = NoSum
  BY <1>2, <1>3, <1>4
<1>6. Terminates(e) /\ Collects(e)
  BY <1>1, <1>5 DEF Terminates, Collects, IsChunk
<1>7. SyncSafe'
  BY <1>1, <1>2, <1>6, FinalizeSafe
<1>8. LastSync \in BOOLEAN
  BY DEF LastSync
<1>9. caps' \subseteq Cap /\ settled' \in BOOLEAN /\ checksum' \in Sum /\ asked' \in BOOLEAN
  BY <1>2, <1>3, <1>4, <1>8 DEF SyncTypeOK
<1>10. SyncShape'
  BY <1>1, <1>5, <1>6, <1>9, TakeShape
<1> QED
  BY <1>7, <1>10

\* Before the first stream nothing is under way.
LEMMA SyncInitInv == SyncInit => SyncInv
<1> SUFFICES ASSUME SyncInit PROVE SyncInv
  OBVIOUS
<1>1. DOMAIN inbox = {} /\ DOMAIN replay = {} /\ inbox \in Seq(Event) /\ replay \in Seq(Event)
  BY DEF SyncInit
<1>2. sess \in [sum : Sum, resyncSent : BOOLEAN, syncKeep : Sum] /\ sess.syncKeep = NoSum /\ NoSum \in Sum
  BY DEF SyncInit, newSession, Sum
<1>3. SyncTypeOK /\ Quiet
  <2>1. changes \in 0 .. MaxChanges /\ drops \in 0 .. MaxDrops /\ streams \in 0 .. MaxStreams
    BY SyncAssumption DEF SyncInit
  <2>2. live \subseteq Cap /\ caps \subseteq Cap /\ agentSum \in Sum /\ checksum \in Sum
    BY <1>2 DEF SyncInit
  <2>3. SyncTypeOK
    BY <1>1, <1>2, <2>1, <2>2 DEF SyncInit, SyncTypeOK
  <2> QED
    BY <1>1, <1>2, <2>3 DEF SyncInit, Quiet
<1>4. ReplayFramed
  BY <1>1 DEF ReplayFramed, Sending
<1>5. SyncSafe
  BY <1>1, <1>2 DEF SyncInit, SyncSafe, DeletesUndone, DeletesUndoneByUpserts, LastSyncNames,
     KeptIsPresent, LiveNeverDropped, Sending
<1> QED
  BY <1>3, <1>4, <1>5 DEF SyncInv, SyncShape

\* Every step of the agent and the session keeps the invariant.
LEMMA SyncNextInv == SyncInv /\ [SyncNext]_syncVars => SyncInv'
<1> SUFFICES ASSUME SyncInv, [SyncNext]_syncVars PROVE SyncInv'
  OBVIOUS
<1>1. CASE UNCHANGED syncVars
  <2>1. UNCHANGED <<live, agentSum, replay, asked, gapNext, caps, checksum, stream, inbox, sess, settled,
                    whole, changes, drops, streams>>
    BY <1>1 DEF syncVars, agentVars, viewVars, boundVars
  <2>2. SyncShape'
    BY <2>1 DEF SyncInv, SyncShape, SyncTypeOK, Quiet, ReplayFramed, Sending, InFlight
  <2>3. SyncSafe'
    BY <2>1 DEF SyncInv, SyncSafe, DeletesUndone, DeletesUndoneByUpserts, LastSyncNames, KeptIsPresent,
       LiveNeverDropped, OnTheWay, Named, LastAfter, NoneAfter, InFlight, InReplay, Sending
  <2> QED
    BY <2>2, <2>3 DEF SyncInv
<1>2. CASE SyncNext
  BY <1>2, StreamStep, SnapshotStep, SendReplayStep, ChangeStep, HandshakeStep, IncrementalStep,
     ChunkStep, TerminalStep DEF SyncNext
<1> QED
  BY <1>1, <1>2

\* What holds of a cluster's capabilities, its session and its stream in every
\* state, however streams end and whatever is lost or interleaved.
THEOREM SyncInvariant == SyncSpec => []SyncInv
<1>1. SyncInit => SyncInv
  BY SyncInitInv
<1>2. SyncInv /\ [SyncNext]_syncVars => SyncInv'
  BY SyncNextInv
<1> QED
  BY <1>1, <1>2, PTL DEF SyncSpec

\* The view, the session and the events are well typed.
THEOREM SyncTypeCorrect == SyncSpec => []SyncTypeOK
<1>1. SyncInv => SyncTypeOK
  BY DEF SyncInv, SyncShape
<1> QED
  BY <1>1, SyncInvariant, PTL

\* session.handleEvent and Service.FinalizeSync: a finalized sync never drops a
\* capability the agent has, with any number of capabilities, changes, syncs and
\* streams.
THEOREM SyncNeverDropsLive == SyncSpec => []LiveNeverDropped
<1>1. SyncInv => LiveNeverDropped
  BY DEF SyncInv, SyncSafe
<1> QED
  BY <1>1, SyncInvariant, PTL

-----------------------------------------------------------------------------
(* AgentCommands *)

\* A credential is unspent until its only redemption, and exists only for an
\* invocation that was made.
SpentOnce ==
    \A c \in Cmd :
        /\ waiter[c] = "none" => vault[c] = "none" /\ redeemed[c] = 0
        /\ vault[c] = "minted" => redeemed[c] = 0
        /\ redeemed[c] <= 1

\* An acknowledgement follows the application, on its way to the server, in the
\* queue's row and in what the waiting request was told.
AckedWasDone ==
    /\ \A c \in Cmd : <<c, "acked">> \in answers => c \in done
    /\ \A c \in Invoke : cmd[c] = "acked" => c \in done
    /\ \A c \in Cmd : waiter[c] = "applied" => c \in done

CommandsInv == CommandsTypeOK /\ SpentOnce /\ AckedWasDone

\* The queue starts empty, with no credential and no answer.
LEMMA CommandsInitInv == CommandsInit => CommandsInv
BY CommandsAssumption DEF CommandsInit, CommandsInv, CommandsTypeOK, SpentOnce, AckedWasDone,
   Terminal, InstanceState, Invoke, Kind

\* Writers of the queue: Queue.Enqueue for a registration, and invokeExtension,
\* which mints at most one credential for a request that had none.
LEMMA EnqueueStep ==
    ASSUME CommandsInv, NEW c \in Cmd, EnqueueCommand(c) \/ (c \in Invoke /\ invokeExtension(c))
    PROVE  CommandsInv'
<1> USE CommandsAssumption DEF Enqueue, MintWithRefTx, sessionVars, agentSideVars, vaultVars, instanceVars
<1>1. CommandsTypeOK'
  BY DEF CommandsInv, CommandsTypeOK, EnqueueCommand, invokeExtension, Terminal
<1>2. SpentOnce'
  BY DEF CommandsInv, CommandsTypeOK, SpentOnce, EnqueueCommand, invokeExtension
<1>3. AckedWasDone'
  BY DEF CommandsInv, CommandsTypeOK, AckedWasDone, EnqueueCommand, invokeExtension, Invoke
<1> QED
  BY <1>1, <1>2, <1>3 DEF CommandsInv

\* awaitAck reads the row's terminal status.
LEMMA AwaitStep ==
    ASSUME CommandsInv, NEW c \in Invoke, awaitAck(c)
    PROVE  CommandsInv'
<1> USE CommandsAssumption DEF queueVars, sessionVars, agentSideVars, vaultVars, instanceVars
<1>1. CommandsTypeOK'
  BY DEF CommandsInv, CommandsTypeOK, awaitAck
<1>2. SpentOnce'
  BY DEF CommandsInv, CommandsTypeOK, SpentOnce, awaitAck
<1>3. AckedWasDone'
  BY DEF CommandsInv, CommandsTypeOK, AckedWasDone, awaitAck, Invoke
<1> QED
  BY <1>1, <1>2, <1>3 DEF CommandsInv

\* dispatchDue and the end of a session: no answer and no
\* credential is added.
LEMMA DeliveryStep ==
    ASSUME CommandsInv, NEW s \in Session, Dispatch(s) \/ EndSession(s)
    PROVE  CommandsInv'
<1> USE CommandsAssumption DEF queueVars, sessionVars, agentSideVars, vaultVars, instanceVars
<1>1. CASE DispatchRead(s)
  BY <1>1 DEF CommandsInv, CommandsTypeOK, SpentOnce, AckedWasDone, DispatchRead, Due, Oldest, Invoke
<1>2. CASE DispatchSend(s)
  BY <1>2 DEF CommandsInv, CommandsTypeOK, SpentOnce, AckedWasDone, DispatchSend, Invoke
<1>5. CASE DispatchSkip(s)
  BY <1>5 DEF CommandsInv, CommandsTypeOK, SpentOnce, AckedWasDone, DispatchSkip, Invoke
<1>3. CASE MarkDelivered(s)
  <2>1. CommandsTypeOK' /\ SpentOnce'
    BY <1>3 DEF CommandsInv, CommandsTypeOK, SpentOnce, MarkDelivered
  <2>2. AckedWasDone'
    BY <1>3 DEF CommandsInv, CommandsTypeOK, AckedWasDone, MarkDelivered, Invoke
  <2> QED
    BY <2>1, <2>2 DEF CommandsInv
<1>4. CASE EndSession(s)
  <2>1. CommandsTypeOK'
    BY <1>4 DEF CommandsInv, CommandsTypeOK, EndSession
  <2>2. SpentOnce' /\ AckedWasDone'
    BY <1>4 DEF CommandsInv, SpentOnce, AckedWasDone, EndSession, Invoke
  <2> QED
    BY <2>1, <2>2 DEF CommandsInv
<1> QED
  BY <1>1, <1>2, <1>3, <1>4, <1>5 DEF Dispatch

\* CredentialVault.Redeem, its expiry and Sweep: the row goes with the token.
LEMMA VaultStep ==
    ASSUME CommandsInv, NEW c \in Cmd, Redeem(c) \/ ExpireCredential(c) \/ Sweep
    PROVE  CommandsInv'
<1> USE CommandsAssumption DEF queueVars, sessionVars, agentSideVars, vaultVars, instanceVars
<1>1. CommandsTypeOK'
  BY DEF CommandsInv, CommandsTypeOK, Redeem, ExpireCredential, Sweep
<1>2. SpentOnce'
  BY DEF CommandsInv, CommandsTypeOK, SpentOnce, Redeem, ExpireCredential, Sweep
<1>3. AckedWasDone'
  BY DEF CommandsInv, AckedWasDone, Redeem, ExpireCredential, Sweep, Invoke
<1> QED
  BY <1>1, <1>2, <1>3 DEF CommandsInv

\* The agent answers what it has applied, or failed to.
LEMMA AnswerStep ==
    ASSUME CommandsInv, NEW c \in Cmd, AgentAnswers(c)
    PROVE  CommandsInv'
<1> USE CommandsAssumption DEF queueVars, sessionVars, vaultVars, instanceVars
<1>1. CommandsTypeOK'
  BY DEF CommandsInv, CommandsTypeOK, AgentAnswers, Terminal
<1>2. SpentOnce'
  BY DEF CommandsInv, SpentOnce, AgentAnswers
<1>3. AckedWasDone'
  BY DEF CommandsInv, AckedWasDone, AgentAnswers, Invoke
<1> QED
  BY <1>1, <1>2, <1>3 DEF CommandsInv

\* handleEvent records an answer; a resync response closes resync requests only.
LEMMA HandleStep ==
    ASSUME CommandsInv, NEW c \in Cmd, NEW status \in Terminal,
           HandleAck(c, status) \/ CompletePendingByType(c, status)
    PROVE  CommandsInv'
<1> USE CommandsAssumption DEF sessionVars, vaultVars, instanceVars
<1>1. CASE HandleAck(c, status)
  <2>1. /\ UNCHANGED <<kind, older, overdue, waiter, vault, redeemed, done, batch, sent, wire, holds, instance, losses>>
        /\ answers' = answers \ {<<c, status>>} /\ <<c, status>> \in answers
    BY <1>1 DEF HandleAck, CompleteResolved, Complete, queueVars
  <2>2. cmd' = cmd \/ \E d \in Cmd : cmd' = [cmd EXCEPT ![d] = status] /\ (d = c \/ d \in Register)
    BY <1>1 DEF HandleAck, CompleteResolved, Complete, queueVars, Register
  <2>3. failing' \subseteq Cmd
    BY <1>1 DEF HandleAck, CompleteResolved, CommandsInv, CommandsTypeOK, Register
  <2>4. CommandsTypeOK'
    BY <2>1, <2>2, <2>3 DEF CommandsInv, CommandsTypeOK, Terminal
  <2>5. SpentOnce'
    BY <2>1 DEF CommandsInv, SpentOnce
  <2>6. AckedWasDone'
    BY <2>1, <2>2 DEF CommandsInv, CommandsTypeOK, AckedWasDone, Invoke, Register
  <2> QED
    BY <2>4, <2>5, <2>6 DEF CommandsInv
<1>2. CASE CompletePendingByType(c, status)
  <2>1. CommandsTypeOK'
    BY <1>2 DEF CommandsInv, CommandsTypeOK, CompletePendingByType, Terminal
  <2>2. SpentOnce'
    BY <1>2 DEF CommandsInv, SpentOnce, CompletePendingByType
  <2>3. AckedWasDone'
    BY <1>2 DEF CommandsInv, CommandsTypeOK, AckedWasDone, CompletePendingByType, Invoke, Resync
  <2> QED
    BY <2>1, <2>2, <2>3 DEF CommandsInv
<1> QED
  BY <1>1, <1>2

\* A status report changes the instance only, to a state deriveState knows, and a
\* failed registration at most to failed.
LEMMA StatusStep ==
    ASSUME CommandsInv, NEW c \in Cmd, ApplyStatus(c) \/ FailInstance(c)
    PROVE  CommandsInv'
<1> USE CommandsAssumption DEF queueVars, sessionVars, agentSideVars, vaultVars, instanceVars
<1>1. CASE ApplyStatus(c)
  <2>1. PICK st \in InstanceState : instance' = [instance EXCEPT ![c] = st]
    BY <1>1 DEF ApplyStatus, applyAppStatus, appInstanceState, deriveState, mapStatusUpdate, InstanceState
  <2>2. CommandsTypeOK'
    BY <1>1, <2>1 DEF CommandsInv, CommandsTypeOK, ApplyStatus
  <2>3. SpentOnce' /\ AckedWasDone'
    BY <1>1 DEF CommandsInv, SpentOnce, AckedWasDone, ApplyStatus, Invoke
  <2> QED
    BY <2>2, <2>3 DEF CommandsInv
<1>2. CASE FailInstance(c)
  <2>1. CommandsTypeOK'
    BY <1>2 DEF CommandsInv, CommandsTypeOK, FailInstance, MarkFailed, InstanceState
  <2>2. SpentOnce' /\ AckedWasDone'
    BY <1>2 DEF CommandsInv, SpentOnce, AckedWasDone, FailInstance, Invoke
  <2> QED
    BY <2>1, <2>2 DEF CommandsInv
<1> QED
  BY <1>1, <1>2

\* Every step of the queue keeps the invariant.
LEMMA CommandsNextInv == CommandsInv /\ [CommandsNext]_commandVars => CommandsInv'
<1> SUFFICES ASSUME CommandsInv, [CommandsNext]_commandVars PROVE CommandsInv'
  OBVIOUS
<1>1. CASE \E c \in Cmd : EnqueueCommand(c) \/ RetryAfter(c) \/ AgentAnswers(c)
  <2>1. PICK c \in Cmd : EnqueueCommand(c) \/ RetryAfter(c) \/ AgentAnswers(c)
    BY <1>1
  <2>2. CASE RetryAfter(c)
    BY <2>2 DEF CommandsInv, CommandsTypeOK, SpentOnce, AckedWasDone, RetryAfter, Invoke,
       sessionVars, agentSideVars, vaultVars, instanceVars
  <2> QED
    BY <2>1, <2>2, EnqueueStep, AnswerStep
<1>2. CASE \E c \in Invoke : invokeExtension(c) \/ awaitAck(c) \/ Redeem(c) \/ ExpireCredential(c)
  BY <1>2, EnqueueStep, AwaitStep, VaultStep DEF Invoke
<1>3. CASE Sweep
  <2>1. PICK c \in Cmd : TRUE
    BY <1>3 DEF Sweep, Invoke
  <2> QED
    BY <1>3, <2>1, VaultStep
<1>4. CASE \E s \in Session : Dispatch(s) \/ EndSession(s)
  <2>1. PICK s \in Session : Dispatch(s) \/ EndSession(s)
    BY <1>4
  <2> QED
    BY <2>1, DeliveryStep
<1>5. CASE \E c \in Cmd, status \in Terminal : HandleAck(c, status) \/ CompletePendingByType(c, status)
  BY <1>5, HandleStep
<1>6. CASE \E c \in Register : ApplyStatus(c)
  BY <1>6, StatusStep DEF Register
<1>8. CASE \E c \in Cmd : FailInstance(c)
  BY <1>8, StatusStep
<1>7. CASE UNCHANGED commandVars
  BY <1>7 DEF commandVars, queueVars, sessionVars, agentSideVars, vaultVars, instanceVars, CommandsInv,
     CommandsTypeOK, SpentOnce, AckedWasDone, Invoke
<1> QED
  BY <1>1, <1>2, <1>3, <1>4, <1>5, <1>6, <1>7, <1>8 DEF CommandsNext

\* What holds of the queue, the vault and the waiting requests in every state.
THEOREM CommandsInvariant == CommandsSpec => []CommandsInv
<1>1. CommandsInit => CommandsInv
  BY CommandsInitInv
<1>2. CommandsInv /\ [CommandsNext]_commandVars => CommandsInv'
  BY CommandsNextInv
<1> QED
  BY <1>1, <1>2, PTL DEF CommandsSpec

\* The queue, the vault and the sessions are well typed.
THEOREM CommandsTypeCorrect == CommandsSpec => []CommandsTypeOK
<1>1. CommandsInv => CommandsTypeOK
  BY DEF CommandsInv
<1> QED
  BY <1>1, CommandsInvariant, PTL

\* Queue.Complete, awaitAck and CredentialVault.Redeem: whatever is redelivered,
\* lost or answered twice, a credential is handed out at most once, and an
\* extension is told that its action was applied only if it was.
THEOREM CommandsAreSound == CommandsSpec => []CommandsSound
<1>1. CommandsInv => CommandsSound
  BY DEF CommandsInv, CommandsTypeOK, SpentOnce, AckedWasDone, CommandsSound, CredentialSingleUse,
     AppliedMeansDone, Invoke
<1> QED
  BY <1>1, CommandsInvariant, PTL

\* Queue.MarkDelivered and Queue.Enqueue leave an answered row alone, so an
\* answer is final.
THEOREM AnswersAreFinal == CommandsSpec => AnsweredStaysAnswered
<1> DEFINE Final == \A c \in Cmd : cmd[c] \in Terminal => cmd'[c] \in Terminal
<1>1. CommandsTypeOK /\ [CommandsNext]_commandVars => Final
  <2> SUFFICES ASSUME CommandsTypeOK, [CommandsNext]_commandVars, NEW c \in Cmd, cmd[c] \in Terminal
               PROVE  cmd'[c] \in Terminal
    OBVIOUS
  <2>1. CASE UNCHANGED cmd
    BY <2>1
  <2>2. CASE \E d \in Cmd : Enqueue(d)
    BY <2>2 DEF Enqueue, CommandsTypeOK, Terminal
  <2>3. CASE \E s \in Session : MarkDelivered(s)
    BY <2>3 DEF MarkDelivered, CommandsTypeOK, Terminal, queueVars
  <2>4. CASE \E d \in Cmd, status \in Terminal : HandleAck(d, status)
    BY <2>4 DEF HandleAck, CompleteResolved, Complete, CommandsTypeOK, Register, queueVars
  <2>5. CASE \E d \in Cmd, status \in Terminal : CompletePendingByType(d, status)
    BY <2>5 DEF CompletePendingByType, CommandsTypeOK, Terminal
  <2> QED
    BY <2>1, <2>2, <2>3, <2>4, <2>5 DEF CommandsNext, EnqueueCommand, RetryAfter, AgentAnswers,
       invokeExtension, awaitAck, Redeem, ExpireCredential, Sweep, Dispatch, DispatchRead,
       DispatchSkip, DispatchSend, EndSession, ApplyStatus, FailInstance, commandVars, queueVars, Invoke
<1>2. CommandsTypeOK /\ [CommandsNext]_commandVars => [Final]_commandVars
  BY <1>1
<1> QED
  BY <1>2, CommandsTypeCorrect, PTL DEF CommandsSpec, AnsweredStaysAnswered

-----------------------------------------------------------------------------
(* KubeProxy: the inductive invariant *)

Phase == {"none", "session", "alloc", "open", "await", "stream", "finish", "remove", "done"}
RequestRecord == [pc : Phase, sess : Tunnel \cup {NoTunnel}, wrote : Nat,
                  end : {"none", "refused", "failed", "cut", "served", "closed"}]
Reason == {"none", "evicted by reconnect", "tunnel_closed", "disabled", "client_write_failed", "max_lifetime",
           "agent", "byte_cap_exceeded", "backpressure"}
ConnRecord == [in : BOOLEAN, reason : Reason, fromAgent : Seq(Msg), kept : Nat]
RemoteRecord == [pc : {"none", "dial", "body", "done"}, sent : 0 .. MaxTunnelFrames, told : BOOLEAN]

\* Where a request is, whether it has a session, a connection and an agent that
\* knows of it.
RequestPlaced(r, c, m) ==
    /\ r \in RequestRecord /\ c \in ConnRecord /\ m \in RemoteRecord /\ Len(c.fromAgent) <= ConnChanBounds
    /\ r.pc \in {"alloc", "open", "await", "stream", "finish", "remove"} => r.sess \in Tunnel
    /\ r.pc \in {"open", "await", "stream", "finish"} => c.in
    /\ r.pc \in {"none", "session", "alloc", "open", "done"} => m.pc = "none" /\ m.sent = 0 /\ r.wrote = 0
    /\ r.pc = "open" => c.fromAgent = <<>> /\ c.kept = 0
    /\ r.end # "none" => r.pc \in {"finish", "remove"}

\* The frames of its response: the result comes first, each frame that was kept
\* is written or waits, and the agent's close is the last thing it sends.
FramesCounted(r, c, m) ==
    /\ c.kept <= m.sent /\ r.wrote <= c.kept
    /\ r.pc = "await" /\ c.fromAgent = <<>> => c.kept = 0 /\ m.pc # "body"
    /\ r.pc = "await" /\ c.fromAgent # <<>> =>
          Head(c.fromAgent) \in {"result", "error"} /\ m.pc \in {"body", "done"} /\ FramesIn(c.fromAgent) = c.kept
    /\ r.pc = "await" => r.wrote = 0
    /\ r.pc = "stream" => m.pc \in {"body", "done"} /\ r.wrote + FramesIn(c.fromAgent) = c.kept
    /\ c.reason = "agent" => m.pc = "done"
    /\ r.end = "closed" => c.reason # "none" /\ (c.reason = "agent" => r.wrote = c.kept)
RequestOK(r, c, m) == RequestPlaced(r, c, m) /\ FramesCounted(r, c, m)

\* It does not wait on a closed session, nor leave the agent at work.
NotStranded(r, c) == r.pc \in {"await", "stream"} /\ Closed(r.sess) => c.reason # "none"
NotOrphaned(r, m) ==
    r.pc = "remove" /\ r.sess \notin cancelled /\ link[r.sess] = "up" /\ m.pc \in {"dial", "body"} => m.told
RequestsOK ==
    /\ request \in [ProxyConn -> RequestRecord] /\ conn \in [ProxyConn -> ConnRecord]
    /\ remote \in [ProxyConn -> RemoteRecord]
    /\ \A q \in ProxyConn : /\ RequestOK(request[q], conn[q], remote[q])
                            /\ NotStranded(request[q], conn[q]) /\ NotOrphaned(request[q], remote[q])

\* A session that is being closed is known to who closes it, and cancelled
\* before its connections are closed.
SessionsOK ==
    /\ link \in [Tunnel -> {"none", "up", "lost"}]
    /\ tunnel \in [Tunnel -> {"none", "flag", "register", "evict", "loop", "unregister", "close", "closeAll"}]
    /\ victim \in [Tunnel -> Tunnel \cup {NoTunnel}] /\ current \in Tunnel \cup {NoTunnel} /\ cancelled \subseteq Tunnel
    /\ watch \in [pc : {"idle", "platform", "clusters", "cluster", "closeCluster", "cancel", "closeAll"},
                  sess : Tunnel \cup {NoTunnel}]
    /\ \A s \in Tunnel : victim[s] # NoTunnel => tunnel[s] = "evict"
    /\ watch.sess # NoTunnel => watch.pc \in {"cancel", "closeAll"}
    /\ watch.pc = "cancel" => watch.sess \in Tunnel
    /\ watch.pc = "closeAll" => watch.sess \in cancelled
    /\ linkLosses \in 0 .. MaxLinkLosses

\* A bump is of a write.
FlagsOK == FlagsTypeOK /\ flagBumps <= flagWrites

KubeProxyInv == FlagsOK /\ SessionsOK /\ LiveIsCurrent /\ RequestsOK

-----------------------------------------------------------------------------
(* KubeProxy: the flag *)

\* What a reader gets is a value.
LEMMA FlagResolves ==
  ASSUME FlagsOK, NEW s \in Scope
  PROVE  resolveUncached(s) \in FlagValue
BY DEF FlagsOK, FlagsTypeOK, resolveUncached, FlagDefault, FlagValue, Scope

\* The flag's rows, cache and readers stay well typed.
LEMMA FlagsKept ==
  ASSUME FlagsOK,
         \/ UNCHANGED flagVars
         \/ \E r \in FlagReader, s \in Scope : ReadFlag(r, s)
         \/ \E r \in FlagReader, s \in Scope, v \in FlagValue : ResolvesTo(r, s, v)
         \/ FlagsNext
  PROVE  FlagsOK'
<1> USE FlagAssumption DEF FlagsOK, FlagsTypeOK
<1>1. CASE UNCHANGED flagVars
  BY <1>1 DEF flagVars
<1>2. ASSUME NEW r \in FlagReader, NEW s \in Scope, ReadFlag(r, s)
      PROVE  FlagsOK'
  BY <1>2, FlagResolves DEF ReadFlag, FlagFault, FlagValue
<1>3. ASSUME NEW r \in FlagReader, NEW s \in Scope, NEW v \in FlagValue, ResolvesTo(r, s, v)
      PROVE  FlagsOK'
  <2>1. UNCHANGED <<flagBackend, flagRow, flagBumps, flagWrites>>
    BY <1>3 DEF ResolvesTo
  <2>2. UNCHANGED flagFaults \/ FlagFault
    BY <1>3 DEF ResolvesTo
  <2>3. UNCHANGED flagCache \/ flagCache' = [flagCache EXCEPT ![s] = v]
    BY <1>3 DEF ResolvesTo, setCached
  <2>4. UNCHANGED flagRead \/ flagRead' = [flagRead EXCEPT ![r] = "none"]
    BY <1>3 DEF ResolvesTo
  <2>5. QED
    BY <2>1, <2>2, <2>3, <2>4 DEF FlagFault
<1>4. ASSUME NEW s \in Scope, NEW v \in FlagValue \cup {"none"}, UpsertFlag(s, v)
      PROVE  FlagsOK'
  BY <1>4 DEF UpsertFlag
<1>5. CASE bump
  <2>1. UNCHANGED <<flagBackend, flagRow, flagRead, flagWrites>> /\ flagBumps > 0 /\ flagBumps' = flagBumps - 1
    BY <1>5 DEF bump
  <2>2. UNCHANGED flagFaults \/ FlagFault
    BY <1>5 DEF bump, FlagFault
  <2>3. UNCHANGED flagCache \/ flagCache' = NothingKept
    BY <1>5 DEF bump
  <2>4. QED
    BY <2>1, <2>2, <2>3 DEF FlagFault, NothingKept
<1>6. ASSUME NEW s \in Scope, FlagExpires(s)
      PROVE  FlagsOK'
  BY <1>6 DEF FlagExpires
<1>7. CASE FlagsNext
  BY <1>4, <1>5, <1>6, <1>7 DEF FlagsNext, SetFlag, ClearFlag
<1>8. QED
  BY <1>1, <1>2, <1>3, <1>7

\* The first values of the flag.
LEMMA FlagsBegin ==
  ASSUME FlagsInit \/ \E row \in FlagValue \cup {"none"} : FlagKeptOn(row)
  PROVE  FlagsOK
BY FlagAssumption DEF FlagsInit, FlagKeptOn, FlagsOK, FlagsTypeOK, NothingKept, Scope, FlagValue

-----------------------------------------------------------------------------
(* KubeProxy: counting frames *)

\* The frames among no messages, one more and one less.
LEMMA FramesFinite ==
  ASSUME NEW s \in Seq(Msg)
  PROVE  /\ IsFiniteSet({i \in DOMAIN s : s[i] = "frame"}) /\ FramesIn(s) \in Nat
         /\ FramesIn(<<>>) = 0
<1>1. IsFiniteSet(1 .. Len(s)) /\ DOMAIN s = 1 .. Len(s)
  BY FS_Interval
<1>2. IsFiniteSet({i \in DOMAIN s : s[i] = "frame"})
  BY <1>1, FS_Subset
<1>3. {i \in DOMAIN <<>> : <<>>[i] = "frame"} = {}
  OBVIOUS
<1>4. QED
  BY <1>2, <1>3, FS_CardinalityType, FS_EmptySet DEF FramesIn
LEMMA FramesAppend ==
  ASSUME NEW s \in Seq(Msg), NEW msg \in Msg
  PROVE  FramesIn(Append(s, msg)) = FramesIn(s) + IF msg = "frame" THEN 1 ELSE 0
<1> DEFINE n == Len(s) + 1
           t == Append(s, msg)
           F(u) == {i \in DOMAIN u : u[i] = "frame"}
<1>1. DOMAIN t = 1 .. n /\ DOMAIN s = 1 .. Len(s) /\ t[n] = msg /\ \A i \in 1 .. Len(s) : t[i] = s[i]
  OBVIOUS
<1>2. F(t) = IF msg = "frame" THEN F(s) \cup {n} ELSE F(s)
  BY <1>1
<1>3. n \notin F(s)
  BY <1>1
<1>4. IsFiniteSet(F(s)) /\ FramesIn(s) \in Nat
  BY FramesFinite
<1>5. Cardinality(F(s) \cup {n}) = Cardinality(F(s)) + 1
  BY <1>3, <1>4, FS_AddElement
<1>6. FramesIn(s) = Cardinality(F(s)) /\ FramesIn(t) = Cardinality(F(t))
  BY DEF FramesIn
<1> HIDE DEF t, F, n
<1>7. FramesIn(t) = FramesIn(s) + IF msg = "frame" THEN 1 ELSE 0
  <2>1. CASE msg = "frame"
    BY <1>2, <1>4, <1>5, <1>6, <2>1
  <2>2. CASE msg # "frame"
    BY <1>2, <1>4, <1>6, <2>2
  <2>3. QED
    BY <2>1, <2>2
<1>8. QED
  BY <1>7 DEF t
LEMMA FramesTail ==
  ASSUME NEW s \in Seq(Msg), s # <<>>
  PROVE  FramesIn(s) = FramesIn(Tail(s)) + IF Head(s) = "frame" THEN 1 ELSE 0
<1> DEFINE t == Tail(s)
           F(u) == {i \in DOMAIN u : u[i] = "frame"}
           later == F(s) \ {1}
           shift == [i \in F(t) |-> i + 1]
<1>1. /\ DOMAIN t = 1 .. Len(s) - 1 /\ DOMAIN s = 1 .. Len(s) /\ Len(s) \in Nat /\ Len(s) >= 1
      /\ Head(s) = s[1] /\ \A i \in 1 .. Len(s) - 1 : t[i] = s[i + 1]
  OBVIOUS
<1>2. shift \in Bijection(F(t), later)
  <2>1. \A i \in F(t) : i \in Nat /\ i + 1 \in later
    BY <1>1
  <2>2. \A j \in later : j \in Nat /\ j - 1 \in F(t) /\ shift[j - 1] = j
    BY <1>1
  <2>3. shift \in [F(t) -> later] /\ \A i, j \in F(t) : shift[i] = shift[j] => i = j
    BY <2>1
  <2>4. \A j \in later : \E i \in F(t) : shift[i] = j
    BY <2>2
  <2> HIDE DEF shift, later
  <2>5. QED
    BY <2>3, <2>4 DEF Bijection, Injection, IsInjective, Surjection
<1>3. t \in Seq(Msg)
  OBVIOUS
<1>4. IsFiniteSet(F(s)) /\ IsFiniteSet(F(t)) /\ FramesIn(s) \in Nat /\ FramesIn(t) \in Nat
  BY <1>3, FramesFinite
<1>5. Cardinality(later) = Cardinality(F(t))
  BY <1>2, <1>4, FS_Bijection DEF ExistsBijection
<1>6. Cardinality(later) = IF 1 \in F(s) THEN Cardinality(F(s)) - 1 ELSE Cardinality(F(s))
  BY <1>4, FS_RemoveElement
<1>7. 1 \in F(s) <=> Head(s) = "frame"
  BY <1>1
<1>8. FramesIn(s) = Cardinality(F(s)) /\ FramesIn(t) = Cardinality(F(t))
  BY DEF FramesIn
<1>9. CASE Head(s) = "frame"
  <2>1. FramesIn(s) - 1 = FramesIn(t)
    BY <1>5, <1>6, <1>7, <1>8, <1>9
  <2>2. QED
    BY <1>4, <1>9, <2>1
<1>10. CASE Head(s) # "frame"
  <2>1. FramesIn(s) = FramesIn(t)
    BY <1>5, <1>6, <1>7, <1>8, <1>10
  <2>2. QED
    BY <1>4, <1>10, <2>1
<1>11. QED
  BY <1>9, <1>10

-----------------------------------------------------------------------------
(* KubeProxy: the steps of a request *)

\* A step of request q gives it this place, connection and agent's side.
Becomes(q, r, c, m) ==
    /\ request' = [request EXCEPT ![q] = r] /\ conn' = [conn EXCEPT ![q] = c]
    /\ remote' = [remote EXCEPT ![q] = m]
Sound(r, c, m) == RequestOK(r, c, m) /\ NotStranded(r, c) /\ NotOrphaned(r, m)
MovesSoundly(q) == \E r, c, m : Becomes(q, r, c, m) /\ Sound(r, c, m)

\* What is known of a request.
LEMMA RequestFacts ==
  ASSUME RequestsOK, NEW q \in ProxyConn
  PROVE  /\ request[q] \in RequestRecord /\ conn[q] \in ConnRecord /\ remote[q] \in RemoteRecord
         /\ Sound(request[q], conn[q], remote[q])
         /\ request = [request EXCEPT ![q] = request[q]] /\ conn = [conn EXCEPT ![q] = conn[q]]
         /\ remote = [remote EXCEPT ![q] = remote[q]]
BY DEF RequestsOK, Sound

\* proxyConn.close keeps the first reason and everything else.
LEMMA ClosedConn ==
  ASSUME NEW c \in ConnRecord, NEW reason \in Reason
  PROVE  LET d == CloseConn(c, reason)
         IN  /\ d \in ConnRecord /\ d.in = c.in /\ d.fromAgent = c.fromAgent /\ d.kept = c.kept
             /\ d.reason = IF c.reason = "none" THEN reason ELSE c.reason
BY DEF CloseConn, ConnRecord

\* A close that is sent reaches an agent whose stream stands.
LEMMA CloseSent ==
  ASSUME RequestsOK, NEW q \in ProxyConn, SendClose(q)
  PROVE  \E m \in RemoteRecord :
            /\ remote' = [remote EXCEPT ![q] = m] /\ m.pc = remote[q].pc /\ m.sent = remote[q].sent
            /\ remote[q].told \/ (request[q].sess \notin cancelled /\ link[request[q].sess] = "up") => m.told
<1> DEFINE b == remote[q].told \/ (request[q].sess \notin cancelled /\ link[request[q].sess] = "up")
           m == [remote[q] EXCEPT !.told = b]
<1>1. remote[q] \in RemoteRecord
  BY RequestFacts
<1>2. b \in BOOLEAN
  OBVIOUS
<1>3. remote' = [remote EXCEPT ![q] = m]
  BY DEF SendClose
<1>4. m.pc = remote[q].pc /\ m.sent = remote[q].sent
  BY <1>1 DEF RemoteRecord
<1>5. m.told = b
  BY <1>1 DEF RemoteRecord
<1> HIDE DEF b
<1>6. m \in RemoteRecord
  BY <1>1, <1>2 DEF RemoteRecord
<1> HIDE DEF m
<1>7. b => m.told
  BY <1>5
<1>8. QED
  BY <1>3, <1>4, <1>6, <1>7 DEF b

\* A request may end anywhere before its response was reported complete.
LEMMA EndIsSound ==
  ASSUME NEW r \in RequestRecord, NEW c \in ConnRecord, NEW m \in RemoteRecord, RequestOK(r, c, m),
         r.pc \in {"open", "await", "stream"},
         NEW e \in {"refused", "failed", "cut", "served"},
         NEW d \in ConnRecord, d.in = c.in, Len(d.fromAgent) <= ConnChanBounds, d.kept = c.kept,
         d.reason = c.reason \/ d.reason # "agent",
         NEW n \in RemoteRecord, n.pc = m.pc, n.sent = m.sent
  PROVE  Sound([r EXCEPT !.pc = "finish", !.end = e], d, n)
<1>1. PICK t : t = [r EXCEPT !.pc = "finish", !.end = e]
  OBVIOUS
<1>2. t \in RequestRecord /\ t.pc = "finish" /\ t.end = e /\ t.sess = r.sess /\ t.wrote = r.wrote
  BY <1>1 DEF RequestRecord, Phase
<1>3. r.sess \in Tunnel
  BY DEF RequestOK, RequestPlaced
<1>4. c.in
  BY DEF RequestOK, RequestPlaced
<1>5. RequestPlaced(t, d, n)
  BY <1>2, <1>3, <1>4 DEF RequestPlaced
<1>6. FramesCounted(t, d, n)
  BY <1>2 DEF RequestOK, FramesCounted
<1>7. QED
  BY <1>1, <1>2, <1>5, <1>6 DEF Sound, RequestOK, NotStranded, NotOrphaned

\* Before the session.
LEMMA BeforeSession ==
  ASSUME RequestsOK, NEW q \in ProxyConn, RequestReadsFlag(q) \/ RequestAdmitted(q)
  PROVE  MovesSoundly(q)
<1> DEFINE r == request[q]
           c == conn[q]
           m == remote[q]
<1>1. CASE RequestReadsFlag(q)
  BY <1>1, RequestFacts DEF RequestReadsFlag, requestVars, MovesSoundly, Becomes
<1>2. CASE RequestAdmitted(q)
  <2>1. PICK pc \in {"session", "done"} : request' = [request EXCEPT ![q] = [r EXCEPT !.pc = pc]]
    BY <1>2 DEF RequestAdmitted, Goes
  <2>2. PICK t : t = [r EXCEPT !.pc = pc]
    OBVIOUS
  <2>3. r.pc = "none" /\ UNCHANGED <<conn, remote>>
    BY <1>2 DEF RequestAdmitted, At
  <2>4. t \in RequestRecord /\ t.pc = pc /\ t.sess = r.sess /\ t.wrote = r.wrote /\ t.end = r.end
    BY <2>1, <2>2, RequestFacts DEF RequestRecord, Phase
  <2>5. Sound(t, c, m)
    BY <2>1, <2>3, <2>4, RequestFacts DEF Sound, RequestOK, RequestPlaced, FramesCounted, NotStranded, NotOrphaned
  <2>6. QED
    BY <2>1, <2>2, <2>3, <2>5, RequestFacts DEF MovesSoundly, Becomes
<1>3. QED
  BY <1>1, <1>2

\* SessionRegistry.Get and the connection.
LEMMA GetSessionSound ==
  ASSUME RequestsOK, SessionsOK, NEW q \in ProxyConn, GetSession(q)
  PROVE  MovesSoundly(q)
<1> DEFINE r == request[q]
           c == conn[q]
           m == remote[q]
           pc == IF current = NoTunnel THEN "done" ELSE "alloc"
<1>1. PICK t : t = [r EXCEPT !.pc = pc, !.sess = current]
  OBVIOUS
<1>2. request' = [request EXCEPT ![q] = t] /\ r.pc = "session" /\ UNCHANGED <<conn, remote>>
  BY <1>1 DEF GetSession, At
<1>3. t \in RequestRecord /\ t.pc = pc /\ t.sess = current /\ t.wrote = r.wrote /\ t.end = r.end
  BY <1>1, RequestFacts DEF RequestRecord, Phase, SessionsOK
<1>4. current = NoTunnel \/ current \in Tunnel
  BY DEF SessionsOK
<1>5. Sound(t, c, m)
  BY <1>2, <1>3, <1>4, RequestFacts DEF Sound, RequestOK, RequestPlaced, FramesCounted, NotStranded, NotOrphaned
<1>6. QED
  BY <1>2, <1>5, RequestFacts DEF MovesSoundly, Becomes
LEMMA AllocSound ==
  ASSUME RequestsOK, NEW q \in ProxyConn, alloc(q)
  PROVE  MovesSoundly(q)
<1> DEFINE r == request[q]
           c == conn[q]
           m == remote[q]
<1>1. PICK pc \in {"open", "remove"} : request' = [request EXCEPT ![q] = [r EXCEPT !.pc = pc]]
  BY DEF alloc, Goes
<1>2. PICK t : t = [r EXCEPT !.pc = pc]
  OBVIOUS
<1>3. PICK d : d = [NoConn EXCEPT !.in = TRUE]
  OBVIOUS
<1>4. r.pc = "alloc" /\ conn' = [conn EXCEPT ![q] = d] /\ UNCHANGED remote
  BY <1>3 DEF alloc, At
<1>5. t \in RequestRecord /\ t.pc = pc /\ t.sess = r.sess /\ t.wrote = r.wrote /\ t.end = r.end
  BY <1>1, <1>2, RequestFacts DEF RequestRecord, Phase
<1>6. /\ d \in ConnRecord /\ d.reason = "none" /\ d.fromAgent = <<>> /\ d.kept = 0 /\ Len(d.fromAgent) = 0
  <2>1. d = [in |-> TRUE, reason |-> "none", fromAgent |-> <<>>, kept |-> 0]
    BY <1>3 DEF NoConn
  <2>2. <<>> \in Seq(Msg) /\ Len(<<>>) = 0 /\ "none" \in Reason
    BY DEF Reason
  <2>3. d \in ConnRecord
    BY <2>1, <2>2 DEF ConnRecord
  <2>4. QED
    BY <2>1, <2>2, <2>3
<1>7. d.in
  BY <1>3 DEF NoConn
<1>8. Sound(t, d, m)
  <2>1. RequestPlaced(t, d, m)
    BY <1>4, <1>5, <1>6, <1>7, RequestFacts, KubeProxyAssumption DEF Sound, RequestOK, RequestPlaced
  <2>2. FramesCounted(t, d, m)
    BY <1>4, <1>5, <1>6, RequestFacts DEF Sound, RequestOK, RequestPlaced, FramesCounted
  <2>3. QED
    BY <1>4, <1>5, <2>1, <2>2, RequestFacts DEF Sound, RequestOK, RequestPlaced, NotStranded, NotOrphaned
<1>9. QED
  BY <1>1, <1>2, <1>4, <1>8, RequestFacts DEF MovesSoundly, Becomes

\* A message that is taken from the connection.
LEMMA Popped ==
  ASSUME NEW c \in ConnRecord, c.fromAgent # <<>>, Len(c.fromAgent) <= ConnChanBounds
  PROVE  \E d \in ConnRecord :
            /\ d = [c EXCEPT !.fromAgent = Tail(@)] /\ d.in = c.in /\ d.kept = c.kept /\ d.reason = c.reason
            /\ d.fromAgent = Tail(c.fromAgent) /\ Len(d.fromAgent) <= ConnChanBounds
            /\ FramesIn(c.fromAgent) = FramesIn(d.fromAgent) + IF Head(c.fromAgent) = "frame" THEN 1 ELSE 0
<1>1. PICK d : d = [c EXCEPT !.fromAgent = Tail(@)]
  OBVIOUS
<1>2. PICK s \in Seq(Msg) : s = c.fromAgent
  BY DEF ConnRecord
<1>3. Tail(s) \in Seq(Msg) /\ Len(Tail(s)) <= ConnChanBounds
  BY <1>2, KubeProxyAssumption
<1>4. d \in ConnRecord /\ d.kept = c.kept /\ d.reason = c.reason /\ d.fromAgent = Tail(s)
  BY <1>1, <1>2, <1>3 DEF ConnRecord
<1>5. d.in = c.in
  BY <1>1 DEF ConnRecord
<1>6. QED
  BY <1>1, <1>2, <1>3, <1>4, <1>5, FramesTail

\* The open is sent.
LEMMA SendOpenSound ==
  ASSUME RequestsOK, NEW q \in ProxyConn, SendOpen(q)
  PROVE  MovesSoundly(q)
<1> DEFINE r == request[q]
           c == conn[q]
           m == remote[q]
<1>1. r.pc = "open" /\ conn' = conn
  BY DEF SendOpen, At
<1>2. CASE /\ r.sess \notin cancelled /\ Goes(q, "await")
           /\ remote' = IF link[r.sess] = "up" THEN [remote EXCEPT ![q].pc = "dial"] ELSE remote
  <2>1. PICK t : t = [r EXCEPT !.pc = "await"]
    OBVIOUS
  <2>2. t \in RequestRecord /\ t.pc = "await" /\ t.sess = r.sess /\ t.wrote = r.wrote /\ t.end = r.end
    BY <2>1, RequestFacts DEF RequestRecord, Phase
  <2>3. PICK n : n = IF link[r.sess] = "up" THEN [m EXCEPT !.pc = "dial"] ELSE m
    OBVIOUS
  <2>4. n \in RemoteRecord /\ n.pc \in {m.pc, "dial"} /\ n.sent = m.sent
    BY <2>3, RequestFacts DEF RemoteRecord
  <2>5. Becomes(q, t, c, n)
    BY <1>1, <1>2, <2>1, <2>3, RequestFacts DEF Becomes, Goes
  <2>6. RequestPlaced(t, c, n)
    BY <1>1, <2>2, <2>4, RequestFacts DEF Sound, RequestOK, RequestPlaced
  <2>7. FramesCounted(t, c, n)
    BY <1>1, <2>2, <2>4, RequestFacts DEF Sound, RequestOK, RequestPlaced, FramesCounted
  <2>8. NotStranded(t, c) /\ NotOrphaned(t, n)
    BY <1>2, <2>2 DEF NotStranded, NotOrphaned, Closed
  <2>9. QED
    BY <2>5, <2>6, <2>7, <2>8 DEF MovesSoundly, Sound, RequestOK
<1>3. CASE Ends(q, "refused") /\ UNCHANGED remote
  <2>1. Becomes(q, [r EXCEPT !.pc = "finish", !.end = "refused"], c, m)
    BY <1>1, <1>3, RequestFacts DEF Becomes, Ends
  <2>2. Sound([r EXCEPT !.pc = "finish", !.end = "refused"], c, m)
    BY <1>1, EndIsSound, RequestFacts DEF Sound, RequestOK, RequestPlaced
  <2>3. QED
    BY <2>1, <2>2 DEF MovesSoundly
<1>4. QED
  BY <1>2, <1>3 DEF SendOpen

\* The answer to the open.
LEMMA AwaitEnds ==
  ASSUME RequestsOK, NEW q \in ProxyConn, OpenFails(q) \/ OpenTimesOut(q)
  PROVE  MovesSoundly(q)
<1> DEFINE r == request[q]
           c == conn[q]
           m == remote[q]
<1>1. r.pc = "await" /\ SendClose(q) /\ \E e \in {"failed", "cut"} : Ends(q, e)
  BY DEF OpenFails, OpenTimesOut, At
<1>2. PICK e \in {"failed", "cut"} : request' = [request EXCEPT ![q] = [r EXCEPT !.pc = "finish", !.end = e]]
  BY <1>1 DEF Ends
<1>3. PICK n \in RemoteRecord : remote' = [remote EXCEPT ![q] = n] /\ n.pc = m.pc /\ n.sent = m.sent
  BY <1>1, CloseSent
<1>4. Len(c.fromAgent) <= ConnChanBounds
  BY RequestFacts DEF Sound, RequestOK, RequestPlaced
<1>5. PICK d \in ConnRecord : /\ conn' = [conn EXCEPT ![q] = d] /\ d.in = c.in /\ d.kept = c.kept
                              /\ d.reason = c.reason /\ Len(d.fromAgent) <= ConnChanBounds
  <2>1. CASE UNCHANGED conn
    BY <1>4, <2>1, RequestFacts
  <2>2. CASE c.fromAgent # <<>> /\ Pop(q)
    <3>1. conn' = [conn EXCEPT ![q] = [c EXCEPT !.fromAgent = Tail(@)]]
      BY <2>2 DEF Pop
    <3>2. QED
      BY <1>4, <2>2, <3>1, Popped, RequestFacts
  <2>3. QED
    BY <2>1, <2>2 DEF OpenFails, OpenTimesOut
<1>6. Sound([r EXCEPT !.pc = "finish", !.end = e], d, n)
  BY <1>1, <1>3, <1>5, EndIsSound, RequestFacts DEF Sound
<1>7. QED
  BY <1>2, <1>3, <1>5, <1>6 DEF MovesSoundly, Becomes
LEMMA OpenResultSound ==
  ASSUME RequestsOK, NEW q \in ProxyConn, OpenResult(q)
  PROVE  MovesSoundly(q)
<1> DEFINE r == request[q]
           c == conn[q]
           m == remote[q]
<1>1. r.pc = "await" /\ c.fromAgent # <<>> /\ Head(c.fromAgent) # "error" /\ Pop(q) /\ UNCHANGED remote
  BY DEF OpenResult, At
<1>2. /\ Len(c.fromAgent) <= ConnChanBounds /\ Head(c.fromAgent) = "result" /\ m.pc \in {"body", "done"}
      /\ FramesIn(c.fromAgent) = c.kept /\ r.wrote = 0
  BY <1>1, RequestFacts DEF Sound, RequestOK, RequestPlaced, FramesCounted
<1>3. conn' = [conn EXCEPT ![q] = [c EXCEPT !.fromAgent = Tail(@)]]
  BY <1>1 DEF Pop
<1>4. PICK d \in ConnRecord : /\ conn' = [conn EXCEPT ![q] = d] /\ d.in = c.in /\ d.kept = c.kept /\ d.reason = c.reason
                              /\ Len(d.fromAgent) <= ConnChanBounds /\ FramesIn(d.fromAgent) = c.kept
  <2>1. PICK d \in ConnRecord :
           /\ d = [c EXCEPT !.fromAgent = Tail(@)] /\ d.in = c.in /\ d.kept = c.kept /\ d.reason = c.reason
           /\ d.fromAgent = Tail(c.fromAgent) /\ Len(d.fromAgent) <= ConnChanBounds
           /\ FramesIn(c.fromAgent) = FramesIn(d.fromAgent) + IF Head(c.fromAgent) = "frame" THEN 1 ELSE 0
    BY <1>1, <1>2, Popped, RequestFacts
  <2>2. FramesIn(d.fromAgent) \in Nat
    BY FramesFinite DEF ConnRecord
  <2>3. FramesIn(d.fromAgent) = c.kept
    BY <1>2, <2>1, <2>2
  <2>4. QED
    BY <1>3, <2>1, <2>3
<1>5. CASE Goes(q, "stream")
  <2>1. PICK t : t = [r EXCEPT !.pc = "stream"]
    OBVIOUS
  <2>2. t \in RequestRecord /\ t.pc = "stream" /\ t.sess = r.sess /\ t.wrote = r.wrote /\ t.end = r.end
    BY <2>1, RequestFacts DEF RequestRecord, Phase
  <2>3. Becomes(q, t, d, m)
    BY <1>1, <1>4, <1>5, <2>1, RequestFacts DEF Becomes, Goes
  <2>4. RequestPlaced(t, d, m)
    <3>1. c.in
      BY <1>1, RequestFacts DEF Sound, RequestOK, RequestPlaced
    <3>2. d.in
      BY <1>4, <3>1
    <3>3. QED
      BY <1>1, <1>4, <2>2, <3>2, RequestFacts DEF Sound, RequestOK, RequestPlaced
  <2>5. c.kept \in Nat
    BY RequestFacts DEF ConnRecord
  <2>6. FramesCounted(t, d, m)
    BY <1>1, <1>2, <1>4, <2>2, <2>5, RequestFacts DEF Sound, RequestOK, RequestPlaced, FramesCounted
  <2>7. NotStranded(t, d) /\ NotOrphaned(t, m)
    BY <1>1, <1>4, <2>2, RequestFacts DEF Sound, NotStranded, NotOrphaned
  <2>8. QED
    BY <2>3, <2>4, <2>6, <2>7 DEF MovesSoundly, Sound, RequestOK
<1>6. CASE Ends(q, "cut")
  <2>1. Becomes(q, [r EXCEPT !.pc = "finish", !.end = "cut"], d, m)
    BY <1>1, <1>4, <1>6, RequestFacts DEF Becomes, Ends
  <2>2. Sound([r EXCEPT !.pc = "finish", !.end = "cut"], d, m)
    BY <1>1, <1>4, EndIsSound, RequestFacts DEF Sound
  <2>3. QED
    BY <2>1, <2>2 DEF MovesSoundly
<1>7. QED
  BY <1>2, <1>5, <1>6 DEF OpenResult

\* A frame is written to the client.
LEMMA FrameWritten ==
  ASSUME RequestsOK, NEW q \in ProxyConn, request[q].pc = "stream", conn[q].fromAgent # <<>>,
         Head(conn[q].fromAgent) = "frame", request' = [request EXCEPT ![q].wrote = @ + 1], Pop(q), UNCHANGED remote
  PROVE  MovesSoundly(q)
<1> DEFINE r == request[q]
           c == conn[q]
           m == remote[q]
<1>1. Len(c.fromAgent) <= ConnChanBounds /\ m.pc \in {"body", "done"} /\ r.wrote + FramesIn(c.fromAgent) = c.kept
  BY RequestFacts DEF Sound, RequestOK, RequestPlaced, FramesCounted
<1>2. PICK d \in ConnRecord :
         /\ d = [c EXCEPT !.fromAgent = Tail(@)] /\ d.in = c.in /\ d.kept = c.kept /\ d.reason = c.reason
         /\ d.fromAgent = Tail(c.fromAgent) /\ Len(d.fromAgent) <= ConnChanBounds
         /\ FramesIn(c.fromAgent) = FramesIn(d.fromAgent) + IF Head(c.fromAgent) = "frame" THEN 1 ELSE 0
  BY <1>1, Popped, RequestFacts
<1>3. FramesIn(d.fromAgent) \in Nat /\ r.wrote \in Nat /\ c.kept \in Nat
  BY FramesFinite, RequestFacts DEF ConnRecord, RequestRecord
<1>4. r.wrote + 1 + FramesIn(d.fromAgent) = c.kept /\ r.wrote + 1 <= c.kept
  <2>1. FramesIn(c.fromAgent) = FramesIn(d.fromAgent) + 1
    BY <1>2
  <2>2. PICK n, k : n = FramesIn(d.fromAgent) /\ k = FramesIn(c.fromAgent)
    OBVIOUS
  <2>3. k = n + 1 /\ n \in Nat /\ r.wrote \in Nat /\ c.kept \in Nat /\ r.wrote + k = c.kept
    BY <1>1, <1>3, <2>1, <2>2
  <2> HIDE DEF r, c
  <2>4. r.wrote + 1 + n = c.kept /\ r.wrote + 1 <= c.kept
    BY <2>3
  <2>5. QED
    BY <2>2, <2>4
<1>5. PICK t : t = [r EXCEPT !.wrote = @ + 1]
  OBVIOUS
<1>6. t \in RequestRecord /\ t.pc = "stream" /\ t.sess = r.sess /\ t.wrote = r.wrote + 1 /\ t.end = r.end
  BY <1>3, <1>5, RequestFacts DEF RequestRecord, Phase
<1>7. Becomes(q, t, d, m)
  BY <1>2, <1>5, RequestFacts DEF Becomes, Pop
<1>8. RequestPlaced(t, d, m)
  <2>1. c.in
    BY RequestFacts DEF Sound, RequestOK, RequestPlaced
  <2>2. d.in
    BY <1>2, <2>1
  <2>3. QED
    BY <1>2, <1>6, <2>2, RequestFacts DEF Sound, RequestOK, RequestPlaced
<1>9. FramesCounted(t, d, m)
  BY <1>1, <1>2, <1>4, <1>6, RequestFacts DEF Sound, RequestOK, RequestPlaced, FramesCounted
<1>10. NotStranded(t, d) /\ NotOrphaned(t, m)
  BY <1>2, <1>6, RequestFacts DEF Sound, NotStranded, NotOrphaned
<1>11. QED
  BY <1>7, <1>8, <1>9, <1>10 DEF MovesSoundly, Sound, RequestOK
LEMMA WriteFrameSound ==
  ASSUME RequestsOK, NEW q \in ProxyConn, WriteFrame(q)
  PROVE  MovesSoundly(q)
<1> DEFINE r == request[q]
           c == conn[q]
           m == remote[q]
<1>1. r.pc = "stream" /\ c.fromAgent # <<>>
  BY DEF WriteFrame, At
<1>2. Len(c.fromAgent) <= ConnChanBounds
  BY RequestFacts DEF Sound, RequestOK, RequestPlaced
<1>3. PICK d \in ConnRecord :
         /\ d = [c EXCEPT !.fromAgent = Tail(@)] /\ d.in = c.in /\ d.kept = c.kept /\ d.reason = c.reason
         /\ d.fromAgent = Tail(c.fromAgent) /\ Len(d.fromAgent) <= ConnChanBounds
         /\ FramesIn(c.fromAgent) = FramesIn(d.fromAgent) + IF Head(c.fromAgent) = "frame" THEN 1 ELSE 0
  BY <1>1, <1>2, Popped, RequestFacts
<1>4. CASE /\ Head(c.fromAgent) = "frame" /\ request' = [request EXCEPT ![q].wrote = @ + 1] /\ Pop(q)
           /\ UNCHANGED remote
  BY <1>1, <1>4, FrameWritten
<1>5. CASE /\ Ends(q, "cut") /\ SendClose(q)
           /\ conn' = [conn EXCEPT ![q] = [CloseConn(conn[q], "client_write_failed") EXCEPT !.fromAgent = Tail(@)]]
  <2>1. PICK n \in RemoteRecord : remote' = [remote EXCEPT ![q] = n] /\ n.pc = m.pc /\ n.sent = m.sent
    BY <1>5, CloseSent
  <2>2. PICK k : k = CloseConn(c, "client_write_failed")
    OBVIOUS
  <2>3. /\ k \in ConnRecord /\ k.in = c.in /\ k.fromAgent = c.fromAgent /\ k.kept = c.kept
        /\ k.reason = IF c.reason = "none" THEN "client_write_failed" ELSE c.reason
    <3>1. "client_write_failed" \in Reason
      BY DEF Reason
    <3>2. QED
      BY <2>2, <3>1, ClosedConn, RequestFacts
  <2>4. PICK e \in ConnRecord :
           /\ e = [k EXCEPT !.fromAgent = Tail(@)] /\ e.in = k.in /\ e.kept = k.kept /\ e.reason = k.reason
           /\ Len(e.fromAgent) <= ConnChanBounds
    BY <1>1, <1>2, <2>3, Popped
  <2>5. Sound([r EXCEPT !.pc = "finish", !.end = "cut"], e, n)
    <3>1. e.in = c.in
      BY <2>3, <2>4
    <3>2. e.kept = c.kept /\ (e.reason = c.reason \/ e.reason # "agent")
      BY <2>3, <2>4
    <3>3. r \in RequestRecord /\ c \in ConnRecord /\ m \in RemoteRecord /\ RequestOK(r, c, m)
      BY RequestFacts DEF Sound
    <3>4. QED
      BY <1>1, <2>1, <2>4, <3>1, <3>2, <3>3, EndIsSound
  <2>6. Becomes(q, [r EXCEPT !.pc = "finish", !.end = "cut"], e, n)
    <3>1. conn' = [conn EXCEPT ![q] = [CloseConn(c, "client_write_failed") EXCEPT !.fromAgent = Tail(@)]]
      BY <1>5
    <3>2. [CloseConn(c, "client_write_failed") EXCEPT !.fromAgent = Tail(@)] = e
      BY <2>2, <2>4
    <3>3. conn' = [conn EXCEPT ![q] = e]
      BY <3>1, <3>2
    <3>4. QED
      BY <1>5, <2>1, <3>3 DEF Becomes, Ends
  <2>7. QED
    BY <2>5, <2>6 DEF MovesSoundly
<1>6. CASE Ends(q, "served") /\ Pop(q) /\ UNCHANGED remote
  <2>1. Becomes(q, [r EXCEPT !.pc = "finish", !.end = "served"], d, m)
    BY <1>3, <1>6, RequestFacts DEF Becomes, Ends, Pop
  <2>2. Sound([r EXCEPT !.pc = "finish", !.end = "served"], d, m)
    BY <1>1, <1>3, EndIsSound, RequestFacts DEF Sound
  <2>3. QED
    BY <2>1, <2>2 DEF MovesSoundly
<1>7. QED
  BY <1>4, <1>5, <1>6 DEF WriteFrame

\* The connection was closed: what is left of the response is written.
LEMMA ConnClosedSound ==
  ASSUME RequestsOK, NEW q \in ProxyConn, ConnClosed(q)
  PROVE  MovesSoundly(q)
<1> DEFINE r == request[q]
           c == conn[q]
           m == remote[q]
<1>1. r.pc = "stream" /\ c.reason # "none" /\ UNCHANGED remote
  BY DEF ConnClosed, At
<1>2. r.wrote + FramesIn(c.fromAgent) = c.kept /\ r.end = "none" /\ r.sess \in Tunnel /\ c.in
  BY <1>1, RequestFacts DEF Sound, RequestOK, RequestPlaced, FramesCounted
<1>3. PICK d : d = [c EXCEPT !.fromAgent = <<>>]
  OBVIOUS
<1>4. d \in ConnRecord /\ d.kept = c.kept /\ d.reason = c.reason /\ d.fromAgent = <<>> /\ Len(d.fromAgent) <= ConnChanBounds
  <2>1. PICK n : n = <<>>
    OBVIOUS
  <2>2. n \in Seq(Msg) /\ Len(n) <= ConnChanBounds
    BY <2>1, KubeProxyAssumption
  <2>3. d = [c EXCEPT !.fromAgent = n] /\ c \in ConnRecord
    BY <1>3, <2>1, RequestFacts
  <2>4. d \in ConnRecord /\ d.kept = c.kept /\ d.reason = c.reason /\ d.fromAgent = n
    BY <2>2, <2>3 DEF ConnRecord
  <2>5. QED
    BY <2>1, <2>2, <2>4
<1>5. d.in = c.in
  BY <1>3, RequestFacts DEF ConnRecord
<1>6. conn' = [conn EXCEPT ![q] = d]
  BY <1>3 DEF ConnClosed
<1>7. CASE Ends(q, "cut")
  <2>1. Becomes(q, [r EXCEPT !.pc = "finish", !.end = "cut"], d, m)
    BY <1>1, <1>6, <1>7, RequestFacts DEF Becomes, Ends
  <2>2. Sound([r EXCEPT !.pc = "finish", !.end = "cut"], d, m)
    BY <1>1, <1>4, <1>5, EndIsSound, RequestFacts DEF Sound
  <2>3. QED
    BY <2>1, <2>2 DEF MovesSoundly
<1>8. CASE request' = [request EXCEPT ![q].pc = "finish", ![q].end = "closed", ![q].wrote = @ + Pending(q)]
  <2>1. PICK t : t = [r EXCEPT !.pc = "finish", !.end = "closed", !.wrote = c.kept]
    OBVIOUS
  <2>2. /\ t \in RequestRecord /\ t.pc = "finish" /\ t.sess = r.sess /\ t.wrote = c.kept /\ t.end = "closed"
    BY <2>1, RequestFacts DEF RequestRecord, Phase, ConnRecord
  <2>3. request' = [request EXCEPT ![q] = t]
    BY <1>2, <1>8, <2>1 DEF Pending
  <2>4. RequestPlaced(t, d, m)
    <3>1. d.in
      BY <1>2, <1>5
    <3>2. QED
      BY <1>2, <1>4, <2>2, <3>1, RequestFacts DEF Sound, RequestOK, RequestPlaced
  <2>5. FramesCounted(t, d, m)
    <3>1. c.kept \in Nat
      BY RequestFacts DEF ConnRecord
    <3>2. QED
      BY <1>1, <1>4, <2>2, <3>1, RequestFacts DEF Sound, RequestOK, RequestPlaced, FramesCounted
  <2>6. NotStranded(t, d) /\ NotOrphaned(t, m)
    BY <2>2 DEF NotStranded, NotOrphaned
  <2>7. QED
    BY <1>1, <1>6, <2>3, <2>4, <2>5, <2>6, RequestFacts DEF MovesSoundly, Becomes, Sound, RequestOK
<1>9. QED
  BY <1>7, <1>8 DEF ConnClosed
LEMMA MaxLifetimeSound ==
  ASSUME RequestsOK, NEW q \in ProxyConn, MaxLifetime(q)
  PROVE  MovesSoundly(q)
<1> DEFINE r == request[q]
           c == conn[q]
           m == remote[q]
<1>1. r.pc = "stream" /\ SendClose(q)
  BY DEF MaxLifetime, At
<1>2. PICK n \in RemoteRecord : remote' = [remote EXCEPT ![q] = n] /\ n.pc = m.pc /\ n.sent = m.sent
  BY <1>1, CloseSent
<1>3. PICK d : d = CloseConn(c, "max_lifetime")
  OBVIOUS
<1>4. /\ d \in ConnRecord /\ d.in = c.in /\ d.fromAgent = c.fromAgent /\ d.kept = c.kept
      /\ d.reason = IF c.reason = "none" THEN "max_lifetime" ELSE c.reason
  <2>1. "max_lifetime" \in Reason
    BY DEF Reason
  <2>2. QED
    BY <1>3, <2>1, ClosedConn, RequestFacts
<1>5. Len(d.fromAgent) <= ConnChanBounds
  BY <1>4, RequestFacts DEF Sound, RequestOK, RequestPlaced
<1>6. Sound([r EXCEPT !.pc = "finish", !.end = "cut"], d, n)
  BY <1>1, <1>2, <1>4, <1>5, EndIsSound, RequestFacts DEF Sound
<1>7. Becomes(q, [r EXCEPT !.pc = "finish", !.end = "cut"], d, n)
  BY <1>2, <1>3 DEF Becomes, Ends, MaxLifetime
<1>8. QED
  BY <1>6, <1>7 DEF MovesSoundly

\* The agent is told and the connection leaves the mux.
LEMMA FinishSound ==
  ASSUME RequestsOK, NEW q \in ProxyConn, Finish(q)
  PROVE  MovesSoundly(q)
<1> DEFINE r == request[q]
           c == conn[q]
           m == remote[q]
<1>1. r.pc = "finish" /\ SendClose(q) /\ UNCHANGED conn
  BY DEF Finish, At
<1>2. PICK n \in RemoteRecord :
         /\ remote' = [remote EXCEPT ![q] = n] /\ n.pc = m.pc /\ n.sent = m.sent
         /\ m.told \/ (r.sess \notin cancelled /\ link[r.sess] = "up") => n.told
  BY <1>1, CloseSent
<1>3. PICK t : t = [r EXCEPT !.pc = "remove"]
  OBVIOUS
<1>4. t \in RequestRecord /\ t.pc = "remove" /\ t.sess = r.sess /\ t.wrote = r.wrote /\ t.end = r.end
  BY <1>3, RequestFacts DEF RequestRecord, Phase
<1>5. Becomes(q, t, c, n)
  BY <1>1, <1>2, <1>3, RequestFacts DEF Becomes, Finish, Goes
<1>6. RequestPlaced(t, c, n) /\ FramesCounted(t, c, n)
  BY <1>1, <1>2, <1>4, RequestFacts DEF Sound, RequestOK, RequestPlaced, FramesCounted
<1>7. NotStranded(t, c) /\ NotOrphaned(t, n)
  BY <1>2, <1>4 DEF NotStranded, NotOrphaned
<1>8. QED
  BY <1>5, <1>6, <1>7 DEF MovesSoundly, Sound, RequestOK

\* What a request that is over leaves.
LEMMA OverSound ==
  /\ [IdleRequest EXCEPT !.pc = "done"] \in RequestRecord /\ IdleRequest \in RequestRecord
  /\ NoConn \in ConnRecord /\ IdleRemote \in RemoteRecord
  /\ Sound([IdleRequest EXCEPT !.pc = "done"], NoConn, IdleRemote) /\ Sound(IdleRequest, NoConn, IdleRemote)
<1>2. <<>> \in Seq(Msg) /\ Len(<<>>) = 0
  OBVIOUS
<1>3. NoConn \in ConnRecord /\ NoConn.fromAgent = <<>> /\ NoConn.kept = 0 /\ NoConn.reason = "none"
  BY <1>2 DEF NoConn, ConnRecord, Reason
<1>4. IdleRemote \in RemoteRecord /\ IdleRemote.pc = "none" /\ IdleRemote.sent = 0
  BY KubeProxyAssumption DEF IdleRemote, RemoteRecord
<1>5. ASSUME NEW u \in {IdleRequest, [IdleRequest EXCEPT !.pc = "done"]}
      PROVE  u \in RequestRecord /\ Sound(u, NoConn, IdleRemote)
  <2>1. u \in RequestRecord /\ u.pc \in {"none", "done"} /\ u.wrote = 0 /\ u.end = "none"
    BY DEF IdleRequest, RequestRecord, Phase
  <2>2. QED
    BY <1>2, <1>3, <1>4, <2>1, KubeProxyAssumption
    DEF Sound, RequestOK, RequestPlaced, FramesCounted, NotStranded, NotOrphaned
<1>6. QED
  BY <1>3, <1>4, <1>5
LEMMA RemoveSound ==
  ASSUME NEW q \in ProxyConn, remove(q)
  PROVE  MovesSoundly(q)
BY OverSound DEF remove, MovesSoundly, Becomes

\* The body cannot be read, or exceeds the cap.
LEMMA PumpSound ==
  ASSUME RequestsOK, NEW q \in ProxyConn, pumpToAgent(q)
  PROVE  MovesSoundly(q)
<1> DEFINE r == request[q]
           c == conn[q]
           m == remote[q]
<1>1. r.pc \in {"await", "stream"} /\ SendClose(q) /\ UNCHANGED request
  BY DEF pumpToAgent
<1>2. PICK n \in RemoteRecord : remote' = [remote EXCEPT ![q] = n] /\ n.pc = m.pc /\ n.sent = m.sent
  BY <1>1, CloseSent
<1>3. PICK d \in ConnRecord :
         /\ conn' = [conn EXCEPT ![q] = d] /\ d.in = c.in /\ d.fromAgent = c.fromAgent /\ d.kept = c.kept
         /\ d.reason = c.reason \/ (c.reason = "none" /\ d.reason = "byte_cap_exceeded")
  <2>1. CASE UNCHANGED conn
    BY <2>1, RequestFacts
  <2>2. CASE conn' = [conn EXCEPT ![q] = CloseConn(@, "byte_cap_exceeded")]
    <3>1. "byte_cap_exceeded" \in Reason
      BY DEF Reason
    <3>2. PICK d : d = CloseConn(c, "byte_cap_exceeded")
      OBVIOUS
    <3>3. /\ d \in ConnRecord /\ d.in = c.in /\ d.fromAgent = c.fromAgent /\ d.kept = c.kept
          /\ d.reason = IF c.reason = "none" THEN "byte_cap_exceeded" ELSE c.reason
      BY <3>1, <3>2, ClosedConn, RequestFacts
    <3>4. conn' = [conn EXCEPT ![q] = d]
      BY <2>2, <3>2
    <3>5. QED
      BY <3>3, <3>4
  <2>3. QED
    BY <2>1, <2>2 DEF pumpToAgent
<1>4. RequestPlaced(r, d, n)
  <2>1. c.in
    BY <1>1, RequestFacts DEF Sound, RequestOK, RequestPlaced
  <2>2. d.in
    BY <1>3, <2>1
  <2>3. QED
    BY <1>1, <1>2, <1>3, <2>2, RequestFacts DEF Sound, RequestOK, RequestPlaced
<1>5. FramesCounted(r, d, n)
  BY <1>1, <1>2, <1>3, RequestFacts DEF Sound, RequestOK, RequestPlaced, FramesCounted
<1>6. NotStranded(r, d) /\ NotOrphaned(r, n)
  BY <1>1, <1>3, RequestFacts DEF Sound, NotStranded, NotOrphaned
<1>7. QED
  BY <1>1, <1>2, <1>3, <1>4, <1>5, <1>6, RequestFacts DEF MovesSoundly, Becomes, Sound, RequestOK

\* A message for the connection is kept, or it is not and the connection, if it
\* is there, is closed.
LEMMA Routed ==
  ASSUME RequestsOK, NEW q \in ProxyConn, NEW msg \in Msg \cup {"close"}, route(q, msg)
  PROVE  \E d \in ConnRecord :
            /\ conn' = [conn EXCEPT ![q] = d] /\ d.in = conn[q].in /\ Len(d.fromAgent) <= ConnChanBounds
            /\ conn[q].reason # "none" => d.reason = conn[q].reason
            /\ \/ /\ d.fromAgent = conn[q].fromAgent /\ d.kept = conn[q].kept
                  /\ d.reason = "agent" => conn[q].reason = "agent" \/ msg = "close"
                  /\ conn[q].in /\ msg # "close" => ConnChanBounds <= Len(conn[q].fromAgent) \/ msg = "frame"
               \/ /\ msg \in Msg /\ d.fromAgent = Append(conn[q].fromAgent, msg) /\ d.reason = conn[q].reason
                  /\ d.kept = IF msg = "frame" THEN conn[q].kept + 1 ELSE conn[q].kept
<1> DEFINE c == conn[q]
<1>1. c \in ConnRecord /\ Len(c.fromAgent) <= ConnChanBounds
  BY RequestFacts DEF Sound, RequestOK, RequestPlaced
<1>2. ASSUME NEW reason \in Reason, conn' = [conn EXCEPT ![q] = CloseConn(c, reason)],
             reason = "agent" => msg = "close",
             msg # "close" => ConnChanBounds <= Len(c.fromAgent) \/ msg = "frame"
      PROVE  \E d \in ConnRecord :
                /\ conn' = [conn EXCEPT ![q] = d] /\ d.in = c.in /\ d.fromAgent = c.fromAgent /\ d.kept = c.kept
                /\ c.reason # "none" => d.reason = c.reason
                /\ d.reason = "agent" => c.reason = "agent" \/ msg = "close"
  <2>1. PICK d : d = CloseConn(c, reason)
    OBVIOUS
  <2>2. /\ d \in ConnRecord /\ d.in = c.in /\ d.fromAgent = c.fromAgent /\ d.kept = c.kept
        /\ d.reason = IF c.reason = "none" THEN reason ELSE c.reason
    BY <1>1, <2>1, ClosedConn
  <2>3. conn' = [conn EXCEPT ![q] = d]
    BY <1>2, <2>1
  <2>4. QED
    BY <1>2, <2>2, <2>3
<1>3. {"agent", "byte_cap_exceeded", "backpressure"} \subseteq Reason
  BY DEF Reason
<1>4. CASE ~c.in /\ conn' = conn
  BY <1>1, <1>4, RequestFacts
<1>5. CASE msg = "close" /\ conn' = [conn EXCEPT ![q] = CloseConn(c, "agent")]
  BY <1>1, <1>2, <1>3, <1>5
<1>6. CASE msg = "frame" /\ conn' = [conn EXCEPT ![q] = CloseConn(c, "byte_cap_exceeded")]
  BY <1>1, <1>2, <1>3, <1>6
<1>7. CASE Len(c.fromAgent) >= ConnChanBounds /\ conn' = [conn EXCEPT ![q] = CloseConn(c, "backpressure")]
  <2>1. ConnChanBounds <= Len(c.fromAgent)
    BY <1>7
  <2>2. QED
    BY <1>1, <1>2, <1>3, <1>7, <2>1
<1>8. CASE /\ msg # "close" /\ ~(Len(c.fromAgent) >= ConnChanBounds)
           /\ conn' = [conn EXCEPT ![q].fromAgent = Append(@, msg), ![q].kept = IF msg = "frame" THEN @ + 1 ELSE @]
  <2>1. PICK n : n = IF msg = "frame" THEN c.kept + 1 ELSE c.kept
    OBVIOUS
  <2>2. PICK s \in Seq(Msg) : s = c.fromAgent
    BY <1>1 DEF ConnRecord
  <2>3. PICK u : u = Append(s, msg)
    OBVIOUS
  <2>4. u \in Seq(Msg) /\ Len(u) <= ConnChanBounds /\ msg \in Msg
    BY <1>8, <2>2, <2>3, KubeProxyAssumption
  <2>5. PICK d : d = [c EXCEPT !.fromAgent = u, !.kept = n]
    OBVIOUS
  <2>6. n \in Nat
    BY <1>1, <2>1 DEF ConnRecord
  <2>7. d \in ConnRecord /\ d.fromAgent = u /\ d.kept = n /\ d.reason = c.reason
    BY <1>1, <2>4, <2>5, <2>6 DEF ConnRecord
  <2>8. d.in = c.in
    BY <1>1, <2>5 DEF ConnRecord
  <2>9. conn' = [conn EXCEPT ![q] = d]
    BY <1>8, <2>1, <2>2, <2>3, <2>5
  <2>10. QED
    BY <2>1, <2>2, <2>3, <2>4, <2>7, <2>8, <2>9
<1>9. QED
  BY <1>4, <1>5, <1>6, <1>7, <1>8 DEF route

\* The agent answers an open, sends a frame or ends its response.
LEMMA AgentMoves ==
  ASSUME RequestsOK, NEW q \in ProxyConn, NEW msg \in Msg \cup {"close"}, route(q, msg),
         NEW n \in RemoteRecord, remote' = [remote EXCEPT ![q] = n], request' = request,
         n.told = remote[q].told,
         \/ msg \in {"result", "error"} /\ remote[q].pc = "dial" /\ n.pc \in {"body", "done"} /\ n.sent = remote[q].sent
         \/ msg = "frame" /\ remote[q].pc = "body" /\ n.pc = "body" /\ n.sent = remote[q].sent + 1
         \/ msg \in {"halfclose", "close"} /\ remote[q].pc = "body" /\ n.pc = "done" /\ n.sent = remote[q].sent
  PROVE  MovesSoundly(q)
<1> DEFINE r == request[q]
           c == conn[q]
           m == remote[q]
<1>1. PICK d \in ConnRecord :
         /\ conn' = [conn EXCEPT ![q] = d] /\ d.in = c.in /\ Len(d.fromAgent) <= ConnChanBounds
         /\ c.reason # "none" => d.reason = c.reason
         /\ \/ /\ d.fromAgent = c.fromAgent /\ d.kept = c.kept
               /\ d.reason = "agent" => c.reason = "agent" \/ msg = "close"
               /\ c.in /\ msg # "close" => ConnChanBounds <= Len(c.fromAgent) \/ msg = "frame"
            \/ /\ msg \in Msg /\ d.fromAgent = Append(c.fromAgent, msg) /\ d.reason = c.reason
               /\ d.kept = IF msg = "frame" THEN c.kept + 1 ELSE c.kept
  BY Routed
<1>2. RequestOK(r, c, m) /\ r \in RequestRecord /\ c \in ConnRecord /\ m \in RemoteRecord
  BY RequestFacts DEF Sound
<1>3. r.pc \in {"await", "stream", "finish", "remove"}
  BY <1>2 DEF RequestOK, RequestPlaced, RequestRecord, Phase
<1>4. RequestPlaced(r, d, n)
  <2>1. r.pc \in {"await", "stream", "finish"} => d.in
    BY <1>1, <1>2 DEF RequestOK, RequestPlaced
  <2>2. QED
    BY <1>1, <1>2, <1>3, <2>1 DEF RequestOK, RequestPlaced
<1>5. c.kept \in Nat /\ d.kept \in Nat /\ m.sent \in Nat /\ n.sent \in Nat /\ r.wrote \in Nat
  BY <1>2, KubeProxyAssumption DEF ConnRecord, RemoteRecord, RequestRecord
<1>6. /\ c.kept <= m.sent /\ r.wrote <= c.kept /\ c.reason # "agent"
      /\ r.pc = "await" /\ c.fromAgent = <<>> => c.kept = 0 /\ m.pc # "body"
      /\ r.pc = "await" /\ c.fromAgent # <<>> =>
            /\ Head(c.fromAgent) \in {"result", "error"} /\ m.pc \in {"body", "done"}
            /\ FramesIn(c.fromAgent) = c.kept
      /\ r.pc = "await" => r.wrote = 0
      /\ r.pc = "stream" => m.pc \in {"body", "done"} /\ r.wrote + FramesIn(c.fromAgent) = c.kept
      /\ r.end = "closed" => c.reason # "none"
  BY <1>2 DEF RequestOK, FramesCounted
<1>7. d.kept <= n.sent /\ r.wrote <= d.kept
  <2>1. d.kept = c.kept \/ (d.kept = c.kept + 1 /\ msg = "frame")
    BY <1>1
  <2>2. n.sent = m.sent \/ n.sent = m.sent + 1
    OBVIOUS
  <2>3. d.kept = c.kept + 1 => n.sent = m.sent + 1
    <3>1. c.kept # c.kept + 1
      BY <1>5
    <3>2. QED
      BY <2>1, <3>1
  <2> HIDE DEF c, m, r
  <2>4. QED
    BY <1>5, <1>6, <2>1, <2>2, <2>3
<1>8. PICK s \in Seq(Msg) : s = c.fromAgent
  BY <1>2 DEF ConnRecord
<1>9. \/ d.fromAgent = s /\ d.kept = c.kept
      \/ d.fromAgent # <<>> /\ (s # <<>> => Head(d.fromAgent) = Head(s)) /\ FramesIn(d.fromAgent) - d.kept = FramesIn(s) - c.kept
  <2>1. CASE d.fromAgent = s /\ d.kept = c.kept
    BY <2>1
  <2>2. CASE /\ msg \in Msg /\ d.fromAgent = Append(s, msg)
             /\ d.kept = IF msg = "frame" THEN c.kept + 1 ELSE c.kept
    <3>1. Append(s, msg) # <<>> /\ (s # <<>> => Head(Append(s, msg)) = Head(s))
      BY <2>2
    <3>2. PICK k, l : k = FramesIn(s) /\ l = FramesIn(Append(s, msg))
      OBVIOUS
    <3>3. k \in Nat /\ l = k + IF msg = "frame" THEN 1 ELSE 0
      BY <2>2, <3>2, FramesAppend, FramesFinite
    <3> HIDE DEF c
    <3>4. l - d.kept = k - c.kept
      <4>1. CASE msg = "frame"
        <5>1. PICK x, y : x = c.kept /\ y = d.kept
          OBVIOUS
        <5>2. x \in Nat /\ y = x + 1 /\ l = k + 1
          BY <1>5, <2>2, <3>3, <4>1, <5>1
        <5>3. l - y = k - x
          BY <3>3, <5>2
        <5>4. QED
          BY <5>1, <5>3
      <4>2. CASE msg # "frame"
        BY <1>5, <2>2, <3>3, <4>2
      <4>3. QED
        BY <4>1, <4>2
    <3>5. QED
      BY <2>2, <3>1, <3>2, <3>4
  <2>3. QED
    BY <1>1, <1>8, <2>1, <2>2
<1>10. FramesIn(s) \in Nat /\ FramesIn(d.fromAgent) \in Nat
  BY FramesFinite DEF ConnRecord
<1>11. r.pc = "await" /\ d.fromAgent = <<>> => d.kept = 0 /\ n.pc # "body"
  <2>1. SUFFICES ASSUME r.pc = "await", d.fromAgent = <<>> PROVE FALSE
    OBVIOUS
  <2>2. s = <<>> /\ d.fromAgent = c.fromAgent
    BY <1>1, <1>8, <1>9, <2>1
  <2>3. m.pc = "dial" /\ msg \in {"result", "error"}
    BY <1>6, <1>8, <2>1, <2>2
  <2>4. c.in
    BY <1>2, <2>1 DEF RequestOK, RequestPlaced
  <2>5. d.fromAgent # Append(s, msg)
    BY <2>1, <2>3 DEF Msg
  <2>6. ConnChanBounds <= Len(s)
    BY <1>1, <1>8, <2>3, <2>4, <2>5
  <2>7. QED
    BY <2>2, <2>6, KubeProxyAssumption
<1>12. r.pc = "await" /\ d.fromAgent # <<>> =>
          Head(d.fromAgent) \in {"result", "error"} /\ n.pc \in {"body", "done"} /\ FramesIn(d.fromAgent) = d.kept
  <2>1. SUFFICES ASSUME r.pc = "await", d.fromAgent # <<>>
                 PROVE  Head(d.fromAgent) \in {"result", "error"} /\ FramesIn(d.fromAgent) = d.kept
    OBVIOUS
  <2>2. CASE s # <<>>
    <3>1. FramesIn(s) = c.kept /\ Head(s) \in {"result", "error"}
      BY <1>6, <1>8, <2>1, <2>2
    <3>2. CASE d.fromAgent = s /\ d.kept = c.kept
      BY <3>1, <3>2
    <3>3. CASE Head(d.fromAgent) = Head(s) /\ FramesIn(d.fromAgent) - d.kept = FramesIn(s) - c.kept
      <4>1. PICK k, l : k = FramesIn(s) /\ l = FramesIn(d.fromAgent)
        OBVIOUS
      <4>2. l - d.kept = k - c.kept /\ k = c.kept /\ k \in Nat /\ l \in Nat
        BY <1>10, <3>1, <3>3, <4>1
      <4> HIDE DEF c
      <4>3. l = d.kept
        BY <1>5, <4>2
      <4>4. QED
        BY <3>1, <3>3, <4>1, <4>3
    <3>4. QED
      BY <1>9, <2>2, <3>2, <3>3
  <2>3. CASE s = <<>>
    <3>1. d.fromAgent = Append(s, msg) /\ msg \in {"result", "error"} /\ d.kept = c.kept /\ c.kept = 0
      BY <1>1, <1>6, <1>8, <2>1, <2>3
    <3>2. Head(Append(s, msg)) = msg
      BY <2>3
    <3>3. FramesIn(s) = 0
      BY <2>3, FramesFinite
    <3>4. FramesIn(Append(s, msg)) = 0
      BY <3>1, <3>3, FramesAppend DEF Msg
    <3>5. QED
      BY <3>1, <3>2, <3>4
  <2>4. QED
    BY <2>2, <2>3
<1>13. r.pc = "stream" => n.pc \in {"body", "done"} /\ r.wrote + FramesIn(d.fromAgent) = d.kept
  <2>1. SUFFICES ASSUME r.pc = "stream" PROVE r.wrote + FramesIn(d.fromAgent) = d.kept
    OBVIOUS
  <2>2. r.wrote + FramesIn(s) = c.kept
    BY <1>6, <1>8, <2>1
  <2>3. CASE d.fromAgent = s /\ d.kept = c.kept
    BY <2>2, <2>3
  <2>4. CASE FramesIn(d.fromAgent) - d.kept = FramesIn(s) - c.kept
    <3>1. PICK k, l, w, x, y : k = FramesIn(s) /\ l = FramesIn(d.fromAgent) /\ w = r.wrote /\ x = c.kept /\ y = d.kept
      OBVIOUS
    <3>2. l - y = k - x /\ w + k = x /\ w \in Nat /\ k \in Nat /\ l \in Nat /\ x \in Nat /\ y \in Nat
      BY <1>5, <1>10, <2>2, <2>4, <3>1
    <3>3. w + l = y
      BY <3>2
    <3>4. QED
      BY <3>1, <3>3
  <2>5. QED
    BY <1>9, <2>3, <2>4
<1>14. d.reason = "agent" => n.pc = "done"
  BY <1>1, <1>6
<1>15. r.end = "closed" => d.reason # "none" /\ d.reason # "agent"
  BY <1>1, <1>6
<1>16. FramesCounted(r, d, n)
  BY <1>6, <1>7, <1>11, <1>12, <1>13, <1>14, <1>15 DEF FramesCounted
<1>17. NotStranded(r, d)
  BY <1>1, RequestFacts DEF Sound, NotStranded
<1>18. NotOrphaned(r, n)
  <2>1. NotOrphaned(r, m)
    BY RequestFacts DEF Sound
  <2>2. m.pc \in {"dial", "body"}
    OBVIOUS
  <2>3. QED
    BY <2>1, <2>2 DEF NotOrphaned
<1>19. QED
  BY <1>1, <1>2, <1>4, <1>16, <1>17, <1>18, RequestFacts DEF MovesSoundly, Becomes, Sound, RequestOK

\* Whatever the agent does.
LEMMA AgentSound ==
  ASSUME RequestsOK, NEW q \in ProxyConn, AgentSends(q) \/ AgentStops(q)
  PROVE  MovesSoundly(q)
<1> DEFINE r == request[q]
           c == conn[q]
           m == remote[q]
<1>1. m \in RemoteRecord /\ RequestOK(r, c, m)
  BY RequestFacts DEF Sound
<1>2. ASSUME NEW pc \in {"body", "done"}
      PROVE  \E n \in RemoteRecord : n = [m EXCEPT !.pc = pc] /\ n.pc = pc /\ n.sent = m.sent /\ n.told = m.told
  <2>1. PICK n : n = [m EXCEPT !.pc = pc]
    OBVIOUS
  <2>2. n \in RemoteRecord /\ n.pc = pc /\ n.sent = m.sent
    BY <1>1, <2>1 DEF RemoteRecord
  <2>3. n.told = m.told
    BY <1>1, <2>1 DEF RemoteRecord
  <2>4. QED
    BY <2>1, <2>2, <2>3
<1>3. ASSUME NEW msg \in {"result", "error"}, NEW pc \in {"body", "done"}, m.pc = "dial", route(q, msg),
             remote' = [remote EXCEPT ![q].pc = pc], request' = request
      PROVE  MovesSoundly(q)
  <2>1. PICK n \in RemoteRecord : n = [m EXCEPT !.pc = pc] /\ n.pc = pc /\ n.sent = m.sent /\ n.told = m.told
    BY <1>2
  <2>2. remote' = [remote EXCEPT ![q] = n] /\ msg \in Msg \cup {"close"}
    BY <1>3, <2>1 DEF Msg
  <2>3. QED
    BY <1>3, <2>1, <2>2, AgentMoves
<1>4. CASE /\ m.pc = "body" /\ m.sent < MaxTunnelFrames /\ route(q, "frame") /\ request' = request
           /\ remote' = [remote EXCEPT ![q].sent = @ + 1]
  <2>1. PICK n : n = [m EXCEPT !.sent = m.sent + 1]
    OBVIOUS
  <2>2. m.sent + 1 \in 0 .. MaxTunnelFrames
    BY <1>1, <1>4, KubeProxyAssumption DEF RemoteRecord
  <2>3. n \in RemoteRecord /\ n.pc = m.pc /\ n.sent = m.sent + 1
    BY <1>1, <2>1, <2>2 DEF RemoteRecord
  <2>4. n.told = m.told
    BY <1>1, <2>1 DEF RemoteRecord
  <2>5. remote' = [remote EXCEPT ![q] = n]
    BY <1>4, <2>1
  <2>6. "frame" \in Msg \cup {"close"}
    BY DEF Msg
  <2>7. QED
    BY <1>4, <2>3, <2>4, <2>5, <2>6, AgentMoves
<1>5. ASSUME NEW msg \in {"halfclose", "close"}, m.pc = "body", route(q, msg),
             remote' = [remote EXCEPT ![q].pc = "done"], request' = request
      PROVE  MovesSoundly(q)
  <2>1. PICK n \in RemoteRecord : n = [m EXCEPT !.pc = "done"] /\ n.pc = "done" /\ n.sent = m.sent /\ n.told = m.told
    BY <1>2
  <2>2. remote' = [remote EXCEPT ![q] = n] /\ msg \in Msg \cup {"close"}
    BY <1>5, <2>1 DEF Msg
  <2>3. QED
    BY <1>5, <2>1, <2>2, AgentMoves
<1>6. CASE AgentStops(q)
  <2>1. PICK n \in RemoteRecord : n = [m EXCEPT !.pc = "done"] /\ n.pc = "done" /\ n.sent = m.sent /\ n.told = m.told
    BY <1>2
  <2>2. /\ remote' = [remote EXCEPT ![q] = n] /\ request' = request /\ conn' = conn /\ m.pc \in {"dial", "body"}
    BY <1>6, <2>1 DEF AgentStops
  <2>3. RequestOK(r, c, n)
    BY <1>1, <2>1, <2>2 DEF RequestOK, RequestPlaced, FramesCounted
  <2>4. NotStranded(r, c) /\ NotOrphaned(r, n)
    BY <2>1, RequestFacts DEF Sound, NotOrphaned
  <2>5. QED
    BY <2>2, <2>3, <2>4, RequestFacts DEF MovesSoundly, Becomes, Sound
<1>7. CASE AgentSends(q)
  BY <1>3, <1>4, <1>5, <1>7 DEF AgentSends
<1>8. QED
  BY <1>6, <1>7

\* A step of a request moves it soundly, and changes nothing of the streams.
LEMMA RequestMoves ==
  ASSUME RequestsOK, SessionsOK, NEW q \in ProxyConn,
         RequestStep(q) \/ pumpToAgent(q) \/ AgentSends(q) \/ AgentStops(q)
  PROVE  /\ MovesSoundly(q) /\ UNCHANGED <<tunnelVars, watch, linkLosses>>
         /\ \/ UNCHANGED flagVars \/ ReadFlag(q, "cluster")
            \/ \E v \in FlagValue : ResolvesTo(q, "cluster", v)
<1>1. MovesSoundly(q)
  BY BeforeSession, GetSessionSound, AllocSound, SendOpenSound, AwaitEnds, OpenResultSound, WriteFrameSound,
     ConnClosedSound, MaxLifetimeSound, FinishSound, RemoveSound, PumpSound, AgentSound
  DEF RequestStep
<1>2. UNCHANGED <<tunnelVars, watch, linkLosses>>
  BY DEF RequestStep, RequestReadsFlag, RequestAdmitted, GetSession, alloc, SendOpen, OpenFails, OpenTimesOut,
         OpenResult, WriteFrame, ConnClosed, MaxLifetime, Finish, remove, pumpToAgent, AgentSends, AgentStops, RequestSame
<1>3. \/ UNCHANGED flagVars \/ ReadFlag(q, "cluster")
      \/ \E v \in FlagValue : ResolvesTo(q, "cluster", v)
  BY DEF RequestStep, RequestReadsFlag, RequestAdmitted, GetSession, alloc, SendOpen, OpenFails, OpenTimesOut,
         OpenResult, WriteFrame, ConnClosed, MaxLifetime, Finish, remove, pumpToAgent, AgentSends, AgentStops
<1>4. QED
  BY <1>1, <1>2, <1>3
LEMMA RequestsKept ==
  ASSUME RequestsOK, NEW q \in ProxyConn, MovesSoundly(q), UNCHANGED <<tunnelVars, watch, linkLosses>>
  PROVE  RequestsOK'
<1>1. PICK r, c, m : Becomes(q, r, c, m) /\ Sound(r, c, m)
  BY DEF MovesSoundly
<1>2. r \in RequestRecord /\ c \in ConnRecord /\ m \in RemoteRecord
  BY <1>1 DEF Sound, RequestOK, RequestPlaced
<1>3. /\ request' \in [ProxyConn -> RequestRecord] /\ conn' \in [ProxyConn -> ConnRecord]
      /\ remote' \in [ProxyConn -> RemoteRecord]
  BY <1>1, <1>2 DEF Becomes, RequestsOK
<1>4. ASSUME NEW p \in ProxyConn
      PROVE  Sound(request'[p], conn'[p], remote'[p])
  <2>1. CASE p = q
    BY <1>1, <2>1 DEF Becomes, RequestsOK
  <2>2. CASE p # q
    <3>1. request'[p] = request[p] /\ conn'[p] = conn[p] /\ remote'[p] = remote[p]
      BY <1>1, <2>2 DEF Becomes, RequestsOK
    <3>2. QED
      BY <3>1, RequestFacts
  <2>3. QED
    BY <2>1, <2>2
<1>5. ASSUME NEW p \in ProxyConn
      PROVE  /\ RequestOK(request[p], conn[p], remote[p])'
             /\ NotStranded(request[p], conn[p])' /\ NotOrphaned(request[p], remote[p])'
  <2>1. RequestOK(request[p], conn[p], remote[p])'
    BY <1>4 DEF Sound
  <2>2. NotStranded(request[p], conn[p])' /\ NotOrphaned(request[p], remote[p])'
    BY <1>4 DEF Sound, NotStranded, NotOrphaned, Closed, tunnelVars
  <2>3. QED
    BY <2>1, <2>2
<1>6. QED
  BY <1>3, <1>5 DEF RequestsOK

-----------------------------------------------------------------------------
(* KubeProxy: the streams and the watcher *)

\* No request waits on a session that closes, nor is left to a new stream.
NoneLeft(s) == \A q \in ProxyConn : request[q].sess # s
ClosesSoundly ==
    /\ UNCHANGED <<request, remote>>
    /\ \A s \in Tunnel : s \notin cancelled' /\ link'[s] = "up" => (s \notin cancelled /\ link[s] = "up") \/ NoneLeft(s)
    /\ \/ /\ UNCHANGED conn /\ \A s \in Tunnel : Closed(s)' => Closed(s) \/ NoneLeft(s)
       \/ \E v \in Tunnel \cup {NoTunnel}, reason \in Reason \ {"none", "agent"} :
             /\ closeAll(v, reason) /\ \A s \in Tunnel \ {v} : Closed(s)' => Closed(s) \/ NoneLeft(s)
LEMMA ClosingKeeps ==
  ASSUME RequestsOK, ClosesSoundly
  PROVE  RequestsOK'
<1>1. PICK C : C = {s \in Tunnel : Closed(s)'}
  OBVIOUS
<1>2. ASSUME NEW q \in ProxyConn, NEW d \in ConnRecord, d.in = conn[q].in, d.fromAgent = conn[q].fromAgent,
             d.kept = conn[q].kept, d.reason = conn[q].reason \/ (conn[q].reason = "none" /\ d.reason # "agent"),
             request[q].pc \in {"await", "stream"} /\ request[q].sess \in C =>
                d.reason # "none" \/ Closed(request[q].sess) \/ NoneLeft(request[q].sess),
             conn'[q] = d
      PROVE  /\ RequestOK(request[q], conn[q], remote[q])'
             /\ NotStranded(request[q], conn[q])' /\ NotOrphaned(request[q], remote[q])'
  <2> DEFINE r == request[q]
             c == conn[q]
             m == remote[q]
  <2>1. r = request'[q] /\ m = remote'[q]
    BY DEF ClosesSoundly
  <2>2. RequestOK(r, c, m) /\ NotStranded(r, c) /\ NotOrphaned(r, m)
    BY RequestFacts DEF Sound
  <2>3. RequestPlaced(r, d, m)
    <3>1. r.pc \in {"open", "await", "stream", "finish"} => d.in
      BY <1>2, <2>2 DEF RequestOK, RequestPlaced
    <3>2. QED
      BY <1>2, <2>2, <3>1 DEF RequestOK, RequestPlaced
  <2>4. FramesCounted(r, d, m)
    BY <1>2, <2>2 DEF RequestOK, FramesCounted
  <2>5. r.pc \in {"await", "stream"} /\ r.sess \in C => d.reason # "none"
    BY <1>2, <2>2 DEF NotStranded, NoneLeft
  <2>6. r.pc \in {"await", "stream"} => r.sess \in Tunnel
    BY <2>2 DEF RequestOK, RequestPlaced
  <2>7. NotStranded(request[q], conn[q])'
    BY <1>1, <1>2, <2>1, <2>5, <2>6 DEF NotStranded
  <2>8. r.pc = "remove" => r.sess \in Tunnel
    BY <2>2 DEF RequestOK, RequestPlaced
  <2>9. NotOrphaned(request[q], remote[q])'
    BY <2>1, <2>2, <2>8 DEF NotOrphaned, ClosesSoundly, NoneLeft
  <2>10. RequestOK(request[q], conn[q], remote[q])'
    BY <1>2, <2>1, <2>3, <2>4 DEF RequestOK
  <2>11. QED
    BY <2>7, <2>9, <2>10
<1>3. CASE UNCHANGED conn /\ \A s \in Tunnel : Closed(s)' => Closed(s) \/ NoneLeft(s)
  <2>1. \A s \in C : Closed(s) \/ NoneLeft(s)
    BY <1>1, <1>3
  <2>2. ASSUME NEW q \in ProxyConn
        PROVE  /\ RequestOK(request[q], conn[q], remote[q])'
               /\ NotStranded(request[q], conn[q])' /\ NotOrphaned(request[q], remote[q])'
    BY <1>2, <1>3, <2>1, RequestFacts
  <2>3. QED
    BY <1>3, <2>2 DEF RequestsOK, ClosesSoundly
<1>4. ASSUME NEW v \in Tunnel \cup {NoTunnel}, NEW reason \in Reason \ {"none", "agent"}, closeAll(v, reason),
             \A s \in Tunnel \ {v} : Closed(s)' => Closed(s) \/ NoneLeft(s)
      PROVE  RequestsOK'
  <2>1. \A s \in C : s = v \/ Closed(s) \/ NoneLeft(s)
    BY <1>1, <1>4
  <2>2. ASSUME NEW q \in ProxyConn
        PROVE  \E d \in ConnRecord :
                  /\ d.in = conn[q].in /\ d.fromAgent = conn[q].fromAgent /\ d.kept = conn[q].kept
                  /\ d.reason = conn[q].reason \/ (conn[q].reason = "none" /\ d.reason # "agent")
                  /\ conn[q].in /\ request[q].sess = v => d.reason # "none"
                  /\ conn'[q] = d
    <3>1. conn[q] \in ConnRecord
      BY RequestFacts
    <3>2. conn'[q] = IF conn[q].in /\ request[q].sess = v THEN CloseConn(conn[q], reason) ELSE conn[q]
      BY <1>4 DEF closeAll
    <3>3. CASE conn[q].in /\ request[q].sess = v
      <4>1. PICK d : d = CloseConn(conn[q], reason)
        OBVIOUS
      <4>2. /\ d \in ConnRecord /\ d.in = conn[q].in /\ d.fromAgent = conn[q].fromAgent /\ d.kept = conn[q].kept
            /\ d.reason = IF conn[q].reason = "none" THEN reason ELSE conn[q].reason
        BY <3>1, <4>1, ClosedConn
      <4>3. conn'[q] = d
        BY <3>2, <3>3, <4>1
      <4>4. QED
        BY <4>2, <4>3
    <3>4. CASE ~(conn[q].in /\ request[q].sess = v)
      BY <3>1, <3>2, <3>4
    <3>5. QED
      BY <3>3, <3>4
  <2>3. ASSUME NEW q \in ProxyConn
        PROVE  /\ conn'[q] \in ConnRecord /\ RequestOK(request[q], conn[q], remote[q])'
               /\ NotStranded(request[q], conn[q])' /\ NotOrphaned(request[q], remote[q])'
    <3>1. PICK d \in ConnRecord :
             /\ d.in = conn[q].in /\ d.fromAgent = conn[q].fromAgent /\ d.kept = conn[q].kept
             /\ d.reason = conn[q].reason \/ (conn[q].reason = "none" /\ d.reason # "agent")
             /\ conn[q].in /\ request[q].sess = v => d.reason # "none"
             /\ conn'[q] = d
      BY <2>2
    <3>2. request[q].pc \in {"await", "stream"} => conn[q].in
      BY RequestFacts DEF Sound, RequestOK, RequestPlaced
    <3>3. request[q].pc \in {"await", "stream"} /\ request[q].sess \in C =>
             d.reason # "none" \/ Closed(request[q].sess) \/ NoneLeft(request[q].sess)
      BY <2>1, <3>1, <3>2
    <3>4. QED
      BY <1>2, <3>1, <3>3
  <2>4. conn' \in [ProxyConn -> ConnRecord]
    BY <1>4, <2>3 DEF closeAll
  <2>5. QED
    BY <2>3, <2>4 DEF RequestsOK, ClosesSoundly
<1>5. QED
  BY <1>3, <1>4 DEF ClosesSoundly

\* The steps of a stream.
LEMMA DialSound ==
  ASSUME SessionsOK, LiveIsCurrent, NEW s \in Tunnel, Dial(s) \/ LinkBreaks(s)
  PROVE  SessionsOK' /\ LiveIsCurrent' /\ ClosesSoundly
<1>1. CASE Dial(s)
  <2>1. SessionsOK'
    BY <1>1 DEF Dial, FreeTunnel, SessionsOK
  <2>2. LiveIsCurrent'
    BY <1>1 DEF Dial, SessionsOK, LiveIsCurrent
  <2>3. NoneLeft(s)
    BY <1>1 DEF Dial, FreeTunnel, NoneLeft
  <2>4. ClosesSoundly
    BY <1>1, <2>3 DEF Dial, SessionsOK, ClosesSoundly, requestVars, Closed
  <2>5. QED
    BY <2>1, <2>2, <2>4
<1>2. CASE LinkBreaks(s)
  <2>1. SessionsOK'
    BY <1>2, KubeProxyAssumption DEF LinkBreaks, SessionsOK
  <2>2. LiveIsCurrent' /\ ClosesSoundly
    BY <1>2 DEF LinkBreaks, SessionsOK, LiveIsCurrent, ClosesSoundly, requestVars, Closed
  <2>3. QED
    BY <2>1, <2>2
<1>3. QED
  BY <1>1, <1>2
LEMMA AdmitSound ==
  ASSUME SessionsOK, LiveIsCurrent, NEW s \in Tunnel, ConnectReadsFlag(s) \/ ConnectAdmits(s) \/ StreamEnds(s)
  PROVE  SessionsOK' /\ LiveIsCurrent' /\ ClosesSoundly
<1>1. CASE ConnectReadsFlag(s)
  BY <1>1 DEF ConnectReadsFlag, tunnelVars, requestVars, SessionsOK, LiveIsCurrent, ClosesSoundly, Closed
<1>2. CASE ConnectAdmits(s) \/ StreamEnds(s)
  <2>1. /\ tunnel[s] \in {"flag", "loop"} /\ \E pc \in {"register", "none", "unregister"} : tunnel' = [tunnel EXCEPT ![s] = pc]
        /\ link' = link \/ link' = [link EXCEPT ![s] = "none"]
        /\ UNCHANGED <<victim, current, cancelled, watch, requestVars, linkLosses>>
    BY <1>2 DEF ConnectAdmits, StreamEnds, ReceiveFails
  <2>2. PICK pc \in {"register", "none", "unregister"} : tunnel' = [tunnel EXCEPT ![s] = pc]
    BY <2>1
  <2>3. SessionsOK'
    BY <2>1, <2>2 DEF SessionsOK
  <2>4. LiveIsCurrent'
    BY <2>1, <2>2 DEF SessionsOK, LiveIsCurrent
  <2>5. ClosesSoundly
    BY <2>1, <2>2 DEF SessionsOK, ClosesSoundly, requestVars, Closed
  <2>6. QED
    BY <2>3, <2>4, <2>5
<1>3. QED
  BY <1>1, <1>2
LEMMA RegisterSound ==
  ASSUME SessionsOK, LiveIsCurrent, NEW s \in Tunnel, RegisterTunnel(s) \/ UnregisterTunnel(s)
  PROVE  SessionsOK' /\ LiveIsCurrent' /\ ClosesSoundly
<1>1. CASE RegisterTunnel(s)
  <2>1. PICK pc : pc = IF current = NoTunnel THEN "loop" ELSE "evict"
    OBVIOUS
  <2>2. /\ tunnel[s] = "register" /\ tunnel' = [tunnel EXCEPT ![s] = pc] /\ current' = s
        /\ victim' = [victim EXCEPT ![s] = current] /\ cancelled' = cancelled \cup ({current} \ {NoTunnel})
        /\ UNCHANGED <<link, watch, requestVars, linkLosses>>
    BY <1>1, <2>1 DEF RegisterTunnel
  <2>3. SessionsOK'
    BY <2>1, <2>2, KubeProxyAssumption DEF SessionsOK
  <2>4. LiveIsCurrent'
    BY <2>1, <2>2, KubeProxyAssumption DEF SessionsOK, LiveIsCurrent
  <2>5. ClosesSoundly
    <3>1. victim[s] = NoTunnel
      BY <2>2 DEF SessionsOK
    <3>2. \A t \in Tunnel : Closed(t)' => Closed(t)
      BY <2>1, <2>2, <3>1, KubeProxyAssumption DEF SessionsOK, Closed
    <3>3. QED
      BY <2>2, <3>2 DEF ClosesSoundly, requestVars
  <2>6. QED
    BY <2>3, <2>4, <2>5
<1>2. CASE UnregisterTunnel(s)
  <2>1. /\ tunnel[s] = "unregister" /\ tunnel' = [tunnel EXCEPT ![s] = "close"]
        /\ current' = IF current = s THEN NoTunnel ELSE current
        /\ UNCHANGED <<link, victim, cancelled, watch, requestVars, linkLosses>>
    BY <1>2 DEF UnregisterTunnel
  <2>2. SessionsOK'
    BY <2>1 DEF SessionsOK
  <2>3. LiveIsCurrent'
    BY <2>1 DEF SessionsOK, LiveIsCurrent
  <2>4. ClosesSoundly
    BY <2>1 DEF SessionsOK, ClosesSoundly, requestVars, Closed
  <2>5. QED
    BY <2>2, <2>3, <2>4
<1>3. QED
  BY <1>1, <1>2
LEMMA TeardownSound ==
  ASSUME SessionsOK, LiveIsCurrent, NEW s \in Tunnel, Evict(s) \/ Teardown(s)
  PROVE  SessionsOK' /\ LiveIsCurrent' /\ ClosesSoundly
<1>1. CASE Evict(s)
  <2>1. /\ tunnel[s] = "evict" /\ tunnel' = [tunnel EXCEPT ![s] = "loop"] /\ closeAll(victim[s], "evicted by reconnect")
        /\ victim' = [victim EXCEPT ![s] = NoTunnel] /\ UNCHANGED <<link, current, cancelled, watch, request, remote, linkLosses>>
    BY <1>1 DEF Evict
  <2>2. SessionsOK'
    BY <2>1 DEF SessionsOK
  <2>3. LiveIsCurrent'
    BY <2>1 DEF SessionsOK, LiveIsCurrent
  <2>4. ClosesSoundly
    <3>1. victim[s] \in Tunnel \cup {NoTunnel} /\ "evicted by reconnect" \in Reason \ {"none", "agent"}
      BY DEF SessionsOK, Reason
    <3>2. \A t \in Tunnel \ {victim[s]} : Closed(t)' => Closed(t)
      BY <2>1 DEF SessionsOK, Closed
    <3>3. QED
      BY <2>1, <3>1, <3>2 DEF ClosesSoundly
  <2>5. QED
    BY <2>2, <2>3, <2>4
<1>2. CASE /\ tunnel[s] = "close" /\ cancelled' = cancelled \cup {s} /\ tunnel' = [tunnel EXCEPT ![s] = "closeAll"]
           /\ UNCHANGED <<flagVars, link, victim, current, watch, requestVars, linkLosses>>
  <2>1. SessionsOK'
    BY <1>2 DEF SessionsOK
  <2>2. LiveIsCurrent'
    BY <1>2 DEF SessionsOK, LiveIsCurrent
  <2>3. ClosesSoundly
    BY <1>2 DEF SessionsOK, ClosesSoundly, requestVars, Closed
  <2>4. QED
    BY <2>1, <2>2, <2>3
<1>3. CASE /\ tunnel[s] = "closeAll" /\ closeAll(s, "tunnel_closed") /\ tunnel' = [tunnel EXCEPT ![s] = "none"]
           /\ link' = [link EXCEPT ![s] = "none"]
           /\ UNCHANGED <<flagVars, victim, current, cancelled, watch, request, remote, linkLosses>>
  <2>1. SessionsOK'
    BY <1>3 DEF SessionsOK
  <2>2. LiveIsCurrent'
    BY <1>3 DEF SessionsOK, LiveIsCurrent
  <2>3. ClosesSoundly
    <3>1. "tunnel_closed" \in Reason \ {"none", "agent"}
      BY DEF Reason
    <3>2. \A t \in Tunnel \ {s} : Closed(t)' => Closed(t)
      BY <1>3 DEF SessionsOK, Closed
    <3>3. QED
      BY <1>3, <3>1, <3>2 DEF SessionsOK, ClosesSoundly
  <2>4. QED
    BY <2>1, <2>2, <2>3
<1>4. QED
  BY <1>1, <1>2, <1>3 DEF Teardown

\* The steps of the watcher.
LEMMA WatcherSound ==
  ASSUME SessionsOK, LiveIsCurrent, WatcherStep
  PROVE  SessionsOK' /\ LiveIsCurrent' /\ ClosesSoundly
<1>1. CASE Tick \/ WatcherLooks \/ Clusters
  <2>1. /\ watch.pc \in {"idle", "platform", "cluster", "clusters"} /\ UNCHANGED <<current, cancelled, requestVars, link, tunnel, victim, linkLosses>>
        /\ \E pc \in {"platform", "clusters", "closeCluster", "idle", "cluster"} : Watching(pc, NoTunnel)
    BY <1>1 DEF Tick, WatcherLooks, Clusters, WatcherSame
  <2>2. PICK pc \in {"platform", "clusters", "closeCluster", "idle", "cluster"} : watch' = [pc |-> pc, sess |-> NoTunnel]
    BY <2>1 DEF Watching
  <2>3. watch.sess = NoTunnel
    BY <2>1 DEF SessionsOK
  <2>4. SessionsOK'
    BY <2>1, <2>2 DEF SessionsOK
  <2>5. LiveIsCurrent'
    BY <2>1, <2>2, <2>3 DEF LiveIsCurrent
  <2>6. ClosesSoundly
    BY <2>1, <2>2, <2>3, KubeProxyAssumption DEF ClosesSoundly, requestVars, Closed
  <2>7. QED
    BY <2>4, <2>5, <2>6
<1>2. CASE WatcherReads
  BY <1>2 DEF WatcherReads, WatcherSame, requestVars, SessionsOK, LiveIsCurrent, ClosesSoundly, Closed
<1>3. CASE CloseCluster
  <2>1. PICK w : w = IF current = NoTunnel THEN [pc |-> "idle", sess |-> NoTunnel] ELSE [pc |-> "cancel", sess |-> current]
    OBVIOUS
  <2>2. /\ watch.pc = "closeCluster" /\ current' = NoTunnel /\ watch' = w
        /\ UNCHANGED <<cancelled, requestVars, link, tunnel, victim, linkLosses>>
    BY <1>3, <2>1 DEF CloseCluster, Watching, WatcherSame
  <2>3. watch.sess = NoTunnel /\ w.sess = current /\ (current \in Tunnel => w.pc = "cancel")
    BY <2>1, <2>2, KubeProxyAssumption DEF SessionsOK
  <2>4. SessionsOK'
    BY <2>1, <2>2 DEF SessionsOK
  <2>5. LiveIsCurrent'
    BY <2>2, <2>3, KubeProxyAssumption DEF LiveIsCurrent
  <2>6. ClosesSoundly
    BY <2>2, <2>3, KubeProxyAssumption DEF ClosesSoundly, requestVars, Closed
  <2>7. QED
    BY <2>4, <2>5, <2>6
<1>4. CASE /\ watch.pc = "cancel" /\ Watching("closeAll", watch.sess) /\ cancelled' = cancelled \cup {watch.sess}
           /\ UNCHANGED <<flagVars, current, requestVars>> /\ WatcherSame
  <2>1. /\ watch' = [pc |-> "closeAll", sess |-> watch.sess] /\ UNCHANGED <<current, requestVars, link, tunnel, victim, linkLosses>>
    BY <1>4 DEF Watching, WatcherSame
  <2>2. SessionsOK'
    BY <1>4, <2>1 DEF SessionsOK
  <2>3. LiveIsCurrent'
    BY <1>4, <2>1 DEF LiveIsCurrent
  <2>4. ClosesSoundly
    BY <1>4, <2>1 DEF ClosesSoundly, requestVars, Closed
  <2>5. QED
    BY <2>2, <2>3, <2>4
<1>5. CASE /\ watch.pc = "closeAll" /\ Watching("idle", NoTunnel) /\ closeAll(watch.sess, "disabled")
           /\ UNCHANGED <<flagVars, current, cancelled, request, remote>> /\ WatcherSame
  <2>1. /\ watch' = [pc |-> "idle", sess |-> NoTunnel] /\ UNCHANGED <<current, cancelled, request, remote, link, tunnel, victim, linkLosses>>
    BY <1>5 DEF Watching, WatcherSame
  <2>2. SessionsOK'
    BY <2>1 DEF SessionsOK
  <2>3. LiveIsCurrent'
    BY <1>5, <2>1 DEF LiveIsCurrent, SessionsOK
  <2>4. ClosesSoundly
    <3>1. watch.sess \in Tunnel \cup {NoTunnel} /\ "disabled" \in Reason \ {"none", "agent"}
      BY DEF SessionsOK, Reason
    <3>2. \A t \in Tunnel \ {watch.sess} : Closed(t)' => Closed(t)
      BY <2>1 DEF Closed
    <3>3. QED
      BY <1>5, <2>1, <3>1, <3>2 DEF ClosesSoundly
  <2>5. QED
    BY <2>2, <2>3, <2>4
<1>6. QED
  BY <1>1, <1>2, <1>3, <1>4, <1>5 DEF WatcherStep, CloseSession

-----------------------------------------------------------------------------
(* KubeProxy: the theorems *)

\* Every step keeps the invariant.
LEMMA StreamsKeep ==
  ASSUME KubeProxyInv, StreamsNext \/ WatcherStep
  PROVE  KubeProxyInv'
<1> USE DEF KubeProxyInv
<1>1. SessionsOK' /\ LiveIsCurrent' /\ ClosesSoundly
  BY DialSound, AdmitSound, RegisterSound, TeardownSound, WatcherSound DEF StreamsNext, TunnelStep
<1>2. RequestsOK'
  BY <1>1, ClosingKeeps
<1>3. CASE StreamsNext
  <2>1. PICK s \in Tunnel : Dial(s) \/ LinkBreaks(s) \/ TunnelStep(s)
    BY <1>3 DEF StreamsNext
  <2>2. \/ UNCHANGED flagVars \/ ReadFlag(s, "cluster")
        \/ \E v \in FlagValue : ResolvesTo(s, "cluster", v)
    BY <2>1 DEF Dial, LinkBreaks, TunnelStep, ConnectReadsFlag, ConnectAdmits, RegisterTunnel, Evict, StreamEnds,
                UnregisterTunnel, Teardown
  <2>3. s \in FlagReader /\ "cluster" \in Scope
    BY KubeProxyAssumption DEF Scope
  <2>4. FlagsOK'
    BY <2>2, <2>3, FlagsKept
  <2>5. QED
    BY <1>1, <1>2, <2>4
<1>4. CASE WatcherStep
  <2>1. \/ UNCHANGED flagVars \/ \E s \in Scope : ReadFlag(Watcher, s)
        \/ \E s \in Scope, v \in FlagValue : ResolvesTo(Watcher, s, v)
    BY <1>4 DEF WatcherStep, Tick, WatcherReads, WatcherLooks, Clusters, CloseCluster, CloseSession, Scope
  <2>2. Watcher \in FlagReader
    BY KubeProxyAssumption
  <2>3. FlagsOK'
    BY <2>1, <2>2, FlagsKept
  <2>4. QED
    BY <1>1, <1>2, <2>3
<1>5. QED
  BY <1>3, <1>4
LEMMA RequestsKeep ==
  ASSUME KubeProxyInv, RequestsNext
  PROVE  KubeProxyInv'
<1> USE DEF KubeProxyInv
<1>1. PICK q \in ProxyConn : RequestStep(q) \/ pumpToAgent(q) \/ AgentSends(q) \/ AgentStops(q)
  BY DEF RequestsNext
<1>2. /\ MovesSoundly(q) /\ UNCHANGED <<tunnelVars, watch, linkLosses>>
      /\ \/ UNCHANGED flagVars \/ ReadFlag(q, "cluster")
         \/ \E v \in FlagValue : ResolvesTo(q, "cluster", v)
  BY <1>1, RequestMoves
<1>3. RequestsOK'
  BY <1>2, RequestsKept
<1>4. SessionsOK' /\ LiveIsCurrent'
  BY <1>2 DEF SessionsOK, LiveIsCurrent, tunnelVars
<1>5. q \in FlagReader /\ "cluster" \in Scope
  BY KubeProxyAssumption DEF Scope
<1>6. FlagsOK'
  BY <1>2, <1>5, FlagsKept
<1>7. QED
  BY <1>3, <1>4, <1>6
LEMMA OthersKeep ==
  ASSUME KubeProxyInv, FlagsStep \/ UNCHANGED kubeProxyVars
  PROVE  KubeProxyInv'
<1> USE DEF KubeProxyInv
<1>1. UNCHANGED <<tunnelVars, watch, requestVars, linkLosses>> /\ (FlagsNext \/ UNCHANGED flagVars)
  BY DEF FlagsStep, kubeProxyVars
<1>2. FlagsOK'
  BY <1>1, FlagsKept
<1>3. SessionsOK' /\ LiveIsCurrent' /\ ClosesSoundly
  BY <1>1 DEF SessionsOK, LiveIsCurrent, ClosesSoundly, Closed, tunnelVars, requestVars
<1>4. QED
  BY <1>2, <1>3, ClosingKeeps

\* What the run checks follows.
LEMMA KubectlFollows == KubeProxyInv => KubectlSafe
<1> SUFFICES ASSUME KubeProxyInv PROVE KubectlSafe
  OBVIOUS
<1> USE DEF KubeProxyInv
<1>1. ASSUME NEW q \in ProxyConn
      PROVE  /\ RequestOK(request[q], conn[q], remote[q]) /\ NotStranded(request[q], conn[q])
             /\ NotOrphaned(request[q], remote[q])
  BY RequestFacts DEF Sound
<1>2. KubeProxyTypeOK
  <2>1. ASSUME NEW q \in ProxyConn
        PROVE  /\ request[q].pc \in {"none", "session", "alloc", "open", "await", "stream", "finish", "remove", "done"}
               /\ request[q].sess \in Tunnel \cup {NoTunnel} /\ request[q].wrote \in 0..MaxTunnelFrames
               /\ Len(conn[q].fromAgent) <= ConnChanBounds /\ \A i \in DOMAIN conn[q].fromAgent : conn[q].fromAgent[i] \in Msg
               /\ remote[q].pc \in {"none", "dial", "body", "done"}
    <3>1. request[q] \in RequestRecord /\ conn[q] \in ConnRecord /\ remote[q] \in RemoteRecord
      BY RequestFacts
    <3>2. request[q].wrote <= conn[q].kept /\ conn[q].kept <= remote[q].sent
      BY <1>1 DEF RequestOK, FramesCounted
    <3>3. request[q].wrote \in 0..MaxTunnelFrames
      BY <3>1, <3>2, KubeProxyAssumption DEF RequestRecord, ConnRecord, RemoteRecord
    <3>4. \A i \in DOMAIN conn[q].fromAgent : conn[q].fromAgent[i] \in Msg
      BY <3>1 DEF ConnRecord
    <3>5. QED
      BY <1>1, <3>1, <3>3, <3>4 DEF RequestOK, RequestPlaced, RequestRecord, Phase, RemoteRecord
  <2>2. QED
    BY <2>1 DEF KubeProxyTypeOK, FlagsOK, SessionsOK
<1>3. NoStrandedRequest
  BY <1>1 DEF NoStrandedRequest, NotStranded
<1>4. TailWritten
  BY <1>1 DEF TailWritten, RequestOK, FramesCounted
<1>5. NoOrphanAtAgent
  BY <1>1 DEF NoOrphanAtAgent, NotOrphaned
<1>6. QED
  BY <1>2, <1>3, <1>4, <1>5 DEF KubectlSafe

\* The invariant holds in every state.
THEOREM KubeProxyInvariant == KubeProxySpec => []KubeProxyInv
<1>1. KubeProxyInit => KubeProxyInv
  <2> SUFFICES ASSUME KubeProxyInit PROVE KubeProxyInv
    OBVIOUS
  <2>1. FlagsOK
    BY FlagsBegin DEF KubeProxyInit
  <2>2. SessionsOK /\ LiveIsCurrent
    BY KubeProxyAssumption DEF KubeProxyInit, TunnelsInit, SessionsOK, LiveIsCurrent
  <2>3. RequestsOK
    BY OverSound DEF KubeProxyInit, TunnelsInit, RequestsOK, Sound
  <2>4. QED
    BY <2>1, <2>2, <2>3 DEF KubeProxyInv
<1>2. KubeProxyInv /\ [KubeProxyNext]_kubeProxyVars => KubeProxyInv'
  BY StreamsKeep, RequestsKeep, OthersKeep DEF KubeProxyNext
<1>3. QED
  BY <1>1, <1>2, PTL DEF KubeProxySpec

\* The tunnel of a cluster, the requests over it and the agent's side of them
\* agree: only the registered session is live, nothing waits on one that is
\* closed, a response that is reported complete is complete, and no request is
\* left to an agent that was not told (SessionRegistry, connMux, ServeHTTP).
THEOREM KubectlIsSafe == KubeProxySpec => []KubectlSafe
BY KubeProxyInvariant, KubectlFollows, PTL

-----------------------------------------------------------------------------
(* PlatformResources *)

ResourceCallRow ==
    [op : {"none", "register", "reconcile", "teardown"},
     pc : {"idle", "client", "render", "row", "mark", "commit", "notify", "record", "delete"},
     client : ClientResource, left : SUBSET (AnyCluster \cup RenderedFile), nonce : 0 .. MaxResourceRequests]

\* Rows, manifests, commands and calls are well formed.
ResourceDataOK ==
    /\ prRow \in [Resource -> PlatformResourceStatus \cup {"none"}]
    /\ everQueued \in [AnyCluster -> SUBSET (1 .. MaxResourceRequests)] /\ answered \subseteq 1 .. MaxResourceRequests
    /\ platformOrg \in BOOLEAN /\ clustersOf \subseteq AnyCluster /\ prAsked \in 0 .. MaxResourceRequests
    /\ prCall \in [ResourceCall -> ResourceCallRow]

\* Each kind of call has steps of its own, and only a reconcile carries a number.
ResourceShapeOK(r) ==
    /\ r.op = "none" => r.pc = "idle"
    /\ r.op = "register" => r.pc \in {"client", "render", "row", "mark"}
    /\ r.op = "reconcile" => r.pc \in {"commit", "notify", "record"} /\ r.nonce \in 1 .. MaxResourceRequests
    /\ r.op = "teardown" => r.pc \in {"commit", "delete"}

\* A manifest that is in the repository is one of the tenant's own, or has a row, or a registration
\* is about to write its row.
Recorded(r) ==
    \/ r \in RenderTenantFiles \/ (r \in ClientResource /\ prRow[r] # "none")
    \/ \E k \in ResourceCall : prCall[k].op = "register" /\ prCall[k].pc = "row" /\ prCall[k].client = r
FilesAccounted == ~prOverlap => \A r \in prFiles : Recorded(r)

\* A teardown that nothing ran beside removes what there is.
TeardownKnows ==
    ~prOverlap => \A k \in ResourceCall : prCall[k].op = "teardown" /\ prCall[k].pc = "delete" => prFiles \subseteq prCall[k].left

\* What a reconcile has sent is in the queue of each cluster it does not still have to come to.
ReconcileSent ==
    /\ \A c \in ResyncTargets : answered \subseteq everQueued[c]
    /\ \A k \in ResourceCall, c \in ResyncTargets :
          prCall[k].op = "reconcile" /\ prCall[k].pc \in {"notify", "record"} =>
              prCall[k].nonce \in everQueued[c] \/ (prCall[k].pc = "notify" /\ c \in prCall[k].left)

ResourceInv ==
    /\ ResourceDataOK /\ \A k \in ResourceCall : ResourceShapeOK(prCall[k])
    /\ FilesAccounted /\ TeardownKnows /\ ReconcileSent

LEMMA ResourceConstants ==
  /\ IdlePrCall \in ResourceCallRow /\ IdlePrCall.op = "none" /\ IdlePrCall.pc = "idle" /\ ResourceShapeOK(IdlePrCall)
  /\ ResyncTargets \subseteq clustersOf
<1>1. AClient \in ClientResource
  BY ResourceAssumption DEF AClient
<1>2. IdlePrCall \in ResourceCallRow /\ IdlePrCall.op = "none" /\ IdlePrCall.pc = "idle"
  BY <1>1, ResourceAssumption DEF IdlePrCall, ResourceCallRow
<1>3. QED
  BY <1>2 DEF ResourceShapeOK, ResyncTargets

LEMMA ResourceTyped ==
  ASSUME ResourceInv
  PROVE  /\ ResourceDataOK /\ prCall \in [ResourceCall -> ResourceCallRow]
         /\ \A k \in ResourceCall : prCall[k] \in ResourceCallRow /\ ResourceShapeOK(prCall[k])
         /\ prRow \in [Resource -> PlatformResourceStatus \cup {"none"}]
         /\ everQueued \in [AnyCluster -> SUBSET (1 .. MaxResourceRequests)]
BY DEF ResourceInv, ResourceDataOK

LEMMA ResourceInvInit == ASSUME ResourceInit PROVE ResourceInv
<1>1. ResourceDataOK
  BY ResourceConstants, ResourceAssumption DEF ResourceInit, ResourceDataOK, PlatformResourceStatus, AnyCluster
<1>2. \A k \in ResourceCall : prCall[k] = IdlePrCall
  BY DEF ResourceInit
<1>3. QED
  BY <1>1, <1>2, ResourceConstants DEF ResourceInit, ResourceInv, FilesAccounted, TeardownKnows, ReconcileSent

\* Rows stay once they are there.
RowsStayThere == prRow' \in [Resource -> PlatformResourceStatus \cup {"none"}] /\ \A r \in Resource : prRow[r] # "none" => prRow'[r] # "none"
QueuesStand ==
    /\ everQueued' \in [AnyCluster -> SUBSET (1 .. MaxResourceRequests)] /\ UNCHANGED registryVars
    /\ \A c \in AnyCluster : everQueued[c] \subseteq everQueued'[c]

\* A step that is no call's, or of a call that has nothing to do with manifests.
LEMMA QuietKeepsInv ==
  ASSUME ResourceInv, RowsStayThere, UNCHANGED <<prFiles, prCall, prOverlap, prAsked, everQueued, answered, registryVars>>
  PROVE  ResourceInv'
<1>1. ResourceDataOK' /\ \A k \in ResourceCall : ResourceShapeOK(prCall'[k])
  BY ResourceTyped DEF ResourceDataOK, RowsStayThere, registryVars
<1>2. FilesAccounted' /\ TeardownKnows'
  BY DEF ResourceInv, FilesAccounted, TeardownKnows, Recorded, RowsStayThere, RenderTenantFiles, renderTenantDescriptors, Resource
<1>3. ReconcileSent'
  BY DEF ResourceInv, ReconcileSent, ResyncTargets, registryVars
<1>4. QED
  BY <1>1, <1>2, <1>3 DEF ResourceInv

\* A call ends, or goes on to a step at which it holds less.
LEMMA CallKeepsInv ==
  ASSUME ResourceInv, NEW k \in ResourceCall, NEW r \in ResourceCallRow, ResourceShapeOK(r), prCall' = [prCall EXCEPT ![k] = r],
         RowsStayThere, QueuesStand, prAsked' \in 0 .. MaxResourceRequests, answered' \subseteq 1 .. MaxResourceRequests,
         FilesAccounted', TeardownKnows',
         \A c \in ResyncTargets : answered' \subseteq everQueued'[c],
         r.op = "reconcile" /\ r.pc \in {"notify", "record"} =>
             \A c \in ResyncTargets : r.nonce \in everQueued'[c] \/ (r.pc = "notify" /\ c \in r.left)
  PROVE  ResourceInv'
<1>1. /\ prCall' \in [ResourceCall -> ResourceCallRow] /\ prCall'[k] = r
      /\ \A d \in ResourceCall : d # k => prCall'[d] = prCall[d]
  BY ResourceTyped
<1>2. ResourceDataOK' /\ \A d \in ResourceCall : ResourceShapeOK(prCall'[d])
  BY <1>1, ResourceTyped DEF ResourceDataOK, RowsStayThere, QueuesStand, registryVars
<1>3. ResyncTargets' = ResyncTargets /\ ResyncTargets \subseteq AnyCluster
  BY ResourceTyped, ResourceConstants DEF QueuesStand, ResyncTargets, ResourceDataOK, registryVars
<1>4. ReconcileSent'
  BY <1>1, <1>3 DEF ReconcileSent, ResourceInv, QueuesStand
<1>5. QED
  BY <1>2, <1>4 DEF ResourceInv

LEMMA FilesStand ==
  ASSUME ResourceInv, NEW k \in ResourceCall, NEW r \in ResourceCallRow, prCall' = [prCall EXCEPT ![k] = r], RowsStayThere,
         prFiles' \subseteq prFiles, ~prOverlap' => ~prOverlap,
         prCall[k].op = "register" /\ prCall[k].pc = "row" => prOverlap' \/ prRow'[prCall[k].client] # "none",
         r.op = "teardown" /\ r.pc = "delete" => prOverlap' \/ prFiles' \subseteq r.left
  PROVE  FilesAccounted' /\ TeardownKnows'
<1>1. /\ prCall'[k] = r /\ \A d \in ResourceCall : d # k => prCall'[d] = prCall[d]
      /\ prCall[k].client \in ClientResource
  BY ResourceTyped DEF ResourceCallRow
<1>2. ASSUME ~prOverlap', NEW f \in prFiles' PROVE Recorded(f)'
  <2>1. Recorded(f)
    BY <1>2 DEF ResourceInv, FilesAccounted
  <2>2. CASE f \in RenderTenantFiles \/ (f \in ClientResource /\ prRow[f] # "none")
    BY <2>2 DEF Recorded, RowsStayThere, Resource, RenderTenantFiles, renderTenantDescriptors
  <2>3. ASSUME NEW d \in ResourceCall, prCall[d].op = "register", prCall[d].pc = "row", prCall[d].client = f PROVE Recorded(f)'
    BY <1>1, <1>2, <2>3 DEF Recorded
  <2>4. QED
    BY <2>1, <2>2, <2>3 DEF Recorded
<1>3. FilesAccounted'
  BY <1>2 DEF FilesAccounted
<1>4. TeardownKnows'
  BY <1>1 DEF ResourceInv, TeardownKnows
<1>5. QED
  BY <1>3, <1>4

LEMMA RowsSameStay == ASSUME ResourceInv, UNCHANGED prRow PROVE RowsStayThere
BY ResourceTyped DEF RowsStayThere
LEMMA QueuesSameStand == ASSUME ResourceInv, UNCHANGED <<everQueued, registryVars>> PROVE QueuesStand
BY ResourceTyped DEF QueuesStand
LEMMA UpsertStays == ASSUME ResourceInv, NEW r \in Resource, EnsureDesired(r) PROVE RowsStayThere /\ prRow'[r] # "none"
BY ResourceTyped DEF EnsureDesired, UpsertDesired, RowsStayThere, PlatformResourceStatus
LEMMA MarkStays == ASSUME ResourceInv, NEW r, MarkProvisioned(r) PROVE RowsStayThere
BY ResourceTyped DEF MarkProvisioned, MarkProvisionedRow, RowsStayThere, PlatformResourceStatus

LEMMA RegistrationKeepsInv == ASSUME ResourceInv, NEW k \in ResourceCall, RegistrationStep(k) PROVE ResourceInv'
<1> DEFINE c == prCall[k]
           r == c.client
<1>1. /\ c \in ResourceCallRow /\ ResourceShapeOK(c) /\ r \in ClientResource /\ r \in Resource /\ c.op = "register"
      /\ prOverlap' = TornDownBeside(k) /\ UNCHANGED <<everQueued, answered, registryVars, prAsked>>
  BY ResourceTyped DEF RegistrationStep, queueSame, boundsSame, ResourceCallRow, Resource
<1>2. QueuesStand /\ prAsked' \in 0 .. MaxResourceRequests /\ answered' \subseteq 1 .. MaxResourceRequests
      /\ (\A t \in ResyncTargets : answered' \subseteq everQueued'[t]) /\ (~prOverlap' => ~prOverlap)
  BY <1>1, ResourceTyped, QueuesSameStand DEF ResourceInv, ResourceDataOK, ReconcileSent, TornDownBeside
<1>3. ASSUME NEW pc \in {"render", "row", "mark"} PROVE [c EXCEPT !.pc = pc] \in ResourceCallRow /\ ResourceShapeOK([c EXCEPT !.pc = pc])
                                                        /\ [c EXCEPT !.pc = pc].op = "register"
  BY <1>1 DEF ResourceCallRow, ResourceShapeOK
<1>4. CASE c.pc = "client" /\ PrGoto(k, "render") /\ UNCHANGED <<prRow, prFiles>>
  <2>1. prCall' = [prCall EXCEPT ![k] = [c EXCEPT !.pc = "render"]]
    BY <1>4, ResourceTyped DEF PrGoto
  <2>2. FilesAccounted' /\ TeardownKnows'
    BY <1>2, <1>3, <1>4, <2>1, FilesStand, RowsSameStay
  <2>3. QED
    BY <1>2, <1>3, <1>4, <2>1, <2>2, CallKeepsInv, RowsSameStay
<1>5. CASE c.pc = "render" /\ RenderKeycloakClientClaim(r) /\ PrGoto(k, "row") /\ UNCHANGED <<prRow, kcClients>>
  <2>1. prCall' = [prCall EXCEPT ![k] = [c EXCEPT !.pc = "row"]] /\ prFiles' = prFiles \cup {r}
    BY <1>5, ResourceTyped DEF PrGoto, RenderKeycloakClientClaim, CommitFiles, renderClientClaim
  <2>2. /\ prCall'[k] = [c EXCEPT !.pc = "row"] /\ prCall'[k].op = "register" /\ prCall'[k].pc = "row" /\ prCall'[k].client = r
        /\ \A d \in ResourceCall : d # k => prCall'[d] = prCall[d]
    BY <1>1, <2>1, ResourceTyped DEF ResourceCallRow
  <2>3. FilesAccounted'
    <3>1. ASSUME ~prOverlap', NEW f \in prFiles PROVE Recorded(f)'
      <4>1. Recorded(f)
        BY <1>2, <3>1 DEF ResourceInv, FilesAccounted
      <4>2. QED
        BY <1>1, <1>5, <2>2, <4>1 DEF Recorded, RenderTenantFiles, renderTenantDescriptors
    <3>2. Recorded(r)'
      BY <2>2 DEF Recorded
    <3>3. QED
      BY <2>1, <3>1, <3>2 DEF FilesAccounted
  <2>4. TeardownKnows'
    BY <1>1, <2>2 DEF TeardownKnows, TornDownBeside
  <2>5. QED
    BY <1>2, <1>3, <1>5, <2>1, <2>3, <2>4, CallKeepsInv, RowsSameStay
<1>6. CASE c.pc = "row" /\ EnsureDesired(r) /\ PrGoto(k, "mark") /\ UNCHANGED <<prFiles, kcClients>>
  <2>1. prCall' = [prCall EXCEPT ![k] = [c EXCEPT !.pc = "mark"]]
    BY <1>6, ResourceTyped DEF PrGoto
  <2>2. RowsStayThere /\ prRow'[r] # "none"
    BY <1>1, <1>6, UpsertStays
  <2>3. FilesAccounted' /\ TeardownKnows'
    BY <1>2, <1>3, <1>6, <2>1, <2>2, FilesStand
  <2>4. QED
    BY <1>2, <1>3, <2>1, <2>2, <2>3, CallKeepsInv
<1>7. CASE c.pc = "mark" /\ MarkProvisioned(r) /\ PrReturn(k) /\ UNCHANGED <<prFiles, kcClients>>
  <2>1. prCall' = [prCall EXCEPT ![k] = IdlePrCall]
    BY <1>7 DEF PrReturn
  <2>2. RowsStayThere
    BY <1>7, MarkStays
  <2>3. FilesAccounted' /\ TeardownKnows'
    BY <1>2, <1>7, <2>1, <2>2, FilesStand, ResourceConstants
  <2>4. QED
    BY <1>2, <2>1, <2>2, <2>3, CallKeepsInv, ResourceConstants
<1>8. QED
  BY <1>4, <1>5, <1>6, <1>7 DEF RegistrationStep

LEMMA RequestReconcileKeepsInv == ASSUME ResourceInv, NEW k \in ResourceCall, RequestReconcile(k) PROVE ResourceInv'
<1> DEFINE r == [prCall[k] EXCEPT !.pc = "notify", !.left = ResyncTargets]
<1>1. /\ prCall[k] \in ResourceCallRow /\ prCall[k].op = "reconcile" /\ prCall[k].pc = "commit" /\ prCall[k].nonce \in 1 .. MaxResourceRequests
      /\ prOverlap' = TornDownBeside(k) /\ UNCHANGED <<prRow, everQueued, answered, registryVars, prAsked>>
      /\ prFiles' = prFiles \cup RenderTenantFiles /\ ResyncTargets \subseteq AnyCluster
  BY ResourceTyped, ResourceConstants DEF RequestReconcile, queueSame, boundsSame, CommitFiles, ResourceShapeOK, ResourceDataOK
<1>2. prCall' = [prCall EXCEPT ![k] = r]
  BY ResourceTyped DEF RequestReconcile
<1>3. r \in ResourceCallRow /\ r.op = "reconcile" /\ r.pc = "notify" /\ r.left = ResyncTargets /\ r.nonce = prCall[k].nonce
  BY <1>1 DEF ResourceCallRow
<1> HIDE DEF r
<1>4. ResourceShapeOK(r)
  BY <1>1, <1>3 DEF ResourceShapeOK
<1>5. prCall'[k] = r /\ \A d \in ResourceCall : d # k => prCall'[d] = prCall[d]
  BY <1>2, ResourceTyped
<1>6. FilesAccounted'
  <2>1. ASSUME ~prOverlap', NEW f \in prFiles PROVE Recorded(f)'
    <3>1. Recorded(f)
      BY <1>1, <2>1 DEF ResourceInv, FilesAccounted, TornDownBeside
    <3>2. QED
      BY <1>1, <1>5, <3>1 DEF Recorded, RenderTenantFiles, renderTenantDescriptors
  <2>2. ASSUME NEW f \in RenderTenantFiles PROVE Recorded(f)'
    BY DEF Recorded, RenderTenantFiles, renderTenantDescriptors
  <2>3. QED
    BY <1>1, <2>1, <2>2 DEF FilesAccounted
<1>7. TeardownKnows'
  BY <1>1, <1>3, <1>5 DEF TeardownKnows, TornDownBeside
<1>8. QueuesStand /\ prAsked' \in 0 .. MaxResourceRequests /\ answered' \subseteq 1 .. MaxResourceRequests
      /\ \A t \in ResyncTargets : answered' \subseteq everQueued'[t]
  BY <1>1, ResourceTyped, QueuesSameStand DEF ResourceInv, ResourceDataOK, ReconcileSent
<1>9. QED
  BY <1>1, <1>2, <1>3, <1>4, <1>6, <1>7, <1>8, CallKeepsInv, RowsSameStay

LEMMA NotifiesKeepsInv == ASSUME ResourceInv, NEW k \in ResourceCall, NotifiesCluster(k) PROVE ResourceInv'
<1> DEFINE c == prCall[k]
<1>1. /\ c \in ResourceCallRow /\ c.op = "reconcile" /\ c.pc = "notify" /\ c.nonce \in 1 .. MaxResourceRequests
      /\ UNCHANGED <<prRow, prFiles, answered, prOverlap, registryVars, prAsked>> /\ ResyncTargets \subseteq AnyCluster
      /\ \A t \in ResyncTargets : answered \subseteq everQueued[t] /\ (c.nonce \in everQueued[t] \/ t \in c.left)
  BY ResourceTyped, ResourceConstants DEF NotifiesCluster, boundsSame, ResourceShapeOK, ResourceDataOK, ResourceInv, ReconcileSent
<1>2. RowsStayThere /\ prAsked' \in 0 .. MaxResourceRequests /\ answered' \subseteq 1 .. MaxResourceRequests
  BY <1>1, ResourceTyped, RowsSameStay DEF ResourceDataOK
<1>3. ASSUME NEW t \in c.left, enqueueResync(t, c.nonce), prCall' = [prCall EXCEPT ![k].left = @ \ {t}] PROVE ResourceInv'
  <2> DEFINE r == [c EXCEPT !.left = c.left \ {t}]
  <2>1. prCall' = [prCall EXCEPT ![k] = r]
    BY <1>3, ResourceTyped
  <2>2. r \in ResourceCallRow /\ r.op = "reconcile" /\ r.pc = "notify" /\ r.left = c.left \ {t} /\ r.nonce = c.nonce
    BY <1>1 DEF ResourceCallRow
  <2> HIDE DEF r
  <2>3. ResourceShapeOK(r)
    BY <1>1, <2>2 DEF ResourceShapeOK
  <2>4. everQueued' = [everQueued EXCEPT ![t] = @ \cup {c.nonce}]
    BY <1>3 DEF enqueueResync, QueueResync
  <2>5. /\ QueuesStand
        /\ \A u \in AnyCluster : u = t => c.nonce \in everQueued'[u]
    BY <1>1, <2>4, ResourceTyped DEF QueuesStand
  <2>6. \A u \in ResyncTargets : answered' \subseteq everQueued'[u] /\ (r.nonce \in everQueued'[u] \/ (r.pc = "notify" /\ u \in r.left))
    BY <1>1, <2>2, <2>5 DEF QueuesStand
  <2>7. FilesAccounted' /\ TeardownKnows'
    BY <1>1, <1>2, <2>1, <2>2, FilesStand
  <2>8. QED
    BY <1>2, <2>1, <2>2, <2>3, <2>5, <2>6, <2>7, CallKeepsInv
<1>4. CASE c.left = {} /\ PrGoto(k, "record") /\ UNCHANGED <<resyncs, everQueued>>
  <2> DEFINE r == [c EXCEPT !.pc = "record"]
  <2>1. prCall' = [prCall EXCEPT ![k] = r]
    BY <1>4, ResourceTyped DEF PrGoto
  <2>2. r \in ResourceCallRow /\ r.op = "reconcile" /\ r.pc = "record" /\ r.nonce = c.nonce
    BY <1>1 DEF ResourceCallRow
  <2> HIDE DEF r
  <2>3. ResourceShapeOK(r) /\ QueuesStand
    BY <1>1, <1>4, <2>2, QueuesSameStand DEF ResourceShapeOK
  <2>4. \A u \in ResyncTargets : answered' \subseteq everQueued'[u] /\ r.nonce \in everQueued'[u]
    BY <1>1, <1>4, <2>2
  <2>5. FilesAccounted' /\ TeardownKnows'
    BY <1>1, <1>2, <2>1, <2>2, FilesStand
  <2>6. QED
    BY <1>2, <2>1, <2>2, <2>3, <2>4, <2>5, CallKeepsInv
<1>5. QED
  BY <1>3, <1>4 DEF NotifiesCluster

\* A call that returns leaves no registration half done.
LEMMA ReturnKeepsInv ==
  ASSUME ResourceInv, NEW k \in ResourceCall, PrReturn(k), prFiles' \subseteq prFiles, ~prOverlap' => ~prOverlap,
         UNCHANGED <<prRow, everQueued, registryVars, prAsked>>, answered' \subseteq 1 .. MaxResourceRequests,
         prCall[k].op = "register" => prOverlap',
         \A c \in ResyncTargets : answered' \subseteq everQueued[c]
  PROVE  ResourceInv'
<1>1. prCall' = [prCall EXCEPT ![k] = IdlePrCall] /\ RowsStayThere /\ QueuesStand /\ prAsked' \in 0 .. MaxResourceRequests
  BY RowsSameStay, QueuesSameStand, ResourceTyped DEF PrReturn, ResourceDataOK
<1>2. FilesAccounted' /\ TeardownKnows'
  BY <1>1, FilesStand, ResourceConstants
<1>3. QED
  BY <1>1, <1>2, CallKeepsInv, ResourceConstants

LEMMA ReconcileTxKeepsInv == ASSUME ResourceInv, NEW k \in ResourceCall, ReconcileTx(k) PROVE ResourceInv'
<1>1. /\ prCall[k].op = "reconcile" /\ prCall[k].pc = "record" /\ PrReturn(k) /\ answered' = answered \cup {prCall[k].nonce}
      /\ UNCHANGED <<prRow, prFiles, everQueued, prOverlap, registryVars, prAsked>>
  BY DEF ReconcileTx, boundsSame
<1>2. prCall[k].nonce \in 1 .. MaxResourceRequests /\ answered \subseteq 1 .. MaxResourceRequests
  BY <1>1, ResourceTyped DEF ResourceShapeOK, ResourceDataOK
<1>3. \A c \in ResyncTargets : answered' \subseteq everQueued[c]
  BY <1>1 DEF ResourceInv, ReconcileSent
<1>4. QED
  BY <1>1, <1>2, <1>3, ReturnKeepsInv

LEMMA TeardownKeepsInv == ASSUME ResourceInv, NEW k \in ResourceCall, TeardownStep(k) PROVE ResourceInv'
<1>1. /\ prCall[k] \in ResourceCallRow /\ prCall[k].op = "teardown" /\ (~prOverlap' => ~prOverlap)
      /\ ~prOverlap' => \A d \in ResourceCall \ {k} : prCall[d].op # "register"
      /\ UNCHANGED <<prRow, everQueued, answered, registryVars, prAsked>>
  BY ResourceTyped DEF TeardownStep, queueSame, boundsSame
<1>2. answered' \subseteq 1 .. MaxResourceRequests /\ \A c \in ResyncTargets : answered' \subseteq everQueued[c]
  BY <1>1, ResourceTyped DEF ResourceInv, ResourceDataOK, ReconcileSent
<1>3. CASE prCall[k].pc = "delete" /\ DeleteFiles(prCall[k].left) /\ PrReturn(k)
  <2>1. prFiles' \subseteq prFiles
    BY <1>3 DEF DeleteFiles
  <2>2. QED
    BY <1>1, <1>2, <1>3, <2>1, ReturnKeepsInv
<1>4. CASE prCall[k].pc = "commit" /\ UNCHANGED prFiles /\ prCall' = [prCall EXCEPT ![k].pc = "delete", ![k].left = TenantRenderPaths]
  <2> DEFINE r == [prCall[k] EXCEPT !.pc = "delete", !.left = TenantRenderPaths]
  <2>1. prCall' = [prCall EXCEPT ![k] = r]
    BY <1>4, ResourceTyped
  <2>2. TenantRenderPaths \subseteq RenderedFile
    BY DEF TenantRenderPaths, renderTenantDescriptors, clientClaimRenderPaths, renderClientClaim, RenderedFile, Resource
  <2>3. r \in ResourceCallRow /\ r.op = "teardown" /\ r.pc = "delete" /\ r.left = TenantRenderPaths
    BY <1>1, <2>2 DEF ResourceCallRow
  <2> HIDE DEF r
  <2>4. ASSUME ~prOverlap', NEW f \in prFiles PROVE f \in TenantRenderPaths
    <3>1. Recorded(f) /\ ~\E d \in ResourceCall : prCall[d].op = "register"
      BY <1>1, <2>4 DEF ResourceInv, FilesAccounted
    <3>2. QED
      BY <3>1 DEF Recorded, TenantRenderPaths, RenderTenantFiles, clientClaimRenderPaths, renderClientClaim
  <2>5. RowsStayThere /\ QueuesStand /\ ResourceShapeOK(r) /\ prAsked' \in 0 .. MaxResourceRequests
    BY <1>1, <2>3, RowsSameStay, QueuesSameStand, ResourceTyped DEF ResourceShapeOK, ResourceDataOK
  <2>6. FilesAccounted' /\ TeardownKnows'
    BY <1>1, <1>4, <2>1, <2>3, <2>4, <2>5, FilesStand
  <2>7. QED
    BY <1>1, <1>2, <2>1, <2>3, <2>5, <2>6, CallKeepsInv
<1>5. QED
  BY <1>3, <1>4 DEF TeardownStep

LEMMA PrCallFailsKeepsInv == ASSUME ResourceInv, NEW k \in ResourceCall, PrCallFails(k) PROVE ResourceInv'
<1>1. /\ PrReturn(k) /\ prOverlap' = TRUE /\ UNCHANGED <<prRow, prFiles, everQueued, answered, registryVars, prAsked>>
  BY DEF PrCallFails, queueSame
<1>2. answered' \subseteq 1 .. MaxResourceRequests /\ \A c \in ResyncTargets : answered' \subseteq everQueued[c]
  BY <1>1, ResourceTyped DEF ResourceInv, ResourceDataOK, ReconcileSent
<1>3. QED
  BY <1>1, <1>2, ReturnKeepsInv

LEMMA BeginResourceKeepsInv ==
  ASSUME ResourceInv, NEW k \in ResourceCall, NEW r \in ResourceCallRow, BeginResource(k, r), ResourceShapeOK(r),
         r.pc \notin {"delete", "notify", "record"}
  PROVE  ResourceInv'
<1>1. /\ prCall[k] = IdlePrCall /\ prCall' = [prCall EXCEPT ![k] = r] /\ prAsked' = prAsked + 1 /\ prAsked < MaxResourceRequests
      /\ UNCHANGED <<prRow, prFiles, registryVars, prOverlap, everQueued, answered>>
  BY DEF BeginResource, queueSame
<1>2. /\ RowsStayThere /\ QueuesStand /\ prAsked' \in 0 .. MaxResourceRequests /\ answered' \subseteq 1 .. MaxResourceRequests
      /\ \A c \in ResyncTargets : answered' \subseteq everQueued'[c]
  BY <1>1, RowsSameStay, QueuesSameStand, ResourceTyped, ResourceAssumption DEF ResourceInv, ResourceDataOK, ReconcileSent
<1>3. FilesAccounted' /\ TeardownKnows'
  BY <1>1, <1>2, FilesStand, ResourceConstants
<1>4. QED
  BY <1>1, <1>2, <1>3, CallKeepsInv

LEMMA ResourceBeginsKeepsInv ==
  ASSUME ResourceInv, NEW k \in ResourceCall, RegisterClusterBegins(k) \/ TeardownBegins(k) \/ \E u \in User : reconcile(u, k)
  PROVE  ResourceInv'
<1>0. IdlePrCall \in ResourceCallRow /\ prAsked \in 0 .. MaxResourceRequests
  BY ResourceConstants, ResourceTyped DEF ResourceDataOK
<1>1. ASSUME NEW r \in ClientResource, BeginResource(k, [IdlePrCall EXCEPT !.op = "register", !.pc = "client", !.client = r]) PROVE ResourceInv'
  <2> DEFINE call == [IdlePrCall EXCEPT !.op = "register", !.pc = "client", !.client = r]
  <2>1. call \in ResourceCallRow /\ call.op = "register" /\ call.pc = "client"
    BY <1>0 DEF ResourceCallRow
  <2> HIDE DEF call
  <2>2. QED
    BY <1>1, <2>1, BeginResourceKeepsInv DEF call, ResourceShapeOK
<1>2. CASE TeardownBegins(k)
  <2> DEFINE call == [IdlePrCall EXCEPT !.op = "teardown", !.pc = "commit"]
  <2>1. call \in ResourceCallRow /\ call.op = "teardown" /\ call.pc = "commit"
    BY <1>0 DEF ResourceCallRow
  <2>2. BeginResource(k, call)
    BY <1>2 DEF TeardownBegins
  <2> HIDE DEF call
  <2>3. QED
    BY <2>1, <2>2, BeginResourceKeepsInv DEF ResourceShapeOK
<1>3. ASSUME NEW u \in User, reconcile(u, k) PROVE ResourceInv'
  <2> DEFINE call == [IdlePrCall EXCEPT !.op = "reconcile", !.pc = "commit", !.nonce = prAsked + 1]
  <2>1. prAsked + 1 \in 1 .. MaxResourceRequests
    BY <1>0, <1>3, ResourceAssumption DEF reconcile, BeginResource
  <2>2. call \in ResourceCallRow /\ call.op = "reconcile" /\ call.pc = "commit" /\ call.nonce \in 1 .. MaxResourceRequests
    <3>1. prAsked + 1 \in 0 .. MaxResourceRequests
      BY <2>1
    <3>2. QED
      BY <1>0, <2>1, <3>1 DEF ResourceCallRow
  <2>3. BeginResource(k, call)
    BY <1>3 DEF reconcile
  <2> HIDE DEF call
  <2>4. QED
    BY <2>2, <2>3, BeginResourceKeepsInv DEF ResourceShapeOK
<1>4. QED
  BY <1>1, <1>2, <1>3 DEF RegisterClusterBegins

LEMMA ResourceQuietSteps ==
  ASSUME ResourceInv,
         BackfillBase \/ BackfillServerProvisioned \/ ClusterChanges \/ StreamBreaks \/ ApplyResourceStatus \/ \E c \in AnyCluster : AgentResyncs(c)
  PROVE  ResourceInv'
<1>1. UNCHANGED <<prFiles, prCall, prOverlap, prAsked, everQueued, answered, registryVars>>
  BY DEF BackfillBase, BackfillServerProvisioned, ClusterChanges, StreamBreaks, ApplyResourceStatus, AgentResyncs, queueSame, boundsSame
<1>2. RowsStayThere
  <2>1. CASE BackfillBase
    BY <2>1, UpsertStays DEF BackfillBase, Resource
  <2>2. CASE BackfillServerProvisioned
    BY <2>2, MarkStays DEF BackfillServerProvisioned
  <2>3. CASE ApplyResourceStatus
    <3>1. PICK r, h : prRow' = [prRow EXCEPT ![r] = IF @ = "none" THEN @ ELSE deriveStatus(h)]
      BY <2>3 DEF ApplyResourceStatus, ApplyStatusRow
    <3>2. deriveStatus(h) \in PlatformResourceStatus
      BY DEF deriveStatus, PlatformResourceStatus
    <3>3. QED
      BY <3>1, <3>2, ResourceTyped DEF RowsStayThere, PlatformResourceStatus
  <2>4. CASE UNCHANGED prRow
    BY <2>4, RowsSameStay
  <2>5. QED
    BY <2>1, <2>2, <2>3, <2>4 DEF ClusterChanges, StreamBreaks, AgentResyncs
<1>3. QED
  BY <1>1, <1>2, QuietKeepsInv

LEMMA ResourceInvStep == ASSUME ResourceInv, [ResourceNext]_resourceVars PROVE ResourceInv'
<1>1. CASE UNCHANGED resourceVars
  BY <1>1, QuietKeepsInv, RowsSameStay DEF resourceVars
<1>2. QED
  BY <1>1, RegistrationKeepsInv, RequestReconcileKeepsInv, NotifiesKeepsInv, ReconcileTxKeepsInv, TeardownKeepsInv, PrCallFailsKeepsInv,
     ResourceBeginsKeepsInv, ResourceQuietSteps DEF ResourceNext, ResourceStep

\* The inductive invariant of the platform resources.
THEOREM ResourceInvariant == ResourceSpec => []ResourceInv
<1>1. QED
  BY ResourceInvInit, ResourceInvStep, PTL DEF ResourceSpec

\* The rest of the types: what the cluster makes of the manifests, and what is under way.
ResourceRestOK ==
    /\ prFiles \subseteq RenderedFile /\ kcClients \subseteq ClientResource
    /\ resourceHealth \in [Resource -> Health \cup {"none"}] /\ inFlight \in Seq(StatusUpdate)
    /\ resyncs \in [AnyCluster -> SUBSET (1 .. MaxResourceRequests)] /\ missed \subseteq Resource /\ prOverlap \in BOOLEAN
    /\ prFaults \in 0 .. MaxResourceFaults /\ prChanges \in 0 .. MaxHealthChanges

\* What the agent answers a resync with is a sequence of updates.
LEMMA SnapshotIsSequence ==
  ASSUME resourceHealth \in [Resource -> Health \cup {"none"}]
  PROVE  Snapshot \in Seq(StatusUpdate)
<1> DEFINE known == {r \in Resource : resourceHealth[r] # "none"}
           n == Cardinality(known)
           Orders(f) == \A r \in known : \E i \in DOMAIN f : f[i] = r
           order == CHOOSE f \in [1 .. n -> known] : Orders(f)
<1>1. IsFiniteSet(known)
  BY ResourceAssumption, FS_Subset DEF Resource
<1>2. n \in Nat /\ ExistsBijection(1 .. n, known)
  BY <1>1, FS_CardinalityType
<1>3. \E f \in [1 .. n -> known] : Orders(f)
  <2> HIDE DEF known, n
  <2>1. PICK f \in [1 .. n -> known] : \A r \in known : \E i \in 1 .. n : f[i] = r
    BY <1>2 DEF ExistsBijection, Bijection, Surjection
  <2>2. Orders(f)
    BY <2>1
  <2>3. QED
    BY <2>1, <2>2
<1>4. order \in [1 .. n -> known]
  <2> HIDE DEF known, n, Orders
  <2>1. QED
    BY <1>3
<1>5. known \subseteq Resource /\ \A r \in known : resourceHealth[r] \in Health
  OBVIOUS
<1>6. Snapshot = [i \in DOMAIN order |-> [resource |-> order[i], health |-> resourceHealth[order[i]]]]
  BY DEF Snapshot
<1> HIDE DEF order, known, n
<1>7. Snapshot \in [1 .. n -> StatusUpdate]
  BY <1>4, <1>5, <1>6 DEF StatusUpdate
<1>8. QED
  BY <1>2, <1>7

\* Calls leave the agent's side alone, and write manifests, clients and commands of their own kinds.
LEMMA ResourceStepKeepsRest ==
  ASSUME ResourceInv, ResourceRestOK, NEW k \in ResourceCall, ResourceStep(k)
  PROVE  ResourceRestOK'
<1>0. /\ prCall[k] \in ResourceCallRow /\ prCall[k].client \in ClientResource /\ ResourceShapeOK(prCall[k])
      /\ prCall[k].op = "reconcile" => prCall[k].nonce \in 1 .. MaxResourceRequests
  BY ResourceTyped DEF ResourceInv, ResourceDataOK, ResourceCallRow, ResourceShapeOK
<1>1. RenderTenantFiles \subseteq RenderedFile /\ ClientResource \subseteq RenderedFile
  BY DEF RenderTenantFiles, renderTenantDescriptors, RenderedFile, Resource
<1>2. CASE RegistrationStep(k)
  BY <1>0, <1>1, <1>2 DEF RegistrationStep, ResourceRestOK, RenderKeycloakClientClaim, renderClientClaim, CommitFiles, TornDownBeside,
     agentSame, queueSame, boundsSame
<1>3. CASE RequestReconcile(k)
  BY <1>1, <1>3 DEF RequestReconcile, ResourceRestOK, CommitFiles, TornDownBeside, agentSame, queueSame, boundsSame
<1>4. CASE NotifiesCluster(k)
  <2>1. resyncs' \in [AnyCluster -> SUBSET (1 .. MaxResourceRequests)]
    BY <1>0, <1>4 DEF NotifiesCluster, enqueueResync, QueueResync, ResourceRestOK
  <2>2. QED
    BY <1>4, <2>1 DEF NotifiesCluster, ResourceRestOK, agentSame, boundsSame
<1>5. CASE ReconcileTx(k)
  BY <1>5 DEF ReconcileTx, ResourceRestOK, agentSame, boundsSame
<1>6. CASE TeardownStep(k)
  BY <1>6 DEF TeardownStep, ResourceRestOK, DeleteFiles, agentSame, queueSame, boundsSame
<1>7. QED
  BY <1>2, <1>3, <1>4, <1>5, <1>6 DEF ResourceStep

LEMMA ResourceAgentKeepsRest ==
  ASSUME ResourceInv, ResourceRestOK,
         ClusterChanges \/ StreamBreaks \/ ApplyResourceStatus \/ \E c \in AnyCluster : AgentResyncs(c)
  PROVE  ResourceRestOK'
<1>0. /\ inFlight \in Seq(StatusUpdate) /\ missed \subseteq Resource
      /\ prFaults \in 0 .. MaxResourceFaults /\ prChanges \in 0 .. MaxHealthChanges
      /\ MaxResourceFaults \in Nat /\ MaxHealthChanges \in Nat
      /\ resourceHealth \in [Resource -> Health \cup {"none"}]
      /\ resyncs \in [AnyCluster -> SUBSET (1 .. MaxResourceRequests)]
  BY ResourceAssumption DEF ResourceRestOK
<1>1. CASE ClusterChanges
  <2>1. PICK r \in prFiles \cap Resource, h \in Health :
          /\ resourceHealth' = [resourceHealth EXCEPT ![r] = h]
          /\ inFlight' = Append(inFlight, [resource |-> r, health |-> h])
    BY <1>1 DEF ClusterChanges
  <2>2. [resource |-> r, health |-> h] \in StatusUpdate
    BY DEF StatusUpdate
  <2>3. inFlight' \in Seq(StatusUpdate) /\ resourceHealth' \in [Resource -> Health \cup {"none"}]
    BY <1>0, <2>1, <2>2
  <2>4. prChanges' \in 0 .. MaxHealthChanges
    BY <1>0, <1>1 DEF ClusterChanges
  <2>5. QED
    BY <1>1, <2>3, <2>4 DEF ClusterChanges, ResourceRestOK, queueSame
<1>2. CASE StreamBreaks
  <2>0. \A i \in DOMAIN inFlight : inFlight[i] \in StatusUpdate
    BY <1>0
  <2>1. \A i \in DOMAIN inFlight : inFlight[i].resource \in Resource
    BY <2>0 DEF StatusUpdate
  <2>2. missed' \subseteq Resource /\ inFlight' \in Seq(StatusUpdate) /\ prFaults' \in 0 .. MaxResourceFaults
    BY <1>0, <1>2, <2>1 DEF StreamBreaks
  <2>3. QED
    BY <1>2, <2>2 DEF StreamBreaks, ResourceRestOK, queueSame
<1>3. CASE ApplyResourceStatus
  <2>1. Head(inFlight) \in StatusUpdate /\ Tail(inFlight) \in Seq(StatusUpdate)
    BY <1>0, <1>3 DEF ApplyResourceStatus
  <2>2. Head(inFlight).resource \in Resource
    BY <2>1 DEF StatusUpdate
  <2>3. missed' \subseteq Resource /\ inFlight' \in Seq(StatusUpdate)
    BY <1>0, <1>3, <2>1, <2>2 DEF ApplyResourceStatus
  <2>4. QED
    BY <1>3, <2>3 DEF ApplyResourceStatus, ResourceRestOK, queueSame
<1>4. ASSUME NEW c \in AnyCluster, AgentResyncs(c) PROVE ResourceRestOK'
  <2>1. Snapshot \in Seq(StatusUpdate)
    BY <1>0, SnapshotIsSequence
  <2>2. inFlight' \in Seq(StatusUpdate)
    BY <1>0, <1>4, <2>1 DEF AgentResyncs
  <2>3. resyncs' \in [AnyCluster -> SUBSET (1 .. MaxResourceRequests)]
    BY <1>0, <1>4 DEF AgentResyncs
  <2>4. QED
    BY <1>4, <2>2, <2>3 DEF AgentResyncs, ResourceRestOK
<1>5. QED
  BY <1>1, <1>2, <1>3, <1>4

\* Platform resources are well typed: rows, manifests, commands, calls and the updates on the stream.
THEOREM ResourceTypeCorrect == ResourceSpec => []ResourceTypeOK
<1>1. ResourceInit => ResourceRestOK
  <2>1. {MaxResourceFaults, MaxHealthChanges} \subseteq Nat
    BY ResourceAssumption
  <2>2. ASSUME ResourceInit
        PROVE  /\ resourceHealth \in [Resource -> Health \cup {"none"}] /\ inFlight \in Seq(StatusUpdate)
               /\ resyncs \in [AnyCluster -> SUBSET (1 .. MaxResourceRequests)]
    BY <2>2 DEF ResourceInit
  <2>3. ASSUME ResourceInit
        PROVE  /\ prFiles \subseteq RenderedFile /\ kcClients \subseteq ClientResource /\ missed \subseteq Resource
               /\ prOverlap \in BOOLEAN
    BY <2>3 DEF ResourceInit
  <2>4. ASSUME ResourceInit PROVE prFaults \in 0 .. MaxResourceFaults /\ prChanges \in 0 .. MaxHealthChanges
    BY <2>1, <2>4 DEF ResourceInit
  <2>5. QED
    BY <2>2, <2>3, <2>4 DEF ResourceRestOK
<1>2. ASSUME ResourceInv, ResourceRestOK, [ResourceNext]_resourceVars PROVE ResourceRestOK'
  <2>1. ASSUME NEW k \in ResourceCall, PrCallFails(k) PROVE ResourceRestOK'
    BY <1>2, <2>1, ResourceAssumption DEF PrCallFails, ResourceRestOK, agentSame, queueSame
  <2>2. ASSUME NEW k \in ResourceCall, NEW call, BeginResource(k, call) PROVE ResourceRestOK'
    BY <1>2, <2>2 DEF BeginResource, ResourceRestOK, agentSame, queueSame
  <2>3. CASE BackfillBase \/ BackfillServerProvisioned
    BY <1>2, <2>3 DEF BackfillBase, BackfillServerProvisioned, ResourceRestOK, agentSame, queueSame, boundsSame
  <2>4. CASE UNCHANGED resourceVars
    BY <1>2, <2>4 DEF resourceVars, ResourceRestOK
  <2>5. QED
    BY <1>2, <2>1, <2>2, <2>3, <2>4, ResourceStepKeepsRest, ResourceAgentKeepsRest
       DEF ResourceNext, RegisterClusterBegins, TeardownBegins, reconcile
<1>3. ResourceInv /\ ResourceRestOK => ResourceTypeOK
  BY DEF ResourceInv, ResourceDataOK, ResourceRestOK, ResourceTypeOK, ResourceCallRow
<1>4. QED
  BY <1>1, <1>2, <1>3, ResourceInvariant, PTL DEF ResourceSpec

\* Reconcile and its resync commands: every reconcile that was answered with success put a command of its
\* own into the queue of every cluster the code addresses.
THEOREM ReconcilesNotify == ResourceSpec => []EveryReconcileNotifies
<1>1. ASSUME ResourceInv PROVE EveryReconcileNotifies
  <2>1. ASSUME NEW c \in ResyncTargets PROVE Cardinality(everQueued[c]) >= Cardinality(answered)
    <3>1. c \in AnyCluster /\ answered \subseteq everQueued[c]
      BY <1>1, <2>1, ResourceTyped, ResourceConstants DEF ResourceInv, ReconcileSent, ResourceDataOK
    <3>2. everQueued[c] \subseteq 1 .. MaxResourceRequests
      BY <1>1, <3>1, ResourceTyped
    <3>3. IsFiniteSet(everQueued[c])
      <4>1. IsFiniteSet(1 .. MaxResourceRequests)
        BY ResourceAssumption, FS_Interval
      <4>2. QED
        BY <3>2, <4>1, FS_Subset
    <3>4. Cardinality(answered) <= Cardinality(everQueued[c])
      BY <3>1, <3>3, FS_Subset
    <3>5. IsFiniteSet(answered) /\ Cardinality(answered) \in Nat /\ Cardinality(everQueued[c]) \in Nat
      BY <3>1, <3>3, FS_Subset, FS_CardinalityType
    <3>6. QED
      BY <3>4, <3>5
  <2>2. QED
    BY <2>1 DEF EveryReconcileNotifies
<1>2. QED
  BY <1>1, ResourceInvariant, PTL

\* TeardownTenant: a teardown that no render ran beside, after registrations that came to their end,
\* removes every manifest there is: what was rendered and the paths of the removal agree.
THEOREM TeardownsAreClean == ResourceSpec => TeardownIsClean
<1> DEFINE Clean == \A k \in ResourceCall :
              prCall[k].op = "teardown" /\ prCall[k].pc = "delete" /\ prCall'[k] = IdlePrCall /\ ~prOverlap' => prFiles' = {}
<1>1. ASSUME ResourceInv, ResourceNext, NEW k \in ResourceCall, prCall[k].op = "teardown", prCall[k].pc = "delete",
             prCall'[k] = IdlePrCall, ~prOverlap'
      PROVE  prFiles' = {}
  <2>1. prCall[k] # prCall'[k]
    BY <1>1, ResourceConstants
  <2>2. ASSUME NEW d \in ResourceCall, d # k, ResourceStep(d) PROVE FALSE
    <3>1. prCall'[k] = prCall[k]
      BY <1>1, <2>2, ResourceTyped
         DEF ResourceStep, RegistrationStep, RequestReconcile, NotifiesCluster, ReconcileTx, TeardownStep, PrGoto, PrReturn
    <3>2. QED
      BY <2>1, <3>1
  <2>3. ASSUME NEW d \in ResourceCall, NEW r, BeginResource(d, r) PROVE FALSE
    BY <1>1, <2>1, <2>3, ResourceTyped, ResourceConstants DEF BeginResource
  <2>4. ~\E d \in ResourceCall : RegisterClusterBegins(d) \/ TeardownBegins(d) \/ \E u \in User : reconcile(u, d)
    BY <2>3 DEF RegisterClusterBegins, TeardownBegins, reconcile
  <2>5. ~\E d \in ResourceCall : PrCallFails(d)
    BY <1>1 DEF PrCallFails
  <2>6. ~(BackfillBase \/ BackfillServerProvisioned \/ ClusterChanges \/ StreamBreaks \/ ApplyResourceStatus \/ \E c \in AnyCluster : AgentResyncs(c))
    BY <2>1 DEF BackfillBase, BackfillServerProvisioned, ClusterChanges, StreamBreaks, ApplyResourceStatus, AgentResyncs
  <2>7. ResourceStep(k)
    BY <1>1, <2>2, <2>4, <2>5, <2>6 DEF ResourceNext
  <2>8. TeardownStep(k)
    BY <1>1, <2>7 DEF ResourceStep, RegistrationStep, RequestReconcile, NotifiesCluster, ReconcileTx
  <2>9. prFiles' = prFiles \ prCall[k].left /\ ~prOverlap
    BY <1>1, <2>8 DEF TeardownStep, DeleteFiles
  <2>10. prFiles \subseteq prCall[k].left
    BY <1>1, <2>9 DEF ResourceInv, TeardownKnows
  <2>11. QED
    BY <2>9, <2>10
<1>2. ResourceInv /\ [ResourceNext]_resourceVars => [Clean]_resourceVars
  BY <1>1
<1>3. QED
  BY <1>2, ResourceInvariant, PTL DEF ResourceSpec, TeardownIsClean
=============================================================================
