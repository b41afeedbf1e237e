------------------------------ MODULE KubeProxy ------------------------------
(***************************************************************************)
(* internal/kubeproxy for one cluster: the tunnel streams its agent opens  *)
(* (TunnelHandler.Connect, SessionRegistry), the requests that are sent    *)
(* through them (ProxyHandler.ServeHTTP, connMux) and the watcher that     *)
(* closes sessions when the flag is turned off (FlagWatcher).              *)
(*                                                                         *)
(* A session is closed in two steps, the cancelled context and then the    *)
(* connections of its mux, by a reconnect, the watcher or its own handler. *)
(* The context that is cancelled is a child of the stream's: Receive does  *)
(* not see it, so the handler stays until the stream itself ends.  The     *)
(* agent and the network are external: the agent opens a stream when it    *)
(* knows of none, answers what it is asked and stops when it is told; a    *)
(* stream may be lost, which the handler learns later.  Headers, tokens    *)
(* and the bytes of frames are left out; a request that is not authorized  *)
(* never becomes a connection.                                             *)
(***************************************************************************)
EXTENDS FeatureFlags, Sequences, FiniteSets

CONSTANTS Tunnel,           \* streams, used again when they are gone
          ProxyConn,        \* proxied requests
          NoTunnel,
          Watcher,          \* the FlagWatcher
          ConnChanBounds,   \* connChanBounds, in messages
          ByteCap,          \* frames a connection may carry in one direction; 0 is no limit
          MaxTunnelFrames,  \* bound: frames of a response
          MaxLinkLosses     \* bound: streams that break

ASSUME KubeProxyAssumption ==
    /\ NoTunnel \notin Tunnel /\ FlagReader = Tunnel \cup ProxyConn \cup {Watcher}
    /\ ConnChanBounds \in Nat \ {0} /\ ByteCap \in Nat /\ MaxTunnelFrames \in Nat
    /\ MaxLinkLosses \in Nat

VARIABLES link,       \* the streams as the agent and the network have them
          tunnel,     \* where the handler of a stream is
          victim,     \* the session a registering handler evicts
          current,    \* SessionRegistry.sessions
          cancelled,  \* sessions whose context is cancelled
          watch,      \* the watcher: where it is and the session it closes
          request,    \* requests: where the handler is, its session, what it has written and how it ended
          conn,       \* connections of the muxes: present, close reason, fromAgent and all it was given
          remote,     \* connections as the agent has them, and the frames it sent
          linkLosses  \* bound

tunnelVars == <<link, tunnel, victim, current, cancelled>>
requestVars == <<request, conn, remote>>
kubeProxyVars == <<flagVars, tunnelVars, watch, requestVars, linkLosses>>

Msg == {"result", "error", "frame", "halfclose"}
IdleRequest == [pc |-> "none", sess |-> NoTunnel, wrote |-> 0, end |-> "none"]
NoConn == [in |-> FALSE, reason |-> "none", fromAgent |-> <<>>, kept |-> 0]
IdleRemote == [pc |-> "none", sent |-> 0, told |-> FALSE]

KubeProxyTypeOK ==
    /\ FlagsTypeOK /\ link \in [Tunnel -> {"none", "up", "lost"}]
    /\ tunnel \in [Tunnel -> {"none", "flag", "register", "evict", "loop", "unregister", "close", "closeAll"}]
    /\ victim \in [Tunnel -> Tunnel \cup {NoTunnel}] /\ current \in Tunnel \cup {NoTunnel} /\ cancelled \subseteq Tunnel
    /\ watch \in [pc : {"idle", "platform", "clusters", "cluster", "closeCluster", "cancel", "closeAll"}, sess : Tunnel \cup {NoTunnel}]
    /\ \A q \in ProxyConn :
          /\ request[q].pc \in {"none", "session", "alloc", "open", "await", "stream", "finish", "remove", "done"}
          /\ request[q].sess \in Tunnel \cup {NoTunnel} /\ request[q].wrote \in 0..MaxTunnelFrames
          /\ Len(conn[q].fromAgent) <= ConnChanBounds /\ \A i \in DOMAIN conn[q].fromAgent : conn[q].fromAgent[i] \in Msg
          /\ remote[q].pc \in {"none", "dial", "body", "done"}
    /\ linkLosses \in 0..MaxLinkLosses

TunnelsInit(losses) ==
    /\ link = [s \in Tunnel |-> "none"] /\ tunnel = [s \in Tunnel |-> "none"]
    /\ victim = [s \in Tunnel |-> NoTunnel] /\ current = NoTunnel /\ cancelled = {}
    /\ watch = [pc |-> "idle", sess |-> NoTunnel]
    /\ request = [q \in ProxyConn |-> IdleRequest] /\ conn = [q \in ProxyConn |-> NoConn]
    /\ remote = [q \in ProxyConn |-> IdleRemote]
    /\ linkLosses = losses

----------------------------------------------------------------------------
(* Connections and sessions *)

\* proxyConn.close: the first reason stays.
CloseConn(c, reason) == IF c.reason = "none" THEN [c EXCEPT !.reason = reason] ELSE c
\* connMux.closeAll.
closeAll(s, reason) ==
    conn' = [q \in ProxyConn |-> IF conn[q].in /\ request[q].sess = s THEN CloseConn(conn[q], reason) ELSE conn[q]]
\* Session.Send of a close: a cancelled session refuses, the agent is told otherwise.
SendClose(q) ==
    remote' = [remote EXCEPT ![q].told = @ \/ (request[q].sess \notin cancelled /\ link[request[q].sess] = "up")]
\* Register holds the mutex of the registry until it has closed the session it evicts.
RegistryFree == \A s \in Tunnel : tunnel[s] # "evict"

----------------------------------------------------------------------------
(* TunnelHandler.Connect *)

\* The agent opens a stream when it knows of none; an id is used again when nobody knows it.
FreeTunnel == {s \in Tunnel : /\ tunnel[s] = "none" /\ link[s] = "none" /\ watch.sess # s
                             /\ \A q \in ProxyConn : request[q].sess # s
                             /\ \A o \in Tunnel : victim[o] # s}
Dial(s) ==
    /\ s \in FreeTunnel /\ s = (CHOOSE o \in FreeTunnel : TRUE) /\ \A o \in Tunnel : link[o] # "up"
    /\ link' = [link EXCEPT ![s] = "up"] /\ tunnel' = [tunnel EXCEPT ![s] = "flag"]
    /\ cancelled' = cancelled \ {s}
    /\ UNCHANGED <<flagVars, victim, current, watch, requestVars, linkLosses>>
LinkBreaks(s) ==
    /\ link[s] = "up" /\ linkLosses < MaxLinkLosses /\ linkLosses' = linkLosses + 1
    /\ link' = [link EXCEPT ![s] = "lost"]
    /\ UNCHANGED <<flagVars, tunnel, victim, current, cancelled, watch, requestVars>>

ConnectReadsFlag(s) ==
    /\ tunnel[s] = "flag" /\ ReadFlag(s, "cluster")
    /\ UNCHANGED <<tunnelVars, watch, requestVars, linkLosses>>
ConnectAdmits(s) ==
    /\ tunnel[s] = "flag"
    /\ \E v \in FlagValue :
          /\ ResolvesTo(s, "cluster", v)
          /\ IF v = "on" THEN tunnel' = [tunnel EXCEPT ![s] = "register"] /\ UNCHANGED link
             ELSE tunnel' = [tunnel EXCEPT ![s] = "none"] /\ link' = [link EXCEPT ![s] = "none"]
    /\ UNCHANGED <<victim, current, cancelled, watch, requestVars, linkLosses>>

\* SessionRegistry.Register: the entry is replaced and the context of the old session cancelled.
RegisterTunnel(s) ==
    /\ tunnel[s] = "register" /\ RegistryFree
    /\ current' = s /\ victim' = [victim EXCEPT ![s] = current]
    /\ cancelled' = cancelled \cup ({current} \ {NoTunnel})
    /\ tunnel' = [tunnel EXCEPT ![s] = IF current = NoTunnel THEN "loop" ELSE "evict"]
    /\ UNCHANGED <<flagVars, link, watch, requestVars, linkLosses>>
Evict(s) ==
    /\ tunnel[s] = "evict" /\ closeAll(victim[s], "evicted by reconnect")
    /\ victim' = [victim EXCEPT ![s] = NoTunnel] /\ tunnel' = [tunnel EXCEPT ![s] = "loop"]
    /\ UNCHANGED <<flagVars, link, current, cancelled, watch, request, remote, linkLosses>>
\* Receive fails when the stream has ended, and only then.
ReceiveFails(s) == tunnel[s] = "loop" /\ link[s] = "lost"
StreamEnds(s) ==
    /\ ReceiveFails(s) /\ tunnel' = [tunnel EXCEPT ![s] = "unregister"]
    /\ UNCHANGED <<flagVars, link, victim, current, cancelled, watch, requestVars, linkLosses>>

\* Mutant: the late handler removes whatever session is registered.
UnregisterTunnelBlind(s) ==
    /\ tunnel[s] = "unregister" /\ RegistryFree /\ current' = NoTunnel
    /\ tunnel' = [tunnel EXCEPT ![s] = "close"]
    /\ UNCHANGED <<flagVars, link, victim, cancelled, watch, requestVars, linkLosses>>
UnregisterTunnel(s) ==
    /\ tunnel[s] = "unregister" /\ RegistryFree
    /\ current' = IF current = s THEN NoTunnel ELSE current
    /\ tunnel' = [tunnel EXCEPT ![s] = "close"]
    /\ UNCHANGED <<flagVars, link, victim, cancelled, watch, requestVars, linkLosses>>
\* Session.close, then drain: the stream is gone when no Send is left.
Teardown(s) ==
    \/ /\ tunnel[s] = "close" /\ cancelled' = cancelled \cup {s} /\ tunnel' = [tunnel EXCEPT ![s] = "closeAll"]
       /\ UNCHANGED <<flagVars, link, victim, current, watch, requestVars, linkLosses>>
    \/ /\ tunnel[s] = "closeAll" /\ closeAll(s, "tunnel_closed") /\ tunnel' = [tunnel EXCEPT ![s] = "none"]
       /\ link' = [link EXCEPT ![s] = "none"]
       /\ UNCHANGED <<flagVars, victim, current, cancelled, watch, request, remote, linkLosses>>

----------------------------------------------------------------------------
(* FlagWatcher.tick *)

Watching(pc, sess) == watch' = [pc |-> pc, sess |-> sess]
WatcherSame == UNCHANGED <<link, tunnel, victim, linkLosses>>
Tick ==
    /\ watch.pc = "idle" /\ Watching("platform", NoTunnel)
    /\ UNCHANGED <<flagVars, current, cancelled, requestVars>> /\ WatcherSame
WatcherReads ==
    /\ \/ watch.pc = "platform" /\ ReadFlag(Watcher, "platform")
       \/ watch.pc = "cluster" /\ ReadFlag(Watcher, "cluster")
    /\ UNCHANGED <<watch, current, cancelled, requestVars>> /\ WatcherSame
WatcherLooks ==
    /\ \/ watch.pc = "platform" /\ \E v \in FlagValue :
             ResolvesTo(Watcher, "platform", v) /\ Watching(IF v = "on" THEN "clusters" ELSE "closeCluster", NoTunnel)
       \/ watch.pc = "cluster" /\ \E v \in FlagValue :
             ResolvesTo(Watcher, "cluster", v) /\ Watching(IF v = "on" THEN "idle" ELSE "closeCluster", NoTunnel)
    /\ UNCHANGED <<current, cancelled, requestVars>> /\ WatcherSame
\* Mutant: only the platform's flag is applied to sessions that are open.
ClustersNone ==
    /\ watch.pc = "clusters" /\ RegistryFree /\ Watching("idle", NoTunnel)
    /\ UNCHANGED <<flagVars, current, cancelled, requestVars>> /\ WatcherSame
\* SessionRegistry.Clusters.
Clusters ==
    /\ watch.pc = "clusters" /\ RegistryFree
    /\ Watching(IF current = NoTunnel THEN "idle" ELSE "cluster", NoTunnel)
    /\ UNCHANGED <<flagVars, current, cancelled, requestVars>> /\ WatcherSame
\* CloseAll and CloseCluster: the entry goes under the mutex, the session is closed after it.
CloseCluster ==
    /\ watch.pc = "closeCluster" /\ RegistryFree /\ current' = NoTunnel
    /\ IF current = NoTunnel THEN Watching("idle", NoTunnel) ELSE Watching("cancel", current)
    /\ UNCHANGED <<flagVars, cancelled, requestVars>> /\ WatcherSame
\* Mutant: the connections are closed before the context is cancelled.
CloseSessionSwapped ==
    \/ /\ watch.pc = "cancel" /\ Watching("closeAll", watch.sess) /\ closeAll(watch.sess, "disabled")
       /\ UNCHANGED <<flagVars, current, cancelled, request, remote>> /\ WatcherSame
    \/ /\ watch.pc = "closeAll" /\ Watching("idle", NoTunnel) /\ cancelled' = cancelled \cup {watch.sess}
       /\ UNCHANGED <<flagVars, current, requestVars>> /\ WatcherSame
CloseSession ==
    \/ /\ watch.pc = "cancel" /\ Watching("closeAll", watch.sess) /\ cancelled' = cancelled \cup {watch.sess}
       /\ UNCHANGED <<flagVars, current, requestVars>> /\ WatcherSame
    \/ /\ watch.pc = "closeAll" /\ Watching("idle", NoTunnel) /\ closeAll(watch.sess, "disabled")
       /\ UNCHANGED <<flagVars, current, cancelled, request, remote>> /\ WatcherSame
WatcherStep == Tick \/ WatcherReads \/ WatcherLooks \/ Clusters \/ CloseCluster \/ CloseSession

----------------------------------------------------------------------------
(* ProxyHandler.ServeHTTP *)

At(q, pc) == request[q].pc = pc
Goes(q, pc) == request' = [request EXCEPT ![q].pc = pc]
Ends(q, how) == request' = [request EXCEPT ![q].pc = "finish", ![q].end = how]
RequestSame == UNCHANGED <<tunnelVars, watch, linkLosses>>

RequestReadsFlag(q) ==
    /\ At(q, "none") /\ ReadFlag(q, "cluster")
    /\ UNCHANGED <<requestVars>> /\ RequestSame
RequestAdmitted(q) ==
    /\ At(q, "none") /\ \E v \in FlagValue : ResolvesTo(q, "cluster", v) /\ Goes(q, IF v = "on" THEN "session" ELSE "done")
    /\ UNCHANGED <<conn, remote>> /\ RequestSame
\* SessionRegistry.Get, after the caller was authorized.
GetSession(q) ==
    /\ At(q, "session") /\ RegistryFree
    /\ request' = [request EXCEPT ![q].pc = IF current = NoTunnel THEN "done" ELSE "alloc", ![q].sess = current]
    /\ UNCHANGED <<flagVars, conn, remote>> /\ RequestSame
\* connMux.alloc, then the open event, which must be written: without it the connection is
\* only removed.
alloc(q) ==
    /\ At(q, "alloc") /\ conn' = [conn EXCEPT ![q] = [NoConn EXCEPT !.in = TRUE]]
    /\ Goes(q, "open") \/ Goes(q, "remove")
    /\ UNCHANGED <<flagVars, remote>> /\ RequestSame
\* Session.Send of the open.
SendOpen(q) ==
    /\ At(q, "open") /\ UNCHANGED <<flagVars, conn>> /\ RequestSame
    /\ \/ /\ request[q].sess \notin cancelled /\ Goes(q, "await")
          /\ remote' = IF link[request[q].sess] = "up" THEN [remote EXCEPT ![q].pc = "dial"] ELSE remote
       \/ /\ request[q].sess \in cancelled \/ link[request[q].sess] # "up"
          /\ Ends(q, "refused") /\ UNCHANGED remote

\* awaitOpenResult: the close, the timer and a message are alternatives of one select.
Pop(q) == conn' = [conn EXCEPT ![q].fromAgent = Tail(@)]
OpenFails(q) ==
    /\ At(q, "await") /\ Ends(q, "failed") /\ SendClose(q)
    /\ \/ conn[q].reason # "none" /\ UNCHANGED conn
       \/ conn[q].fromAgent # <<>> /\ Head(conn[q].fromAgent) = "error" /\ Pop(q)
    /\ UNCHANGED flagVars /\ RequestSame
OpenTimesOut(q) ==
    /\ At(q, "await") /\ Ends(q, "cut") /\ SendClose(q)
    /\ UNCHANGED <<flagVars, conn>> /\ RequestSame
\* The head is written; an upgrade takes the client's connection over, which may fail.
OpenResult(q) ==
    /\ At(q, "await") /\ conn[q].fromAgent # <<>> /\ Head(conn[q].fromAgent) # "error" /\ Pop(q)
    /\ IF Head(conn[q].fromAgent) # "result" THEN UNCHANGED request ELSE Goes(q, "stream") \/ Ends(q, "cut")
    /\ UNCHANGED <<flagVars, remote>> /\ RequestSame

\* The loops of ServeHTTP and spliceUpgrade: a frame is written, or the client is gone.
WriteFrame(q) ==
    /\ At(q, "stream") /\ conn[q].fromAgent # <<>> /\ UNCHANGED flagVars /\ RequestSame
    /\ \/ Head(conn[q].fromAgent) = "frame" /\ request' = [request EXCEPT ![q].wrote = @ + 1] /\ Pop(q) /\ UNCHANGED remote
       \/ /\ Head(conn[q].fromAgent) = "frame" /\ Ends(q, "cut") /\ SendClose(q)
          /\ conn' = [conn EXCEPT ![q] = [CloseConn(conn[q], "client_write_failed") EXCEPT !.fromAgent = Tail(@)]]
       \/ Head(conn[q].fromAgent) = "halfclose" /\ Ends(q, "served") /\ Pop(q) /\ UNCHANGED remote
\* drainPendingFrames: what was delivered before the close is still written, to a client that
\* is there.
FramesIn(messages) == Cardinality({i \in DOMAIN messages : messages[i] = "frame"})
\* Mutant: a close ends the response at once.
PendingNone(q) == 0
Pending(q) == FramesIn(conn[q].fromAgent)
ConnClosed(q) ==
    /\ At(q, "stream") /\ conn[q].reason # "none" /\ conn' = [conn EXCEPT ![q].fromAgent = <<>>]
    /\ \/ request' = [request EXCEPT ![q].pc = "finish", ![q].end = "closed", ![q].wrote = @ + Pending(q)]
       \/ Pending(q) > 0 /\ Ends(q, "cut")
    /\ UNCHANGED <<flagVars, remote>> /\ RequestSame
MaxLifetime(q) ==
    /\ At(q, "stream") /\ Ends(q, "cut") /\ SendClose(q) /\ conn' = [conn EXCEPT ![q] = CloseConn(@, "max_lifetime")]
    /\ UNCHANGED flagVars /\ RequestSame
\* Deferred: the agent is told, the close event is written (a failure is logged), then the
\* connection leaves the mux.
\* Mutant: the agent is told only when nothing else closed the connection.
FinishSilent(q) ==
    /\ At(q, "finish") /\ Goes(q, "remove") /\ IF conn[q].reason = "none" THEN SendClose(q) ELSE UNCHANGED remote
    /\ UNCHANGED <<flagVars, conn>> /\ RequestSame
Finish(q) ==
    /\ At(q, "finish") /\ Goes(q, "remove") /\ SendClose(q)
    /\ UNCHANGED <<flagVars, conn>> /\ RequestSame
remove(q) ==
    /\ At(q, "remove") /\ request' = [request EXCEPT ![q] = [IdleRequest EXCEPT !.pc = "done"]]
    /\ conn' = [conn EXCEPT ![q] = NoConn] /\ remote' = [remote EXCEPT ![q] = IdleRemote]
    /\ UNCHANGED flagVars /\ RequestSame

\* pumpToAgent, while the handler waits or streams: the body cannot be read, or exceeds the
\* cap; its frames and its end change nothing here.
pumpToAgent(q) ==
    /\ request[q].pc \in {"await", "stream"} /\ SendClose(q)
    /\ \/ UNCHANGED conn
       \/ ByteCap > 0 /\ conn' = [conn EXCEPT ![q] = CloseConn(@, "byte_cap_exceeded")]
    /\ UNCHANGED <<flagVars, request>> /\ RequestSame

----------------------------------------------------------------------------
(* The agent's side, and connMux.route for each message that arrives *)

\* A full channel or a spent cap closes the connection; a message for no connection is dropped.
route(q, msg) ==
    LET c == conn[q]
    IN  conn' = IF ~c.in THEN conn
                ELSE IF msg = "close" THEN [conn EXCEPT ![q] = CloseConn(c, "agent")]
                ELSE IF msg = "frame" /\ ByteCap > 0 /\ remote[q].sent >= ByteCap THEN [conn EXCEPT ![q] = CloseConn(c, "byte_cap_exceeded")]
                ELSE IF Len(c.fromAgent) >= ConnChanBounds THEN [conn EXCEPT ![q] = CloseConn(c, "backpressure")]
                ELSE [conn EXCEPT ![q].fromAgent = Append(@, msg), ![q].kept = IF msg = "frame" THEN @ + 1 ELSE @]
AgentSends(q) ==
    /\ request[q].sess # NoTunnel /\ link[request[q].sess] = "up" /\ tunnel[request[q].sess] = "loop"
    /\ \/ /\ remote[q].pc = "dial"
          /\ \/ route(q, "result") /\ remote' = [remote EXCEPT ![q].pc = "body"]
             \/ route(q, "error") /\ remote' = [remote EXCEPT ![q].pc = "done"]
       \/ /\ remote[q].pc = "body" /\ remote[q].sent < MaxTunnelFrames
          /\ route(q, "frame") /\ remote' = [remote EXCEPT ![q].sent = @ + 1]
       \/ /\ remote[q].pc = "body" /\ remote' = [remote EXCEPT ![q].pc = "done"]
          /\ \E m \in {"halfclose", "close"} : route(q, m)
    /\ UNCHANGED <<flagVars, request>> /\ RequestSame
AgentStops(q) ==
    /\ remote[q].told /\ remote[q].pc \in {"dial", "body"} /\ remote' = [remote EXCEPT ![q].pc = "done"]
    /\ UNCHANGED <<flagVars, request, conn>> /\ RequestSame

----------------------------------------------------------------------------
TunnelStep(s) ==
    \/ ConnectReadsFlag(s) \/ ConnectAdmits(s) \/ RegisterTunnel(s) \/ Evict(s) \/ StreamEnds(s)
    \/ UnregisterTunnel(s) \/ Teardown(s)
RequestStep(q) ==
    \/ RequestReadsFlag(q) \/ RequestAdmitted(q) \/ GetSession(q) \/ alloc(q) \/ SendOpen(q)
    \/ OpenFails(q) \/ OpenTimesOut(q) \/ OpenResult(q) \/ WriteFrame(q) \/ ConnClosed(q) \/ MaxLifetime(q)
    \/ Finish(q) \/ remove(q)
FlagsStep == FlagsNext /\ UNCHANGED <<tunnelVars, watch, requestVars, linkLosses>>
StreamsNext == \E s \in Tunnel : Dial(s) \/ LinkBreaks(s) \/ TunnelStep(s)
RequestsNext == \E q \in ProxyConn : RequestStep(q) \/ pumpToAgent(q) \/ AgentSends(q) \/ AgentStops(q)
KubeProxyNext == FlagsStep \/ WatcherStep \/ StreamsNext \/ RequestsNext
\* The server starts, or runs with the flag kept from before its last write and no stream.
KubeProxyInit ==
    /\ FlagsInit \/ \E row \in FlagValue \cup {"none"} : FlagKeptOn(row)
    /\ \E losses \in 0..MaxLinkLosses : TunnelsInit(losses)
KubeProxySpec == KubeProxyInit /\ [][KubeProxyNext]_kubeProxyVars

----------------------------------------------------------------------------
\* A session that is registered and not cancelled is the registered one, or the watcher has
\* taken it out to close it: an older handler that ends late, or a close that overlaps a
\* reconnect, never takes the tunnel from its cluster.
LiveIsCurrent ==
    \A s \in Tunnel : tunnel[s] \in {"evict", "loop"} /\ s \notin cancelled => s \in {current, watch.sess}

\* No request waits on a session that has been closed: whoever allocates its connection after
\* the connections were closed cannot send its open any more.
Closed(s) == /\ s \in cancelled /\ tunnel[s] # "closeAll" /\ watch.sess # s
             /\ \A o \in Tunnel : victim[o] # s
NoStrandedRequest ==
    \A q \in ProxyConn :
        request[q].pc \in {"await", "stream"} /\ Closed(request[q].sess) => conn[q].reason # "none"

\* A response that ended because the agent closed it is complete: every frame that reached the
\* connection before the close was written.
TailWritten ==
    \A q \in ProxyConn :
        request[q].end = "closed" /\ conn[q].reason = "agent" => request[q].wrote = conn[q].kept

\* The agent does not go on with a request nobody waits for: once the handler is gone and its
\* stream still stands, the agent was told, unless it had ended by itself.
NoOrphanAtAgent ==
    \A q \in ProxyConn :
        /\ request[q].pc = "remove" /\ request[q].sess \notin cancelled /\ link[request[q].sess] = "up"
        /\ remote[q].pc \in {"dial", "body"}
        => remote[q].told

\* The tunnel of a cluster, the requests over it and the agent's side of them
\* agree (SessionRegistry, ProxyHandler.ServeHTTP, connMux.remove): only the live
\* session is looked up, nothing waits on a dead one, a tail is written before
\* it is reported, and the agent keeps no request that nobody reads.
KubectlSafe == KubeProxyTypeOK /\ LiveIsCurrent /\ NoStrandedRequest /\ TailWritten /\ NoOrphanAtAgent

Off == resolveUncached("cluster") = "off"
Serving == \E s \in Tunnel : s \notin cancelled /\ tunnel[s] = "loop"
\* Once access stays off, no session stays open and no request is carried, whatever was
\* admitted on an older value and whichever values were still kept.
SwitchedOff == <>[]Off => <>[](~Serving /\ \A q \in ProxyConn : request[q].pc \notin {"open", "await", "stream"})

=============================================================================
