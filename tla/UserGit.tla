------------------------------- MODULE UserGit -------------------------------
(***************************************************************************)
(* internal/usergit: the connection of one user to one git provider.  The  *)
(* provider rotates the refresh token at every use and refuses an old one, *)
(* which the service takes for a replay and answers by wiping the          *)
(* connection.  Access tokens and pending authorizations are in the memory *)
(* of a replica.  Refresh tokens are numbered in the order of their issue. *)
(***************************************************************************)
EXTENDS Caller, Naturals

CONSTANTS GitServer,                 \* replicas
          GitCall,                   \* calls in progress at once
          AuthState,                 \* states of authorizations
          MaxGitTokens, MaxGitCalls, MaxGitFaults  \* bounds

ASSUME UserGitAssumption ==
    /\ GitServer # {} /\ AuthState # {}
    /\ MaxGitTokens \in Nat \ {0} /\ MaxGitCalls \in Nat /\ MaxGitFaults \in Nat

VARIABLES gitConn,     \* the row of user_git_connections
          grant,       \* refresh tokens the provider accepts
          gitIssued,   \* refresh tokens issued so far
          accessCache, \* Service.cache of each replica
          gitCall,     \* calls in progress
          nonces,      \* StateManager.nonces of each replica
          connected,   \* how many connections each state made
          compromised, \* a connection was wiped as replayed
          gitDoubt,    \* a fault, or calls that nothing keeps apart
          gitCalls, gitFaults  \* bounds

userGitVars == <<gitConn, grant, gitIssued, accessCache, gitCall, nonces, connected, compromised, gitDoubt, gitCalls, gitFaults>>

GitToken == 1 .. MaxGitTokens
EncryptedRow == [id : 0 .. MaxGitTokens, refresh : 0 .. MaxGitTokens]
NoConnection == [id |-> 0, refresh |-> 0]
cachedAccess == [id : GitToken, minted : GitToken]
IdleGit == [op |-> "none", pc |-> "idle", at |-> CHOOSE s \in GitServer : TRUE, row |-> NoConnection, new |-> 0, state |-> CHOOSE t \in AuthState : TRUE]

GitCallRow ==
    [op : {"none", "access", "complete", "disconnect"},
     pc : {"idle", "cache", "flight", "wait", "refresh", "persist", "keep", "wipe", "exchange", "upsert", "revoke", "delete", "forget"},
     at : GitServer, row : EncryptedRow, new : 0 .. MaxGitTokens, state : AuthState]

\* Row, caches, calls and pending authorizations are well formed.
UserGitTypeOK ==
    /\ gitConn \in EncryptedRow /\ grant \subseteq GitToken /\ gitIssued \in 0 .. MaxGitTokens
    /\ accessCache \in [GitServer -> SUBSET cachedAccess]
    /\ gitCall \in [GitCall -> GitCallRow]
    /\ nonces \in [GitServer -> SUBSET AuthState] /\ connected \in [AuthState -> Nat]
    /\ compromised \in BOOLEAN /\ gitDoubt \in BOOLEAN /\ gitCalls \in 0 .. MaxGitCalls /\ gitFaults \in 0 .. MaxGitFaults

UserGitInit ==
    /\ gitConn \in {NoConnection, [id |-> 1, refresh |-> 1]} /\ grant = {gitConn.id} \ {0} /\ gitIssued = 1
    /\ accessCache = [s \in GitServer |-> {}] /\ gitCall = [c \in GitCall |-> IdleGit]
    /\ nonces = [s \in GitServer |-> {}] /\ connected = [t \in AuthState |-> 0]
    /\ compromised = FALSE /\ gitDoubt = FALSE /\ gitCalls = 0 /\ gitFaults = 0

-----------------------------------------------------------------------------
(* Calls *)

gitBusy(c) == gitCall[c].pc # "idle"
GitGoto(c, pc) == gitCall' = [gitCall EXCEPT ![c].pc = pc]
GitReturn(c) == gitCall' = [gitCall EXCEPT ![c] = IdleGit]
\* A refresh that ends is the answer of every call that waits for it.
FlightReturns(c) ==
    gitCall' = [d \in GitCall |-> IF d = c \/ (gitCall[d].pc = "wait" /\ gitCall[d].at = gitCall[c].at /\ gitCall[d].row.id = gitCall[c].row.id)
                                  THEN IdleGit ELSE gitCall[d]]
GitBegins(c, call) ==
    /\ ~gitBusy(c) /\ gitCalls < MaxGitCalls /\ gitCalls' = gitCalls + 1 /\ gitCall' = [gitCall EXCEPT ![c] = call]
    /\ gitDoubt' = (gitDoubt \/ \E d \in GitCall : gitBusy(d) /\ ~(gitCall[d].op = "access" /\ call.op = "access" /\ gitCall[d].at = call.at))
GitFault == gitFaults < MaxGitFaults /\ gitFaults' = gitFaults + 1 /\ gitDoubt' = TRUE
gitBoundsSame == UNCHANGED <<gitDoubt, gitCalls, gitFaults>>

-----------------------------------------------------------------------------
(* The row *)

GetEncrypted == gitConn # NoConnection
UpsertEncrypted(token) == gitConn' = [id |-> token, refresh |-> token]
\* By organization, user and provider, whatever the id.
DeleteRow == gitConn' = NoConnection
UpdateRefreshToken(row, token) == gitConn.id = row.id /\ gitConn' = [gitConn EXCEPT !.refresh = token]

(* The provider *)

Issues(kept) == gitIssued < MaxGitTokens /\ gitIssued' = gitIssued + 1 /\ grant' = kept \cup {gitIssued + 1}
\* A rotation leaves the old token behind.
ProviderRefresh(token) == token \in grant /\ Issues(grant \ {token})
\* The token is refused; or the credentials of the application are, which is mapped alike.
ErrGrantInvalid(token) == (token \notin grant /\ gitBoundsSame) \/ (GitFault /\ UNCHANGED gitCalls)
ProviderExchange == Issues(grant)
\* The grant goes with the access token that was minted to revoke it.
ProviderRevoke(token) == grant' = grant \ {token} /\ UNCHANGED gitIssued

-----------------------------------------------------------------------------
(* Access tokens *)

cachedToken(s, id) == \E e \in accessCache[s] : e.id = id
dropCache(s, id) == accessCache' = [accessCache EXCEPT ![s] = {e \in @ : e.id # id}]
AccessToken(c, s) ==
    /\ GetEncrypted /\ GitBegins(c, [IdleGit EXCEPT !.op = "access", !.pc = "cache", !.at = s, !.row = gitConn])
    /\ UNCHANGED <<gitConn, grant, gitIssued, accessCache, nonces, connected, compromised, gitFaults>>
AccessFromCache(c) ==
    /\ gitCall[c].pc = "cache" /\ (IF cachedToken(gitCall[c].at, gitCall[c].row.id) THEN GitReturn(c) ELSE GitGoto(c, "flight"))
    /\ UNCHANGED <<gitConn, grant, gitIssued, accessCache, nonces, connected, compromised>> /\ gitBoundsSame
inFlight(c) ==
    \E d \in GitCall \ {c} : gitCall[d].pc \in {"refresh", "persist", "keep", "wipe"} /\ gitCall[d].at = gitCall[c].at /\ gitCall[d].row.id = gitCall[c].row.id
\* Mutant: the first of a flight does not look at the cache again.
singleflightBlind(c) ==
    /\ gitCall[c].pc = "flight" /\ GitGoto(c, IF inFlight(c) THEN "wait" ELSE "refresh")
    /\ UNCHANGED <<gitConn, grant, gitIssued, accessCache, nonces, connected, compromised>> /\ gitBoundsSame
\* One refresh of a connection at a time in a replica; the first looks at the cache again.
singleflight(c) ==
    /\ gitCall[c].pc = "flight"
    /\ IF inFlight(c) THEN GitGoto(c, "wait")
       ELSE IF cachedToken(gitCall[c].at, gitCall[c].row.id) THEN GitReturn(c) ELSE GitGoto(c, "refresh")
    /\ UNCHANGED <<gitConn, grant, gitIssued, accessCache, nonces, connected, compromised>> /\ gitBoundsSame
\* The token is the one of the row that was read before the flight.
refresh(c) ==
    /\ gitCall[c].pc = "refresh"
    /\ \/ /\ ProviderRefresh(gitCall[c].row.refresh)
          /\ gitCall' = [gitCall EXCEPT ![c].pc = "persist", ![c].new = gitIssued + 1] /\ gitBoundsSame
       \/ ErrGrantInvalid(gitCall[c].row.refresh) /\ GitGoto(c, "wipe") /\ UNCHANGED <<grant, gitIssued>>
    /\ UNCHANGED <<gitConn, accessCache, nonces, connected, compromised>>
\* Mutant: the answer counts whether the row was written or not.
refreshPersistsUnwritten(c) ==
    /\ gitCall[c].pc = "persist" /\ GitGoto(c, "keep")
    /\ UNCHANGED <<gitConn, grant, gitIssued, accessCache, nonces, connected, compromised>> /\ gitBoundsSame
\* The rotated token is in the row before the access token is given to anyone.
refreshPersists(c) ==
    /\ gitCall[c].pc = "persist"
    /\ \/ UpdateRefreshToken(gitCall[c].row, gitCall[c].new) /\ GitGoto(c, "keep")
       \/ gitConn.id # gitCall[c].row.id /\ FlightReturns(c) /\ UNCHANGED gitConn
    /\ UNCHANGED <<grant, gitIssued, accessCache, nonces, connected, compromised>> /\ gitBoundsSame
refreshKeeps(c) ==
    LET r == gitCall[c]
    IN /\ r.pc = "keep" /\ FlightReturns(c)
       /\ accessCache' = [accessCache EXCEPT ![r.at] = {e \in @ : e.id # r.row.id} \cup {[id |-> r.row.id, minted |-> r.new]}]
       /\ UNCHANGED <<gitConn, grant, gitIssued, nonces, connected, compromised>> /\ gitBoundsSame
\* The removal is attempted once.
compromise(c) ==
    /\ gitCall[c].pc = "wipe" /\ FlightReturns(c) /\ dropCache(gitCall[c].at, gitCall[c].row.id)
    /\ \/ DeleteRow /\ compromised' = TRUE /\ gitBoundsSame
       \/ GitFault /\ UNCHANGED <<gitConn, compromised, gitCalls>>
    /\ UNCHANGED <<grant, gitIssued, nonces, connected>>
\* The provider fails before it rotates; or after, when the lookup of the login fails and
\* the new token is lost; or the row cannot be written.
RefreshFails(c) ==
    /\ \/ gitCall[c].pc = "refresh" /\ UNCHANGED <<grant, gitIssued>>
       \/ gitCall[c].pc = "refresh" /\ ProviderRefresh(gitCall[c].row.refresh)
       \/ gitCall[c].pc = "persist" /\ UNCHANGED <<grant, gitIssued>>
    /\ GitFault /\ FlightReturns(c) /\ UNCHANGED <<gitConn, accessCache, nonces, connected, compromised, gitCalls>>
\* An access token lives for hours, a call for seconds.
AccessExpires(s) ==
    /\ \A c \in GitCall : ~gitBusy(c) \/ gitCall[c].at # s
    /\ accessCache[s] # {} /\ accessCache' = [accessCache EXCEPT ![s] = {}]
    /\ UNCHANGED <<gitConn, grant, gitIssued, gitCall, nonces, connected, compromised>> /\ gitBoundsSame

-----------------------------------------------------------------------------
(* Connecting *)

\* The state of an authorization is known to the replica that issued it.
Issue(s, t) ==
    /\ connected[t] = 0 /\ \A r \in GitServer : t \notin nonces[r]
    /\ nonces' = [nonces EXCEPT ![s] = @ \cup {t}]
BeginAuthorize(s, t) ==
    /\ gitCalls < MaxGitCalls /\ gitCalls' = gitCalls + 1 /\ Issue(s, t)
    /\ \A c \in GitCall : gitBusy(c) => gitCall[c].state # t \/ gitCall[c].op # "complete"
    /\ UNCHANGED <<gitConn, grant, gitIssued, accessCache, gitCall, connected, compromised, gitDoubt, gitFaults>>
\* Mutant: a state stays valid until it is too old.
ValidateKeeps(s, t) == t \in nonces[s] /\ UNCHANGED nonces
Validate(s, t) == t \in nonces[s] /\ nonces' = [nonces EXCEPT ![s] = @ \ {t}]
CompleteAuthorize(c, s, t) ==
    /\ Validate(s, t) /\ GitBegins(c, [IdleGit EXCEPT !.op = "complete", !.pc = "exchange", !.at = s, !.state = t])
    /\ UNCHANGED <<gitConn, grant, gitIssued, accessCache, connected, compromised, gitFaults>>
CompleteExchanges(c) ==
    /\ gitCall[c].pc = "exchange" /\ UNCHANGED <<gitConn, accessCache, nonces, connected, compromised>> /\ gitBoundsSame
    /\ \/ ProviderExchange /\ gitCall' = [gitCall EXCEPT ![c].pc = "upsert", ![c].new = gitIssued + 1]
       \/ GitReturn(c) /\ UNCHANGED <<grant, gitIssued>>
CompleteUpserts(c) ==
    /\ gitCall[c].pc = "upsert" /\ UpsertEncrypted(gitCall[c].new) /\ dropCache(gitCall[c].at, gitCall[c].new) /\ GitReturn(c)
    /\ connected' = [connected EXCEPT ![gitCall[c].state] = @ + 1]
    /\ UNCHANGED <<grant, gitIssued, nonces, compromised>> /\ gitBoundsSame

-----------------------------------------------------------------------------
(* Disconnecting *)

Disconnect(c, s) ==
    /\ GetEncrypted /\ GitBegins(c, [IdleGit EXCEPT !.op = "disconnect", !.pc = "revoke", !.at = s, !.row = gitConn])
    /\ UNCHANGED <<gitConn, grant, gitIssued, accessCache, nonces, connected, compromised, gitFaults>>
\* A refresh to obtain a token that can be revoked; nothing of it stops the removal.
DisconnectRevokes(c) ==
    /\ gitCall[c].pc = "revoke" /\ GitGoto(c, "delete")
    /\ \/ ProviderRevoke(gitCall[c].row.refresh)
       \/ ProviderRefresh(gitCall[c].row.refresh)
       \/ UNCHANGED <<grant, gitIssued>>
    /\ UNCHANGED <<gitConn, accessCache, nonces, connected, compromised>> /\ gitBoundsSame
DisconnectDeletes(c) ==
    /\ gitCall[c].pc = "delete" /\ (IF GetEncrypted THEN GitGoto(c, "forget") ELSE GitReturn(c)) /\ DeleteRow
    /\ UNCHANGED <<grant, gitIssued, accessCache, nonces, connected, compromised>> /\ gitBoundsSame
DisconnectForgets(c) ==
    /\ gitCall[c].pc = "forget" /\ dropCache(gitCall[c].at, gitCall[c].row.id) /\ GitReturn(c)
    /\ UNCHANGED <<gitConn, grant, gitIssued, nonces, connected, compromised>> /\ gitBoundsSame

-----------------------------------------------------------------------------
(* Routes *)

authorizeConnections(u) == Authorized(u, "tenant_read")
authorize(u, s) == authorizeConnections(u) /\ \E t \in AuthState : BeginAuthorize(s, t)
\* The browser may follow the redirect again.
callback(c, s) == \E t \in AuthState : CompleteAuthorize(c, s, t)
disconnect(u, c, s) == authorizeConnections(u) /\ Disconnect(c, s)
GitCallStep(c) ==
    \/ AccessFromCache(c) \/ singleflight(c) \/ refresh(c) \/ refreshPersists(c) \/ refreshKeeps(c) \/ compromise(c) \/ RefreshFails(c)
    \/ CompleteExchanges(c) \/ CompleteUpserts(c) \/ DisconnectRevokes(c) \/ DisconnectDeletes(c) \/ DisconnectForgets(c)
UserGitNext ==
    \/ \E c \in GitCall : GitCallStep(c)
    \/ \E c \in GitCall, s \in GitServer : AccessToken(c, s) \/ callback(c, s) \/ \E u \in User : disconnect(u, c, s)
    \/ \E s \in GitServer : AccessExpires(s) \/ \E u \in User : authorize(u, s)

-----------------------------------------------------------------------------
(* Properties *)

\* A connection is never wiped as replayed because of the server's own refreshes: however
\* many calls of a replica need a token at once, the provider sees each refresh token once.
\* Calls of two replicas, a disconnect or a new connection beside a call, and faults are excepted,
\* among them a provider that refuses the application's own credentials (OnlyReplaysWipe below).
NoFalseWipe == compromised => gitDoubt

\* An access token that is kept was never ahead of the row: the refresh token it came with
\* is stored, or the row has a later one, also when writing the row failed.
CachedIsPersisted ==
    \A s \in GitServer : \A e \in accessCache[s] : e.id = gitConn.id => e.minted <= gitConn.refresh

\* One authorization makes at most one connection, however often its callback arrives and
\* whichever replica it reaches.
CallbackOnce == \A t \in AuthState : connected[t] <= 1

-----------------------------------------------------------------------------
(* A statement the code does not keep: TLC finds a counterexample (README, *)
(* "What the code does not keep").                                         *)

\* ErrGrantInvalid is documented as a refused refresh token, "rotated away or revoked": so only such
\* a token would cost its connection.  incorrect_client_credentials is mapped to it as well, and one
\* wrong secret of the application wipes every connection that is used meanwhile.
OnlyReplaysWipe == \A c \in GitCall : gitCall[c].pc = "wipe" => gitCall[c].row.refresh \notin grant
=============================================================================
