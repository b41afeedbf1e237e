--------------------------- MODULE ExtensionProxy ---------------------------
(***************************************************************************)
(* internal/extensionhost, proxy.go, authmodel.go, exchange.go, sessions:  *)
(* a request to an extension is given a credential of its user, exchanged  *)
(* at Keycloak and kept for a while, or a session the user handed in.      *)
(* Time is a counter; an exchange takes at most ExchangeTimeout.  There is *)
(* one extension, so its name and organization, which are parts of the     *)
(* keys of tokens and sessions, are left out of them.                      *)
(***************************************************************************)
EXTENDS Caller, Integers, Sequences

CONSTANTS Audience,                   \* downstream audiences and providers, "" for none
          ExtensionName,
          Manifests,                  \* what an extension may declare: sequences of methods
          SubjectToken, SubjectOf,    \* the callers' tokens, and whose they are
          ProxyRequest,              \* requests in progress at once
          TokenLife,                 \* lifetimes Keycloak may answer, 0 for none given
          ExchangeCacheMaxTTL, DefaultExchangeTokenTTL, ExchangeTimeout, SessionTTL, SessionMaxTTL,
          MaxProxyRequests, MaxProxyTime  \* bounds

AuthMethod == {"oidc-user", "oidc-sso-session", "api-key"}
DeclaredAuthMethod == [method : AuthMethod, audience : Audience, isDefault : BOOLEAN]

ASSUME ProxyAssumption ==
    /\ Manifests \subseteq Seq(DeclaredAuthMethod) /\ {"", ExtensionName} \subseteq Audience
    /\ SubjectOf \in [SubjectToken -> User] /\ SubjectToken # {}
    /\ TokenLife \subseteq Nat /\ {ExchangeCacheMaxTTL, ExchangeTimeout, SessionTTL, SessionMaxTTL} \subseteq Nat
    /\ DefaultExchangeTokenTTL \in Nat \ {0}
    /\ MaxProxyRequests \in Nat /\ MaxProxyTime \in Nat

VARIABLES proxyExt,     \* the registered extension: its state and the methods it offers
          proxyRequest, \* requests in progress
          exchanged,    \* KeycloakExchanger.cache
          session,      \* user_extension_sessions of this extension
          forwarded,    \* credentials sent to the extension in the last step
          clock, proxyAsked

proxyVars == <<proxyExt, proxyRequest, exchanged, session, forwarded, clock, proxyAsked>>

Time == 0 .. MaxProxyTime
\* Whose credential and for which audience; who asked and for which audience; when, and how
\* long the credential lives.
ResolvedAuth == [of : User, for : Audience, to : User, asked : Audience, at : Time, until : Nat, method : AuthMethod]
exchangeCacheEntry == [key : SubjectToken \X Audience, of : User, for : Audience, expiry : Nat, until : Nat]
\* The row's expiry; whether the credential says when it ends, and when it does.
UserSession == [user : User, provider : Audience, expiry : Nat, says : BOOLEAN, until : Nat]
IdleProxy == [pc |-> "idle", subject |-> CHOOSE s \in SubjectToken : TRUE, ext |-> <<>>, since |-> 0, life |-> 0]

\* Requests, the cache of tokens and the sessions are well formed.
ProxyTypeOK ==
    /\ proxyExt \in [ready : BOOLEAN, offered : Manifests]
    /\ proxyRequest \in [ProxyRequest ->
          [pc : {"idle", "resolve", "exchange", "store"}, subject : SubjectToken, ext : Manifests \cup {<<>>},
           since : Time, life : TokenLife \cup {0}]]
    /\ exchanged \subseteq exchangeCacheEntry /\ session \subseteq UserSession /\ forwarded \subseteq ResolvedAuth
    /\ clock \in Time /\ proxyAsked \in 0 .. MaxProxyRequests

ProxyInit ==
    /\ proxyExt \in [ready : {TRUE}, offered : Manifests]
    /\ proxyRequest = [q \in ProxyRequest |-> IdleProxy] /\ exchanged = {} /\ session = {} /\ forwarded = {}
    /\ clock = 0 /\ proxyAsked = 0

ProxyEnds(q) == proxyRequest' = [proxyRequest EXCEPT ![q] = IdleProxy]
before(expiry) == clock < expiry

-----------------------------------------------------------------------------
(* Which method *)

\* No declaration means oidc-user.
declaredAuthMethods(offered) == IF offered = <<>> THEN <<[method |-> "oidc-user", audience |-> "", isDefault |-> TRUE]>> ELSE offered
\* The first that is declared the default, or the first.
pickAuthMethod(offered) ==
    LET methods == declaredAuthMethods(offered)
        default == {i \in DOMAIN methods : methods[i].isDefault /\ \A j \in 1 .. i - 1 : ~methods[j].isDefault}
    IN methods[IF default = {} THEN 1 ELSE CHOOSE i \in default : TRUE]

\* A session is kept under the audience of the method, or the name of the extension.
sessionProviderFor(offered) ==
    LET audience == pickAuthMethod(offered).audience IN IF audience = "" THEN ExtensionName ELSE audience

-----------------------------------------------------------------------------
(* The token exchange and its cache *)

\* Mutant: one token for all callers of an extension.
exchangeCacheKeyExtension(s, audience) == <<CHOOSE x \in SubjectToken : TRUE, audience>>
exchangeCacheKey(s, audience) == <<s, audience>>
\* Mutant: a kept token is used however old it is.
cachedAny(s, audience) == {e \in exchanged : e.key = exchangeCacheKey(s, audience)}
cached(s, audience) == {e \in exchanged : e.key = exchangeCacheKey(s, audience) /\ before(e.expiry)}
\* What is out of date goes when something is stored; the new entry replaces the old one.
storeToken(entry) == exchanged' = {e \in exchanged : before(e.expiry) /\ e.key # entry.key} \cup {entry}
Credential(q, of, for, until, asked, method) ==
    [of |-> of, for |-> for, to |-> SubjectOf[proxyRequest[q].subject], asked |-> asked, at |-> clock, until |-> until,
     method |-> method]
AudienceAsked(q) == pickAuthMethod(proxyRequest[q].ext).audience
Exchange(q) ==
    LET s == proxyRequest[q].subject  audience == AudienceAsked(q)
    IN /\ IF cached(s, audience) = {}
          THEN proxyRequest' = [proxyRequest EXCEPT ![q].pc = "exchange", ![q].since = clock] /\ forwarded' = {}
          ELSE /\ ProxyEnds(q)
               /\ \E e \in cached(s, audience) : forwarded' = {Credential(q, e.of, e.for, e.until, audience, "oidc-user")}
       /\ UNCHANGED <<exchanged, session>>
\* Keycloak issues the token at some moment of the call.
KeycloakIssues(q) ==
    /\ proxyRequest[q].pc = "exchange"
    /\ \E life \in TokenLife : proxyRequest' = [proxyRequest EXCEPT ![q].pc = "store", ![q].since = clock, ![q].life = life]
    /\ forwarded' = {} /\ UNCHANGED <<proxyExt, exchanged, session, clock, proxyAsked>>
\* Denied, unavailable, or out of time.
ExchangeFails(q) ==
    /\ proxyRequest[q].pc \in {"exchange", "store"} /\ ProxyEnds(q) /\ forwarded' = {}
    /\ UNCHANGED <<proxyExt, exchanged, session, clock, proxyAsked>>
capped(life, most) == IF life > most THEN most ELSE life
lifeOf(life) == IF life = 0 THEN DefaultExchangeTokenTTL ELSE life
\* The age of an entry counts from the answer, not from the issue.
ExchangeReturns(q) ==
    LET r == proxyRequest[q]  audience == AudienceAsked(q)  until == r.since + lifeOf(r.life)
        life == capped(lifeOf(r.life), ExchangeCacheMaxTTL)
    IN /\ r.pc = "store" /\ ProxyEnds(q)
       /\ forwarded' = {Credential(q, SubjectOf[r.subject], audience, until, audience, "oidc-user")}
       /\ storeToken([key |-> exchangeCacheKey(r.subject, audience), of |-> SubjectOf[r.subject], for |-> audience,
                      expiry |-> clock + life, until |-> until])
       /\ UNCHANGED <<proxyExt, session, clock, proxyAsked>>

-----------------------------------------------------------------------------
(* Sessions *)

\* The user's session for a provider; the caller looks at its expiry.
getSession(u, provider) == {s \in session : s.user = u /\ s.provider = provider}
ssoResolve(q) ==
    LET u == SubjectOf[proxyRequest[q].subject]  provider == sessionProviderFor(proxyRequest[q].ext)
    IN /\ ProxyEnds(q) /\ UNCHANGED <<exchanged, session>>
       /\ forwarded' = {Credential(q, s.user, s.provider, s.until, provider, "oidc-sso-session") :
                           s \in {x \in getSession(u, provider) : before(x.expiry)}}
\* The caller's wish comes first, capped; then what the credential says of its own end, which may be
\* past; then the default.
sessionExpiry(wish, says, until) ==
    CASE wish > 0 -> clock + capped(wish, SessionMaxTTL)
      [] wish = 0 /\ says -> until
      [] OTHER -> clock + SessionTTL
PutSession(u, provider, expiry, says, until) ==
    session' = (session \ getSession(u, provider))
                  \cup {[user |-> u, provider |-> provider, expiry |-> expiry, says |-> says, until |-> until]}
DeleteSession(u, provider) == session' = session \ getSession(u, provider)
ProxyAsks == proxyAsked < MaxProxyRequests /\ proxyAsked' = proxyAsked + 1
putSession(u) ==
    /\ Authorized(u, "extensions_invoke") /\ ProxyAsks
    /\ \E wish \in TokenLife \cup {0}, life \in TokenLife, says \in BOOLEAN :
          PutSession(u, sessionProviderFor(proxyExt.offered), sessionExpiry(wish, says, clock + life), says, clock + life)
    /\ forwarded' = {} /\ UNCHANGED <<proxyExt, proxyRequest, exchanged, clock>>
deleteSession(u) ==
    /\ Authorized(u, "extensions_invoke") /\ ProxyAsks
    /\ DeleteSession(u, sessionProviderFor(proxyExt.offered)) /\ getSession(u, sessionProviderFor(proxyExt.offered)) # {}
    /\ forwarded' = {} /\ UNCHANGED <<proxyExt, proxyRequest, exchanged, clock>>

-----------------------------------------------------------------------------
(* Requests *)

ProxyServe(s, q) ==
    /\ proxyRequest[q].pc = "idle" /\ proxyExt.ready /\ Authorized(SubjectOf[s], "extensions_invoke") /\ ProxyAsks
    /\ proxyRequest' = [proxyRequest EXCEPT ![q] = [IdleProxy EXCEPT !.pc = "resolve", !.subject = s, !.ext = proxyExt.offered]]
    /\ forwarded' = {} /\ UNCHANGED <<proxyExt, exchanged, session, clock>>
\* The method is the one the extension declared when the request came.
Resolve(q) ==
    /\ proxyRequest[q].pc = "resolve" /\ UNCHANGED <<proxyExt, clock, proxyAsked>>
    /\ LET method == pickAuthMethod(proxyRequest[q].ext).method
       IN \/ method = "oidc-user" /\ Exchange(q)
          \/ method = "oidc-sso-session" /\ ssoResolve(q)
          \/ method = "api-key" /\ ProxyEnds(q) /\ forwarded' = {} /\ UNCHANGED <<exchanged, session>>
\* The extension is registered anew, or degrades and recovers.
ProxyExtensionChanges ==
    /\ \E r \in BOOLEAN, m \in Manifests : proxyExt' = [ready |-> r, offered |-> m] /\ proxyExt' # proxyExt
    /\ forwarded' = {} /\ UNCHANGED <<proxyRequest, exchanged, session, clock, proxyAsked>>
\* An exchange that takes longer than its timeout fails first.
Tick ==
    /\ clock < MaxProxyTime /\ clock' = clock + 1 /\ forwarded' = {}
    /\ \A q \in ProxyRequest : proxyRequest[q].pc \in {"exchange", "store"} => clock < proxyRequest[q].since + ExchangeTimeout
    /\ UNCHANGED <<proxyExt, proxyRequest, exchanged, session, proxyAsked>>

ProxyNext ==
    \/ Tick \/ ProxyExtensionChanges
    \/ \E u \in User : putSession(u) \/ deleteSession(u)
    \/ \E s \in SubjectToken, q \in ProxyRequest : ProxyServe(s, q)
    \/ \E q \in ProxyRequest : Resolve(q) \/ KeycloakIssues(q) \/ ExchangeFails(q) \/ ExchangeReturns(q)

-----------------------------------------------------------------------------
(* Properties *)

\* The credential a request carries is one of the user who made it, for the audience the
\* extension declared when it came, whichever tokens and sessions are kept and however the
\* declaration has changed since they were.
CredentialOfUser == \A f \in forwarded : f.of = f.to /\ f.for = f.asked

\* No exchanged token is forwarded after it is over by more than the time its exchange took: its
\* age is counted from the answer.  (Of a session's credential the code knows less:
\* SessionAlive below.)
TokenAlive == \A f \in forwarded : f.method = "oidc-user" => f.at < f.until + ExchangeTimeout

-----------------------------------------------------------------------------
(* A statement the code does not keep: TLC finds a counterexample (README, *)
(* "What the code does not keep").                                         *)

\* sessionExpiry "prefers the material's own exp claim when it is JWT-shaped": so no session would
\* outlive a credential that says when it ends.  A wish of the caller comes before the claim, and
\* the credential is forwarded after its end.
SessionAlive == \A s \in session : s.says => s.expiry <= s.until
=============================================================================
