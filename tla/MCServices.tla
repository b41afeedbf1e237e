----------------------------- MODULE MCServices -----------------------------
(* Model-checking instance of services behind the API: the deployment of      *)
(* instances, repositories, add-ons, the extension host and its proxy,       *)
(* identity clients and providers, the git connections of users.  It is the  *)
(* union (not the product) of components that share no state: a behaviour is *)
(* one component's, chosen by focus in its initial state; the others rest in *)
(* one initial state.                                                        *)
EXTENDS Deploy, GitRepos, Addons, ExtensionHost, ExtensionProxy, Identity, UserGit, TLC

CONSTANTS v1, v2, t1, t2, a1, a2, p1, p2, k1, k2, nil

VARIABLE focus

MCRoles == "pe" :> "admin" @@ "dev" :> "editor"
MCTeams == "pe" :> {} @@ "dev" :> {"team"}
MCRepoOf == [k \in AddonCluster \cup {"*"} |-> "g"]
MCSubjectOf == "tp" :> "pe" @@ "td" :> "dev"
MCMethod(method, audience, isDefault) == [method |-> method, audience |-> audience, isDefault |-> isDefault]
MCManifests ==
    {<<>>, <<MCMethod("api-key", "", FALSE)>>,
     <<MCMethod("oidc-user", "", FALSE), MCMethod("oidc-sso-session", "argo", TRUE)>>,
     <<MCMethod("oidc-user", "argo", TRUE)>>}

serviceVars == <<focus, deployVars, repoVars, addonVars, extensionVars, proxyVars, identityVars, userGitVars>>
ServicesInit ==
    /\ focus \in {"deploy", "repos", "addons", "extensions", "proxy", "identity", "git"}
    /\ DeployInit /\ ReposInit /\ AddonInit /\ ExtensionInit /\ ProxyInit /\ IdentityInit /\ UserGitInit
    /\ focus # "deploy" => gated /\ commitPolicy = "direct"
    /\ focus # "extensions" => \A i \in ExtId : ~extRow[i].live
    /\ focus # "proxy" => proxyExt.offered = <<>>
    /\ focus # "git" => gitConn = NoConnection
ServicesNext ==
    \/ focus = "deploy" /\ DeployNext
       /\ UNCHANGED <<focus, repoVars, addonVars, extensionVars, proxyVars, identityVars, userGitVars>>
    \/ focus = "repos" /\ ReposNext
       /\ UNCHANGED <<focus, deployVars, addonVars, extensionVars, proxyVars, identityVars, userGitVars>>
    \/ focus = "addons" /\ AddonNext
       /\ UNCHANGED <<focus, deployVars, repoVars, extensionVars, proxyVars, identityVars, userGitVars>>
    \/ focus = "extensions" /\ ExtensionNext
       /\ UNCHANGED <<focus, deployVars, repoVars, addonVars, proxyVars, identityVars, userGitVars>>
    \/ focus = "proxy" /\ ProxyNext
       /\ UNCHANGED <<focus, deployVars, repoVars, addonVars, extensionVars, identityVars, userGitVars>>
    \/ focus = "identity" /\ IdentityNext
       /\ UNCHANGED <<focus, deployVars, repoVars, addonVars, extensionVars, proxyVars, userGitVars>>
    \/ focus = "git" /\ UserGitNext
       /\ UNCHANGED <<focus, deployVars, repoVars, addonVars, extensionVars, proxyVars, identityVars>>
ServicesSpec == ServicesInit /\ [][ServicesNext]_serviceVars

\* Every component is well typed.
ServicesTypeOK ==
    /\ DeployTypeOK /\ ReposTypeOK /\ AddonTypeOK
    /\ ExtensionTypeOK /\ ProxyTypeOK /\ IdentityTypeOK /\ UserGitTypeOK

\* What the rows say of repositories, the secret store and clusters is true there, wherever calls
\* overlap, fail or stop: a registered application is committed and a recorded one registered
\* under its id (Deploy), a managed addon is registered under its own (Addons), a hook and the vault hold the same secret
\* (GitRepos).  The components are well typed.
RecordsAreTrue ==
    /\ ServicesTypeOK
    /\ RegisteredIsCommitted /\ RecordedIsRegistered /\ LiveIsRegistered /\ SecretsAgree

\* Rows and Keycloak agree on clients and providers, over undone, overlapping and failing calls: of
\* extensions (ExtensionHost) and of tenants (Identity).
ClientsAgree == ReadyHasClient /\ ClientAgrees /\ NoOrphanClient /\ AgreeAlone

\* What two kinds of call must not take away, though they write back what they read before: the
\* flag that says pruning was enabled stays as long as its row (Addons; the row's flag only, git
\* may lose it to an update that read the row before), and the removal of a UI leaves the
\* backend, its state and its client (ExtensionHost).
RowsSurvive == [][PruneKept /\ UiLeavesBackend]_serviceVars

\* A cached credential is that of the user who asked, alive, and persisted, is not thrown away
\* while it is good, and an authorization is completed once (ExtensionProxy, UserGit).
TokensRight ==
    CredentialOfUser /\ TokenAlive /\ NoFalseWipe /\ CachedIsPersisted /\ CallbackOnce
=============================================================================
