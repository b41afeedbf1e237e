------------------------------ MODULE GitRepos ------------------------------
(***************************************************************************)
(* internal/gitrepos with the tenant_git_repos part of internal/inventory  *)
(* and the webhook provisioning of internal/gitwebhook: the registered     *)
(* GitOps repositories of one organization, its default, the guarded       *)
(* removal, and the webhook secret that provider and server must share.    *)
(*                                                                         *)
(* A row is found by its id; its name and its slug (owner/name) are unique *)
(* in the organization.  The provider holds one hook per slug.  A secret   *)
(* is a number, each one generated once.                                   *)
(***************************************************************************)
EXTENDS Caller, Integers, FiniteSets

CONSTANTS RepoId,       \* row ids (ULIDs)
          RepoName, Slug,
          BaselineName, \* "baseline", the name of the mirrored default
          OwnerTeam,    \* the team that owns the team repositories
          NoRepo,
          Elsewhere,    \* slugs another organization has registered
          MaxSecrets,   \* bound: secrets generated
          MaxRepoRequests   \* bound: requests and provisionings begun

ASSUME GitReposAssumption ==
    /\ NoRepo \notin RepoId /\ NoRepo \notin Slug
    /\ BaselineName \in RepoName /\ Elsewhere \subseteq Slug
    /\ MaxSecrets \in Nat /\ MaxRepoRequests \in Nat

VARIABLES gitRepo,      \* tenant_git_repos: a row, or NoRepo
          vault,        \* webhook_secret_enc with the slug it was made for
          hook,         \* the provider's hook of a slug: its secret and its maker
          secrets,      \* secrets generated so far
          provisions,   \* provisionings that have read their row; secret 0 before the lock
          interrupted,  \* rows whose last provisioning patched the hook and failed
          attaching,    \* registered team repos whose root app is not attached
          deletions,    \* DeleteGitRepo transactions that have read their row
          updates,      \* Update requests that have read their row
          requests      \* bound

repoVars == <<gitRepo, vault, hook, secrets, provisions, interrupted, attaching,
              deletions, updates, requests>>

GitRepoRow == [name : RepoName, repo : Slug, scope : {"platform", "team"}, isDefault : BOOLEAN]
RepoInput == GitRepoRow
NoSecret == [secret |-> 0, slug |-> NoRepo]
NoHook == [secret |-> 0, by |-> NoRepo]

ReposTypeOK ==
    /\ gitRepo \in [RepoId -> GitRepoRow \cup {NoRepo}]
    /\ vault \in [RepoId -> [secret : 0 .. MaxSecrets, slug : Slug \cup {NoRepo}]]
    /\ hook \in [Slug -> [secret : 0 .. MaxSecrets, by : RepoId \cup {NoRepo}]]
    /\ secrets \in 0 .. MaxSecrets
    /\ provisions \subseteq [id : RepoId, slug : Slug, secret : 0 .. MaxSecrets]
    /\ interrupted \subseteq RepoId /\ attaching \subseteq RepoId
    /\ deletions \subseteq [id : RepoId, checked : BOOLEAN]
    /\ updates \subseteq [id : RepoId, row : GitRepoRow, promote : BOOLEAN]
    /\ requests \in 0 .. MaxRepoRequests

ReposInit ==
    /\ gitRepo = [r \in RepoId |-> NoRepo]
    /\ vault = [r \in RepoId |-> NoSecret] /\ hook = [s \in Slug |-> NoHook]
    /\ secrets = 0 /\ provisions = {} /\ interrupted = {} /\ attaching = {}
    /\ deletions = {} /\ updates = {} /\ requests = 0

Registered == {r \in RepoId : gitRepo[r] # NoRepo}
Default == {r \in Registered : gitRepo[r].isDefault}
\* A request or a transaction begins.
Begin == requests < MaxRepoRequests /\ requests' = requests + 1

-----------------------------------------------------------------------------
(* The store *)

\* FindGitRepoByRepo, as a set of at most one row.
FindGitRepoByRepo(slug) == {r \in Registered : gitRepo[r].repo = slug}

\* The row whose name the upsert conflicts with.
Named(name) == {r \in Registered : gitRepo[r].name = name}

\* UpsertGitRepo: the conflict key is the name, so an existing row of that name
\* is overwritten, its default flag excepted; a slug in use, a second default
\* and an insertion under an id in use are unique violations.
UpsertedId(id, row) == IF Named(row.name) # {} THEN CHOOSE r \in Named(row.name) : TRUE ELSE id
CanUpsert(id, row) ==
    IF Named(row.name) # {}
    THEN FindGitRepoByRepo(row.repo) \subseteq Named(row.name)
    ELSE /\ id \notin Registered /\ FindGitRepoByRepo(row.repo) = {}
         /\ row.isDefault => Default = {}
UpsertGitRepo(id, row) ==
    [gitRepo EXCEPT ![UpsertedId(id, row)] =
        IF Named(row.name) # {} THEN [row EXCEPT !.isDefault = gitRepo[UpsertedId(id, row)].isDefault]
        ELSE row]
\* The webhook columns: untouched by an update, empty in a new row.
UpsertedVault(id, row) ==
    IF Named(row.name) # {} THEN vault ELSE [vault EXCEPT ![id] = NoSecret]

\* SetDefaultGitRepo: one statement under the organization's advisory lock; a
\* target that is missing or not a platform repo is refused.
CanSetDefault(rows, id) == rows[id] # NoRepo /\ rows[id].scope = "platform"
SetDefaultGitRepo(rows, id) ==
    [r \in RepoId |-> IF rows[r] = NoRepo THEN NoRepo
                      ELSE [rows[r] EXCEPT !.isDefault = (r = id)]]

\* The row with its webhook columns; references to it become NULL.
EraseRepo(id) ==
    /\ gitRepo' = [gitRepo EXCEPT ![id] = NoRepo]
    /\ vault' = [vault EXCEPT ![id] = NoSecret]

-----------------------------------------------------------------------------
(* The service *)

authorizeRepos(u, relation) == Authorized(u, relation)
\* canSeeRepo and canWriteRepo of a handler
canWriteRepo(u, row) ==
    \/ Check(u, "tenant_settings_write")
    \/ row.scope = "team" /\ Check(u, "deployments_create") /\ OwnerTeam \in CallerTeamIDs(u)

\* Service.register after its validation: the default must be a platform repo
\* and the slot must be free, the slug must not belong to another organization,
\* and the provider's App must be installed.
registerRepo(in, attach) ==
    /\ in.isDefault => in.scope = "platform" /\ Default = {}
    /\ in.repo \notin Elsewhere /\ Begin
    /\ \E id \in RepoId :
          /\ id \notin Registered \/ Registered = RepoId
          /\ CanUpsert(id, in)
          /\ gitRepo' = UpsertGitRepo(id, in) /\ vault' = UpsertedVault(id, in)
          /\ attaching' = IF attach /\ in.scope = "team"
                          THEN attaching \cup {UpsertedId(id, in)} ELSE attaching
    /\ UNCHANGED <<hook, secrets, provisions, interrupted, deletions, updates>>

\* AttachRootApp after the transaction commits a root application to the default
\* repo (a file whose content is left out), if there is one; a failure removes
\* the row, unless it is the default.
AttachRootApp(id) ==
    /\ id \in attaching /\ attaching' = attaching \ {id}
    /\ \/ UNCHANGED <<gitRepo, vault>>
       \/ /\ Default # {} /\ id \in Registered \ Default
          /\ EraseRepo(id)
    /\ UNCHANGED <<hook, secrets, provisions, interrupted, deletions, updates, requests>>

\* A provisioning reads the row it is about; the slug may change before the
\* lock is taken, and the row be gone.  Two that read the same slug of a row are
\* told apart once the first has its lock.
ProvisionLoads(id) ==
    /\ id \in Registered /\ Begin
    /\ provisions' = provisions \cup {[id |-> id, slug |-> gitRepo[id].repo, secret |-> 0]}
    /\ UNCHANGED <<gitRepo, vault, hook, secrets, interrupted, attaching, deletions, updates>>

Locked(id) == \E p \in provisions : p.id = id /\ p.secret # 0
\* Mutant: no advisory lock around hook and vault.
provisionUnlocked(p) ==
    /\ p.secret = 0 /\ secrets < MaxSecrets /\ secrets' = secrets + 1
    /\ hook' = [hook EXCEPT ![p.slug] = [secret |-> secrets', by |-> p.id]]
    /\ provisions' = (provisions \ {p}) \cup {[p EXCEPT !.secret = secrets']}
    /\ UNCHANGED <<gitRepo, vault, interrupted, attaching, deletions, updates, requests>>
\* provisionLocked up to Provisioner.Provision's EnsureWebhook: under the
\* advisory lock of the row a secret is generated and the provider's hook of
\* the slug that was read is patched with it.
provisionLocked(p) ==
    /\ p.secret = 0 /\ ~Locked(p.id) /\ secrets < MaxSecrets /\ secrets' = secrets + 1
    /\ hook' = [hook EXCEPT ![p.slug] = [secret |-> secrets', by |-> p.id]]
    /\ provisions' = (provisions \ {p}) \cup {[p EXCEPT !.secret = secrets']}
    /\ UNCHANGED <<gitRepo, vault, interrupted, attaching, deletions, updates, requests>>

\* Provision's SecretStore.Put and the commit; a row deleted meanwhile is not
\* found, and the transaction may fail.
PutSecret(p) ==
    /\ p.secret # 0 /\ provisions' = provisions \ {p}
    /\ \/ /\ p.id \in Registered
          /\ vault' = [vault EXCEPT ![p.id] = [secret |-> p.secret, slug |-> p.slug]]
          /\ interrupted' = interrupted \ {p.id}
       \/ UNCHANGED vault /\ interrupted' = interrupted \cup {p.id}
    /\ UNCHANGED <<gitRepo, hook, secrets, attaching, deletions, updates, requests>>

\* ReconcileWebhooks: the rows without a webhook URL.
ListGitReposWithoutWebhook == {r \in Registered : vault[r].secret = 0}
ReconcileWebhooks == \E id \in ListGitReposWithoutWebhook : ProvisionLoads(id)
EnsureRepoWebhook(id) == ProvisionLoads(id)

\* Update reads the row, checks the patch, and later upserts the whole row by
\* its name and promotes it.  (A rename would insert a second row under the
\* row's id, and is always refused.)
UpdateRepoLoad(id, promote) ==
    /\ id \in Registered /\ Begin /\ ~\E o \in updates : o.id = id
    /\ promote => gitRepo[id].scope = "platform"
    /\ updates' = updates \cup {[id |-> id, promote |-> promote, row |-> gitRepo[id]]}
    /\ UNCHANGED <<gitRepo, vault, hook, secrets, provisions, interrupted, attaching,
                   deletions>>
UpdateRepo(o) ==
    /\ updates' = updates \ {o}
    /\ LET rows == UpsertGitRepo(o.id, o.row)
       IN IF CanUpsert(o.id, o.row) /\ (o.promote => CanSetDefault(rows, o.id))
          THEN /\ gitRepo' = IF o.promote THEN SetDefaultGitRepo(rows, o.id) ELSE rows
               /\ vault' = UpsertedVault(o.id, o.row)
          ELSE UNCHANGED <<gitRepo, vault>>
    /\ UNCHANGED <<hook, secrets, provisions, interrupted, attaching, deletions, requests>>

\* Unregister: the default is refused; references, which other components hold,
\* are refused without force, and teardown deletes manifests and applications
\* first.
Unregister(id) ==
    /\ id \in Registered \ Default /\ Begin /\ ~\E d \in deletions : d.id = id
    /\ deletions' = deletions \cup {[id |-> id, checked |-> FALSE]}
    /\ UNCHANGED <<gitRepo, vault, hook, secrets, provisions, interrupted, attaching,
                   updates>>
\* DeleteGitRepo, in a transaction: the row is read again, then deleted.
DeleteGitRepoRead(d) ==
    /\ ~d.checked
    /\ deletions' = (deletions \ {d}) \cup
           (IF d.id \in Registered \ Default THEN {[d EXCEPT !.checked = TRUE]} ELSE {})
    /\ UNCHANGED <<gitRepo, vault, hook, secrets, provisions, interrupted, attaching,
                   updates, requests>>
DeleteGitRepo(d) ==
    /\ d.checked /\ deletions' = deletions \ {d}
    /\ IF d.id \in Registered THEN EraseRepo(d.id) ELSE UNCHANGED <<gitRepo, vault>>
    /\ UNCHANGED <<hook, secrets, provisions, interrupted, attaching, updates, requests>>

\* SetGitConfig's mirror (syncDefaultRepoFromConfig): the default row follows
\* the configured repository, or is created.
syncDefaultRepoFromConfig(slug) ==
    /\ Begin
    /\ \/ /\ Default # {} /\ FindGitRepoByRepo(slug) \subseteq Default
          /\ gitRepo' = [r \in RepoId |->
                IF r \in Default THEN [gitRepo[r] EXCEPT !.repo = slug]
                ELSE gitRepo[r]]
          /\ UNCHANGED vault
       \/ \E id \in RepoId \ Registered :
             LET row == [name |-> BaselineName, repo |-> slug, scope |-> "platform",
                         isDefault |-> TRUE]
             IN /\ Default = {} /\ CanUpsert(id, row)
                /\ gitRepo' = UpsertGitRepo(id, row) /\ vault' = UpsertedVault(id, row)
    /\ UNCHANGED <<hook, secrets, provisions, interrupted, attaching, deletions, updates>>

-----------------------------------------------------------------------------
(* Handlers *)

httpRegisterRepo(u) ==
    authorizeRepos(u, "tenant_settings_write") /\ \E in \in RepoInput : registerRepo(in, TRUE)
RegisterTeamRepo == \E in \in RepoInput : in.scope = "team" /\ registerRepo(in, FALSE)
httpUpdateRepo(u) ==
    /\ authorizeRepos(u, "tenant_read")
    /\ \E id \in Registered, promote \in BOOLEAN :
          /\ promote \/ gitRepo[id].scope = "platform" => Check(u, "tenant_settings_write")
          /\ canWriteRepo(u, gitRepo[id])
          /\ UpdateRepoLoad(id, promote)
httpUnregisterRepo(u) ==
    /\ authorizeRepos(u, "tenant_settings_write")
    /\ \E id \in RepoId : Unregister(id)
httpEnsureWebhook(u) ==
    /\ authorizeRepos(u, "tenant_settings_write")
    /\ \E id \in RepoId : EnsureRepoWebhook(id)
httpSetGitConfig(u) ==
    /\ authorizeRepos(u, "tenant_settings_write")
    /\ \E slug \in Slug \ Elsewhere : syncDefaultRepoFromConfig(slug)

RepoRoutes ==
    \E u \in User : \/ httpRegisterRepo(u) \/ httpUpdateRepo(u) \/ httpUnregisterRepo(u)
                    \/ httpEnsureWebhook(u) \/ httpSetGitConfig(u)

ReposNext ==
    \/ RepoRoutes \/ RegisterTeamRepo \/ ReconcileWebhooks
    \/ \E id \in RepoId : AttachRootApp(id)
    \/ \E d \in deletions : DeleteGitRepoRead(d) \/ DeleteGitRepo(d)
    \/ \E p \in provisions : provisionLocked(p) \/ PutSecret(p)
    \/ \E o \in updates : UpdateRepo(o)

ReposSpec == ReposInit /\ [][ReposNext]_repoVars

-----------------------------------------------------------------------------
(* Properties *)

\* The secret a repository's deliveries are verified with is the one its hook
\* signs with, over concurrent registrations, sweeps and rotations: only a
\* provisioning that failed after patching the hook leaves them apart.
SecretsAgree ==
    \A r \in Registered : \A s \in Slug :
        /\ hook[s].by = r /\ vault[r].slug = s
        /\ r \notin interrupted /\ ~Locked(r)
        => hook[s].secret = vault[r].secret

-----------------------------------------------------------------------------
(* Statements the code does not keep: TLC finds a counterexample of each  *)
(* (README, "What the code does not keep").                               *)

\* The default slot belongs to a platform repository (comments of register and
\* SetDefaultGitRepo).
DefaultIsPlatform == \A r \in Default : gitRepo[r].scope = "platform"

\* An organization that has a default keeps one.
DefaultKept == [][Default # {} => Default' # {}]_repoVars
=============================================================================
