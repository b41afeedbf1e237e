----------------------------- MODULE TenantSetup -----------------------------
(***************************************************************************)
(* internal/tenancy CreateTenant, SeedPlatformOrg and the platform         *)
(* administrators; internal/authz platformsync.go; the start-up of         *)
(* cmd/inari-server.  A tenant is an organization of Keycloak, rows, the   *)
(* groups of its teams, base platform resources, a kubectl client and the  *)
(* memberships of its creator, made one after another.  Only the first two *)
(* are undone together.                                                    *)
(***************************************************************************)
EXTENDS Naturals

CONSTANTS TenantSlug, PlatformOrgSlug,   \* slugs, the one of the platform among them
          DefaultTeam, JoinedTeam,       \* teams of a new tenant, those its creator joins
          BaseKind,                      \* base platform resources
          PlatformUser,                  \* users
          Server, SetupCall,             \* replicas; create requests in progress
          MaxSetupRequests, MaxSetupFaults  \* bounds

ASSUME SetupAssumption ==
    /\ PlatformOrgSlug \in TenantSlug /\ JoinedTeam \subseteq DefaultTeam
    /\ Server \cap SetupCall = {} /\ MaxSetupRequests \in Nat /\ MaxSetupFaults \in Nat

VARIABLES kcOrgs, kcGroups, kcJoins,  \* Keycloak: organizations, groups, and what the creators joined
          orgRows, baseRows, kubectl, memberRows,  \* the rows, base resources, kubectl clients, memberships
          setup,          \* for every server's seed and every request, where it is
          boot,           \* servers
          toBackfill,     \* tenants a starting server still has to go through
          found,          \* tenants it listed, less those whose backfill failed
          adminGroup, orgCreator, syncRead,  \* platform administrators: the group, the tuples, what the sync read
          succeeded,      \* tenants whose creation was answered with success
          orphaned,       \* organizations whose creation was cut short before the rows were written
          setupAsked, setupFaults  \* bounds

tenantVars == <<kcOrgs, kcGroups, kcJoins, orgRows, baseRows, kubectl, memberRows>>
adminVars == <<adminGroup, orgCreator, syncRead>>
bootVars == <<boot, toBackfill, found>>
setupVars == <<tenantVars, setup, bootVars, adminVars, succeeded, orphaned, setupAsked, setupFaults>>

SetupProcess == Server \cup SetupCall
IdleSetup == [slug |-> PlatformOrgSlug, pc |-> "idle"]

\* Every part of a tenant belongs to a slug, and every process is at a known step.
SetupTypeOK ==
    /\ kcOrgs \subseteq TenantSlug /\ orgRows \subseteq TenantSlug
    /\ kcGroups \subseteq TenantSlug \X DefaultTeam /\ kcJoins \subseteq TenantSlug \X (DefaultTeam \cup {"org"})
    /\ baseRows \subseteq TenantSlug \X BaseKind /\ kubectl \subseteq TenantSlug /\ memberRows \subseteq TenantSlug
    /\ setup \in [SetupProcess -> [slug : TenantSlug,
          pc : {"idle", "kc", "tx", "undo", "groups", "base", "kubectl", "join", "record"}]]
    /\ boot \in [Server -> {"down", "seed", "list", "backfill", "up"}]
    /\ toBackfill \in [Server -> SUBSET TenantSlug] /\ found \in [Server -> SUBSET TenantSlug]
    /\ adminGroup \subseteq PlatformUser /\ orgCreator \subseteq PlatformUser
    /\ syncRead \in (SUBSET PlatformUser) \cup {{"none"}}
    /\ succeeded \subseteq TenantSlug /\ orphaned \subseteq TenantSlug
    /\ setupAsked \in 0 .. MaxSetupRequests /\ setupFaults \in 0 .. MaxSetupFaults

\* A new installation: one administrator, added in Keycloak by hand.
SetupInit ==
    /\ kcOrgs = {} /\ kcGroups = {} /\ kcJoins = {}
    /\ orgRows = {} /\ baseRows = {} /\ kubectl = {} /\ memberRows = {}
    /\ setup = [p \in SetupProcess |-> IdleSetup]
    /\ boot = [r \in Server |-> "down"] /\ toBackfill = [r \in Server |-> {}] /\ found = [r \in Server |-> {}]
    /\ \E u \in PlatformUser : adminGroup = {u}
    /\ orgCreator = {} /\ syncRead = {"none"} /\ succeeded = {} /\ orphaned = {}
    /\ setupAsked = 0 /\ setupFaults = 0

adminsSame == UNCHANGED adminVars
bootSame == UNCHANGED bootVars
setupGhostSame == UNCHANGED <<succeeded, orphaned, setupAsked, setupFaults>>
SetupGoto(p, pc) == setup' = [setup EXCEPT ![p].pc = pc]
SetupEnds(p) == setup' = [setup EXCEPT ![p] = IdleSetup]
SetupFault == setupFaults < MaxSetupFaults /\ setupFaults' = setupFaults + 1
\* A seed that returns nil lets the start-up go on, any other stops the process.
EndsAs(p, pc) == SetupEnds(p) /\ IF p \in Server THEN boot' = [boot EXCEPT ![p] = pc] /\ UNCHANGED <<toBackfill, found>> ELSE bootSame

-----------------------------------------------------------------------------
(* Creation of a tenant *)

\* Keycloak refuses an alias it knows.
CreateOrganization(s) == s \notin kcOrgs /\ kcOrgs' = kcOrgs \cup {s}
DeleteOrganization(s) == kcOrgs' = kcOrgs \ {s}
CreatesOrganization(p) ==
    /\ setup[p].pc = "kc"
    /\ \/ CreateOrganization(setup[p].slug) /\ SetupGoto(p, "tx") /\ bootSame
       \/ setup[p].slug \in kcOrgs /\ EndsAs(p, "down") /\ UNCHANGED kcOrgs
    /\ UNCHANGED <<kcGroups, kcJoins, orgRows, baseRows, kubectl, memberRows>> /\ adminsSame /\ setupGhostSame

\* Organization, built-in roles, default teams, audit rows and tenant.created.
CreateOrgRow(s) == s \notin orgRows /\ orgRows' = orgRows \cup {s}
TenantTx(p) ==
    /\ setup[p].pc = "tx"
    /\ \/ CreateOrgRow(setup[p].slug) /\ SetupGoto(p, "groups") /\ bootSame
       \* ErrSlugTaken: a seed has reached its goal, a create undoes
       \/ /\ setup[p].slug \in orgRows /\ UNCHANGED orgRows
          /\ IF p \in Server THEN EndsAs(p, "list") ELSE SetupGoto(p, "undo") /\ bootSame
    /\ UNCHANGED <<kcOrgs, kcGroups, kcJoins, baseRows, kubectl, memberRows>> /\ adminsSame /\ setupGhostSame
TenantTxFails(p) ==
    /\ setup[p].pc = "tx" /\ SetupGoto(p, "undo") /\ SetupFault
    /\ UNCHANGED tenantVars /\ bootSame /\ adminsSame /\ UNCHANGED <<succeeded, orphaned, setupAsked>>
\* Mutant: a failed transaction leaves the organization in Keycloak.
UndoTenantNot(p) ==
    /\ setup[p].pc = "undo" /\ EndsAs(p, "down")
    /\ UNCHANGED tenantVars /\ adminsSame /\ setupGhostSame
UndoTenant(p) ==
    /\ setup[p].pc = "undo" /\ DeleteOrganization(setup[p].slug) /\ EndsAs(p, "down")
    /\ UNCHANGED <<kcGroups, kcJoins, orgRows, baseRows, kubectl, memberRows>> /\ adminsSame /\ setupGhostSame

\* One group after another; after the last, a seed has nothing more to do.
EnsureGroups(p) ==
    /\ setup[p].pc = "groups"
    /\ LET s == setup[p].slug
           left == {t \in DefaultTeam : <<s, t>> \notin kcGroups}
       IN /\ \E t \in DefaultTeam : (left = {} \/ t \in left) /\ kcGroups' = kcGroups \cup {<<s, t>>}
          /\ IF {t \in DefaultTeam : <<s, t>> \notin kcGroups'} # {} THEN UNCHANGED setup /\ bootSame
             ELSE IF p \in Server THEN EndsAs(p, "list") ELSE SetupGoto(p, "base") /\ bootSame
    /\ UNCHANGED <<kcOrgs, kcJoins, orgRows, baseRows, kubectl, memberRows>> /\ adminsSame /\ setupGhostSame
\* EnsureDesired of each base resource: an upsert that keeps what is there.
baseResourceSpecs(s) == {s} \X BaseKind
EnsureBaseResources(s) ==
    \E r \in baseResourceSpecs(s) :
       /\ r \notin baseRows \/ baseResourceSpecs(s) \subseteq baseRows
       /\ baseRows' = baseRows \cup {r}
EnsuresBase(p) ==
    /\ setup[p].pc = "base" /\ EnsureBaseResources(setup[p].slug)
    /\ IF baseResourceSpecs(setup[p].slug) \subseteq baseRows' THEN SetupGoto(p, "kubectl") ELSE UNCHANGED setup
    /\ UNCHANGED <<kcOrgs, kcGroups, kcJoins, orgRows, kubectl, memberRows>> /\ bootSame /\ adminsSame /\ setupGhostSame
EnsuresKubectlClient(p) ==
    /\ setup[p].pc = "kubectl" /\ kubectl' = kubectl \cup {setup[p].slug} /\ SetupGoto(p, "join")
    /\ UNCHANGED <<kcOrgs, kcGroups, kcJoins, orgRows, baseRows, memberRows>> /\ bootSame /\ adminsSame /\ setupGhostSame
\* Mutant: the memberships are recorded before the groups are joined.
CreatorJoinsLate(p) ==
    /\ setup[p].pc = "join" /\ kcJoins' = kcJoins \cup {<<setup[p].slug, "org">>} /\ SetupGoto(p, "record")
    /\ UNCHANGED <<kcOrgs, kcGroups, orgRows, baseRows, kubectl, memberRows>> /\ bootSame /\ adminsSame /\ setupGhostSame
\* The organization first, then each anchor team.
CreatorJoins(p) ==
    /\ setup[p].pc = "join"
    /\ LET s == setup[p].slug
           next == IF <<s, "org">> \notin kcJoins THEN {"org"} ELSE {t \in JoinedTeam : <<s, t>> \notin kcJoins}
       IN /\ \E t \in next : kcJoins' = kcJoins \cup {<<s, t>>}
          /\ IF {t \in JoinedTeam : <<s, t>> \notin kcJoins'} = {} THEN SetupGoto(p, "record") ELSE UNCHANGED setup
    /\ UNCHANGED <<kcOrgs, kcGroups, orgRows, baseRows, kubectl, memberRows>> /\ bootSame /\ adminsSame /\ setupGhostSame
CreatorTx(p) ==
    /\ setup[p].pc = "record" /\ memberRows' = memberRows \cup {setup[p].slug} /\ SetupEnds(p)
    /\ succeeded' = succeeded \cup {setup[p].slug}
    /\ UNCHANGED <<kcOrgs, kcGroups, kcJoins, orgRows, baseRows, kubectl>> /\ bootSame /\ adminsSame
    /\ UNCHANGED <<orphaned, setupAsked, setupFaults>>
\* The process stops, or the step fails: nothing takes the work up again.
SetupFails(p) ==
    /\ setup[p].pc # "idle" /\ SetupFault /\ EndsAs(p, "down")
    /\ orphaned' = IF setup[p].pc \in {"tx", "undo"} THEN orphaned \cup {setup[p].slug} ELSE orphaned
    /\ UNCHANGED tenantVars /\ adminsSame /\ UNCHANGED <<succeeded, setupAsked>>
TenantStep(p) ==
    \/ CreatesOrganization(p) \/ TenantTx(p) \/ UndoTenant(p) \/ EnsureGroups(p)
    \/ EnsuresBase(p) \/ EnsuresKubectlClient(p) \/ CreatorJoins(p) \/ CreatorTx(p)

\* Any caller with the org_creator tuple, once a server answers.
Serving == \E r \in Server : boot[r] = "up"
CreateTenant(c, s) == setup[c] = IdleSetup /\ setup' = [setup EXCEPT ![c] = [slug |-> s, pc |-> "kc"]]
createTenant(u, c) ==
    /\ Serving /\ u \in orgCreator /\ setupAsked < MaxSetupRequests /\ setupAsked' = setupAsked + 1
    /\ \E s \in TenantSlug : CreateTenant(c, s)
    /\ UNCHANGED tenantVars /\ bootSame /\ adminsSame /\ UNCHANGED <<succeeded, orphaned, setupFaults>>

-----------------------------------------------------------------------------
(* Start-up of a server *)

Boots(r) ==
    /\ boot[r] = "down" /\ boot' = [boot EXCEPT ![r] = "seed"] /\ found' = [found EXCEPT ![r] = {}]
    /\ UNCHANGED <<toBackfill, setup>> /\ UNCHANGED tenantVars /\ adminsSame /\ setupGhostSame
SeedPlatformOrg(r) ==
    /\ boot[r] = "seed" /\ setup[r] = IdleSetup
    /\ \/ PlatformOrgSlug \in orgRows /\ EndsAs(r, "list")
       \/ /\ PlatformOrgSlug \notin orgRows /\ bootSame
          /\ setup' = [setup EXCEPT ![r] = [slug |-> PlatformOrgSlug, pc |-> "kc"]]
    /\ UNCHANGED tenantVars /\ adminsSame /\ setupGhostSame
ListTenants(r) ==
    /\ boot[r] = "list" /\ toBackfill' = [toBackfill EXCEPT ![r] = orgRows]
    /\ found' = [found EXCEPT ![r] = orgRows]
    /\ boot' = [boot EXCEPT ![r] = "backfill"]
    /\ UNCHANGED setup /\ UNCHANGED tenantVars /\ adminsSame /\ setupGhostSame
\* Mutant: the first failure ends the loop.
BackfillStops(r) ==
    /\ boot[r] = "backfill" /\ boot' = [boot EXCEPT ![r] = "up"] /\ toBackfill' = [toBackfill EXCEPT ![r] = {}]
    /\ UNCHANGED <<baseRows, setup, found>>
    /\ UNCHANGED <<kcOrgs, kcGroups, kcJoins, orgRows, kubectl, memberRows>> /\ adminsSame /\ setupGhostSame
Backfill(r) ==
    /\ boot[r] = "backfill"
    /\ \/ /\ toBackfill[r] = {} /\ boot' = [boot EXCEPT ![r] = "up"]
          /\ UNCHANGED <<baseRows, toBackfill>>
       \/ \E s \in toBackfill[r] :
             /\ EnsureBaseResources(s) /\ UNCHANGED boot
             /\ toBackfill' = [toBackfill EXCEPT ![r] = {t \in @ : ~(baseResourceSpecs(t) \subseteq baseRows')}]
    /\ UNCHANGED <<kcOrgs, kcGroups, kcJoins, orgRows, kubectl, memberRows, setup, found>> /\ adminsSame /\ setupGhostSame
\* A tenant that fails is logged and passed over.
BackfillFails(r) ==
    /\ boot[r] = "backfill" /\ SetupFault
    /\ \E s \in toBackfill[r] : /\ toBackfill' = [toBackfill EXCEPT ![r] = @ \ {s}]
                                /\ found' = [found EXCEPT ![r] = @ \ {s}]
    /\ UNCHANGED <<boot, setup>> /\ UNCHANGED tenantVars /\ adminsSame /\ UNCHANGED <<succeeded, orphaned, setupAsked>>
BootStep(r) == Boots(r) \/ SeedPlatformOrg(r) \/ ListTenants(r) \/ Backfill(r)

-----------------------------------------------------------------------------
(* Platform administrators *)

ListGroupMembers == adminGroup
ReadOrgCreators == orgCreator
adminsOnly == UNCHANGED tenantVars /\ UNCHANGED <<setup, bootVars, succeeded, orphaned, setupFaults>>
authorizeOrgCreator(u) == Serving /\ u \in orgCreator /\ setupAsked < MaxSetupRequests /\ setupAsked' = setupAsked + 1
GrantPlatformAdmin(v) == v \notin ListGroupMembers /\ adminGroup' = adminGroup \cup {v} /\ UNCHANGED <<orgCreator, syncRead>>
RevokePlatformAdmin(v) == v \in ListGroupMembers /\ adminGroup' = adminGroup \ {v} /\ UNCHANGED <<orgCreator, syncRead>>
grantAdmin(u) == authorizeOrgCreator(u) /\ (\E v \in PlatformUser : GrantPlatformAdmin(v)) /\ adminsOnly
revokeAdmin(u) == authorizeOrgCreator(u) /\ (\E v \in PlatformUser : RevokePlatformAdmin(v)) /\ adminsOnly
\* One pass: read the group, then write and delete the difference.
reconcileGroup == Serving /\ syncRead = {"none"} /\ syncRead' = ListGroupMembers /\ UNCHANGED <<adminGroup, orgCreator>>
\* Mutant: a pass only writes.
SyncWritesOnly ==
    /\ syncRead # {"none"} /\ syncRead' = {"none"} /\ orgCreator' = ReadOrgCreators \cup syncRead
    /\ UNCHANGED <<adminGroup, setupAsked>> /\ adminsOnly
SyncWrites ==
    /\ syncRead # {"none"} /\ syncRead' = {"none"}
    /\ orgCreator' = (ReadOrgCreators \cup (syncRead \ ReadOrgCreators)) \ (ReadOrgCreators \ syncRead)
    /\ UNCHANGED <<adminGroup, setupAsked>> /\ adminsOnly
SyncReads == reconcileGroup /\ UNCHANGED setupAsked /\ adminsOnly
SyncOnce == SyncReads \/ SyncWrites

SetupNext ==
    \/ \E p \in SetupProcess : TenantStep(p) \/ TenantTxFails(p) \/ SetupFails(p)
    \/ \E r \in Server : BootStep(r) \/ BackfillFails(r)
    \/ \E u \in PlatformUser : grantAdmin(u) \/ revokeAdmin(u) \/ \E c \in SetupCall : createTenant(u, c)
    \/ SyncOnce

-----------------------------------------------------------------------------
(* Properties *)

\* Whatever overlaps and whichever transaction fails, an organization of Keycloak
\* has its row once nobody works on it; only a create cut short between the two
\* leaves one behind.
NoOrphanOrg ==
    (\A p \in SetupProcess : setup[p] = IdleSetup) => kcOrgs \subseteq orgRows \cup orphaned

\* The creator of a tenant whose creation was answered with success can administer
\* it: the token claim, the groups that exist, and the rows agree.
CreatorIsAdmin ==
    \A s \in succeeded :
       /\ s \in kcOrgs \cap orgRows \cap kubectl \cap memberRows
       /\ \A t \in JoinedTeam \cup {"org"} : <<s, t>> \in kcJoins
       /\ \A t \in JoinedTeam : <<s, t>> \in kcGroups
       /\ baseResourceSpecs(s) \subseteq baseRows

\* A server that is up has given every tenant it found its base resources, also the
\* ones whose creation failed half-way, except where an upsert failed.
BackfillHeals == \A r \in Server : boot[r] = "up" => \A s \in found[r] : baseResourceSpecs(s) \subseteq baseRows

\* The servers are up and the org_creator tuples are the members of the administrators' group.
ServersUp == (\A r \in Server : boot[r] = "up") /\ orgCreator = adminGroup

-----------------------------------------------------------------------------
(* Statements the code does not keep: TLC finds a counterexample of each  *)
(* (README, "What the code does not keep").                               *)

\* seed.go: "SeedPlatformOrg idempotently creates the reserved platform org".
SeedIsIdempotent == <>(PlatformOrgSlug \in orgRows)
=============================================================================
