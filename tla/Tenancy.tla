------------------------------ MODULE Tenancy ------------------------------
(***************************************************************************)
(* internal/tenancy and internal/authz: the roles, teams and members of    *)
(* one organization.  They live in three places: rows of the database,     *)
(* groups of Keycloak, and tuples of OpenFGA.  A call changes Keycloak and *)
(* the rows one after the other; an outbox event carries what was read to  *)
(* the tuple writer; and two loops of the leader converge the tuples and   *)
(* the membership rows on the groups and the roles.                        *)
(*                                                                         *)
(* The transactions that may take tenant.admin away lock the organization  *)
(* row; no other step locks anything.  Events arrive in any order, because *)
(* one that fails is retried after later ones (see Outbox).                *)
(***************************************************************************)
EXTENDS Caller, Naturals, SequencesExt

CONSTANTS Member,        \* users who are added and removed
          TeamId,        \* ids of teams, each used once
          AnchorTeam,    \* the default team org-admins, among the ids
          TeamName, AnchorName,
          OrgRole, AdminRole,   \* roles, and the built-in admin
          Permission,           \* tenant.admin and other permissions of a role
          AnchorTeamForRole,    \* the team name SetMemberRole uses for a role
          InitialTeams,  \* the roles that may exist at first, with their team
          TenancyCall,   \* calls in progress at once
          MaxTenancyRequests, MaxTenancyFaults  \* bounds

ASSUME TenancyAssumption ==
    /\ IsFiniteSet(Member) /\ Member # {} /\ IsFiniteSet(TeamId) /\ IsFiniteSet(OrgRole)
    /\ "tenant.admin" \in Permission /\ AnchorTeam \in TeamId /\ AnchorName \in TeamName /\ AdminRole \in OrgRole
    /\ AnchorTeamForRole \in [OrgRole -> TeamName] /\ AnchorTeamForRole[AdminRole] = AnchorName
    /\ \A initial \in InitialTeams : AdminRole \in DOMAIN initial /\ DOMAIN initial \subseteq OrgRole
                                      /\ initial[AdminRole] = AnchorTeam
    /\ MaxTenancyRequests \in Nat /\ MaxTenancyFaults \in Nat

VARIABLES role,        \* roles rows
          team,        \* teams rows
          group,       \* Keycloak: the group of each team name
          kcMember,    \* Keycloak: members of the organization
          membership,  \* memberships rows, one per user and role
          orgEvents,   \* outbox events the tuple writer has not handled
          permTuple, memberTuple,   \* OpenFGA tuples
          orgCall,     \* calls in progress
          teamSync, roleSync,       \* passes of the two loops
          tenancyAsked, tenancyFaults  \* bounds

tenancyVars == <<role, team, group, kcMember, membership, orgEvents, permTuple, memberTuple, orgCall,
                 teamSync, roleSync, tenancyAsked, tenancyFaults>>

Role == [exists : BOOLEAN, permissions : SUBSET Permission]
Team == [exists : BOOLEAN, name : TeamName, role : OrgRole]
Membership == [user : Member, team : TeamId, role : OrgRole]
KeycloakGroup == [exists : BOOLEAN, members : SUBSET Member]
TeamGroupRef == [team : TeamId, name : TeamName, role : OrgRole]
OrgEvent == [type : {"team.created", "team.deleted", "role.updated", "membership.added", "membership.removed"},
             teams : SUBSET TeamId, user : Member, old : SUBSET Permission, new : SUBSET Permission, retracted : BOOLEAN]
IdleOrgCall == [op |-> "none", pc |-> "idle", user |-> CHOOSE u \in Member : TRUE, team |-> AnchorTeam,
                name |-> AnchorName, role |-> AdminRole, permissions |-> {}, current |-> {}]
IdleTeamSync == [pc |-> "idle", todo |-> {}, ref |-> [team |-> AnchorTeam, name |-> AnchorName, role |-> AdminRole],
                 users |-> {}, writes |-> {}, deletes |-> {}]
IdleRoleSync == [todo |-> {}, want |-> {}, del |-> {}, add |-> {}]

\* Rows, groups, tuples, events and calls are well formed.
TenancyTypeOK ==
    /\ role \in [OrgRole -> Role] /\ team \in [TeamId -> Team] /\ group \in [TeamName -> KeycloakGroup]
    /\ kcMember \subseteq Member /\ membership \subseteq Membership
    /\ orgEvents \in Seq(OrgEvent) /\ permTuple \subseteq TeamId \X Permission
    /\ memberTuple \subseteq Member \X TeamId
    /\ \A c \in TenancyCall :
          /\ orgCall[c].user \in Member /\ orgCall[c].team \in TeamId /\ orgCall[c].name \in TeamName
          /\ orgCall[c].role \in OrgRole /\ orgCall[c].permissions \subseteq Permission
          /\ orgCall[c].current \subseteq Membership
          /\ orgCall[c].op \in {"none", "AddMember", "RemoveMember", "SetMemberRole", "RemoveOrgMember",
                                "CreateTeam", "DeleteTeam", "UpdateRole"}
          /\ orgCall[c].pc \in {"idle", "org", "group", "leave", "leaveOrg", "tx", "createGroup", "createTx", "deleteGroup"}
    /\ teamSync.pc \in {"idle", "list", "tuples", "write", "project"} /\ teamSync.todo \subseteq TeamGroupRef
    /\ teamSync.writes \subseteq Member /\ teamSync.deletes \subseteq Member /\ roleSync.todo \subseteq Permission
    /\ roleSync.want \cup roleSync.del \cup roleSync.add \subseteq TeamId \X Permission
    /\ tenancyAsked \in 0 .. MaxTenancyRequests /\ tenancyFaults \in 0 .. MaxTenancyFaults

\* What is granted when every event has been handled and both loops have run.
ListRoles(t) == IF team[t].exists THEN role[team[t].role].permissions ELSE {}
Granted == {x \in TeamId \X Permission : x[2] \in ListRoles(x[1])}

\* A tenant whose creation is finished (SeedBuiltinRoles, the default teams and
\* their groups; its creator is not one of the members modelled), and which may
\* have a custom role with a team.
TenancyInit ==
    /\ \E initial \in InitialTeams :
          LET roles == DOMAIN initial
              roleOf(t) == CHOOSE r \in roles : initial[r] = t
          IN /\ role = [r \in OrgRole |-> [exists |-> r \in roles, permissions |-> IF r \in roles THEN Permission ELSE {}]]
             /\ team = [t \in TeamId |->
                           IF t \in {initial[r] : r \in roles}
                           THEN [exists |-> TRUE, name |-> AnchorTeamForRole[roleOf(t)], role |-> roleOf(t)]
                           ELSE [exists |-> FALSE, name |-> AnchorName, role |-> AdminRole]]
             /\ group = [n \in TeamName |-> [exists |-> \E r \in roles : AnchorTeamForRole[r] = n, members |-> {}]]
    /\ kcMember = {} /\ membership = {} /\ orgEvents = <<>>
    /\ permTuple = Granted /\ memberTuple = {}
    /\ orgCall = [c \in TenancyCall |-> IdleOrgCall]
    /\ teamSync = IdleTeamSync /\ roleSync = IdleRoleSync /\ tenancyAsked = 0 /\ tenancyFaults = 0

syncSame == UNCHANGED <<permTuple, memberTuple, teamSync, roleSync, tenancyFaults>>
rowsSame == UNCHANGED <<role, team, membership, orgEvents>>
AppendOutbox(type, ts, u, old, new) ==
    orgEvents' = Append(orgEvents, [type |-> type, teams |-> ts, user |-> u, old |-> old, new |-> new, retracted |-> FALSE])
BeginOrgCall(c, call) == orgCall[c].pc = "idle" /\ orgCall' = [orgCall EXCEPT ![c] = call]
Goto(c, pc) == orgCall' = [orgCall EXCEPT ![c].pc = pc]
Return(c) == orgCall' = [orgCall EXCEPT ![c] = IdleOrgCall]
ReadOnly == rowsSame /\ UNCHANGED <<group, kcMember>>

-----------------------------------------------------------------------------
(* Keycloak groups *)

CreateGroup(n) == group' = [group EXCEPT ![n].exists = TRUE]
DeleteGroup(n) == group' = [group EXCEPT ![n] = [exists |-> FALSE, members |-> {}]]
AddOrganizationMember(u) == kcMember' = kcMember \cup {u}
RemoveOrganizationMember(u) == kcMember' = kcMember \ {u}
resolveGroupID(n) == group[n].exists
AddGroupMember(n, u) == resolveGroupID(n) /\ group' = [group EXCEPT ![n].members = @ \cup {u}]
RemoveGroupMember(n, u) == resolveGroupID(n) /\ group' = [group EXCEPT ![n].members = @ \ {u}]
ListGroupMemberUsers(n) == group[n].members

-----------------------------------------------------------------------------
(* Rows *)

GetTeamByName(n) == {t \in TeamId : team[t].exists /\ team[t].name = n}
\* AddMembership: ON CONFLICT (user, organization, role) DO NOTHING.
AddMembership(rows, u, t, r) ==
    IF \E m \in rows : m.user = u /\ m.role = r THEN rows ELSE rows \cup {[user |-> u, team |-> t, role |-> r]}
RemoveMembership(rows, u, t) == {m \in rows : ~(m.user = u /\ m.team = t)}
RemoveMembershipsForUser(u) == {m \in membership : m.user # u}
ListMembershipsWithPaths(u) == {m \in membership : m.user = u}
ListTeamIDsForRole(r) == {t \in TeamId : team[t].exists /\ team[t].role = r}
\* The foreign keys of a membership row.
teamAndRole(t, r) == team[t].exists /\ role[r].exists
\* Mutant: a role that no team holds counts.
AdminGuardrailHoldsUnbound(teams, roles) == \E r \in OrgRole : roles[r].exists /\ "tenant.admin" \in roles[r].permissions
AdminGuardrailHolds(teams, roles) == \E t \in TeamId : teams[t].exists /\ "tenant.admin" \in roles[teams[t].role].permissions

\* Store.CreateTeam under the unique name, with the event of CreateTeam.
insertTeam(t, n, r, permissions) ==
    /\ ~team[t].exists /\ t # AnchorTeam /\ GetTeamByName(n) = {} /\ role[r].exists
    /\ \A i \in 1 .. Len(orgEvents) : t \notin orgEvents[i].teams
    /\ \A c \in TenancyCall : orgCall[c].team # t
    /\ {x \in permTuple \cup roleSync.want \cup roleSync.del : x[1] = t} = {} /\ {x \in memberTuple : x[2] = t} = {}
    /\ \A ref \in teamSync.todo \cup {teamSync.ref} : ref.team # t
    /\ team' = [team EXCEPT ![t] = [exists |-> TRUE, name |-> n, role |-> r]]
    /\ AppendOutbox("team.created", {t}, CHOOSE u \in Member : TRUE, {}, permissions)

-----------------------------------------------------------------------------
(* Calls.  Start is the read at the beginning; each later step is one call *)
(* of Keycloak or one transaction.                                         *)

AddMember(c) ==
    /\ \E u \in Member, n \in TeamName : \E t \in GetTeamByName(n) :
          BeginOrgCall(c, [IdleOrgCall EXCEPT !.op = "AddMember", !.pc = "org", !.user = u, !.team = t, !.name = n,
                                              !.role = team[t].role])
    /\ ReadOnly /\ syncSame
RemoveMember(c) ==
    /\ \E u \in Member, n \in TeamName : \E t \in GetTeamByName(n) :
          BeginOrgCall(c, [IdleOrgCall EXCEPT !.op = "RemoveMember", !.pc = "leave", !.user = u, !.team = t, !.name = n,
                                              !.role = team[t].role, !.current = {[user |-> u, team |-> t, role |-> team[t].role]}])
    /\ ReadOnly /\ syncSame
\* SetMemberRole: ensureTeam finds the anchor team or creates it first.
ensureTeam(c, u, r) ==
    LET n == AnchorTeamForRole[r]
        call == [IdleOrgCall EXCEPT !.op = "SetMemberRole", !.user = u, !.name = n, !.role = r,
                                    !.permissions = role[r].permissions, !.current = ListMembershipsWithPaths(u)]
    IN \/ \E t \in GetTeamByName(n) : BeginOrgCall(c, [call EXCEPT !.pc = "org", !.team = t, !.role = team[t].role])
       \/ GetTeamByName(n) = {} /\ BeginOrgCall(c, [call EXCEPT !.pc = "createGroup"])
SetMemberRole(c) ==
    (\E u \in Member, r \in OrgRole : role[r].exists /\ ensureTeam(c, u, r)) /\ ReadOnly /\ syncSame
RemoveOrgMember(c) ==
    /\ \E u \in Member : BeginOrgCall(c, [IdleOrgCall EXCEPT !.op = "RemoveOrgMember", !.user = u,
                                             !.current = ListMembershipsWithPaths(u),
                                             !.pc = IF ListMembershipsWithPaths(u) = {} THEN "leaveOrg" ELSE "leave"])
    /\ ReadOnly /\ syncSame
CreateTeam(c) ==
    /\ \E n \in TeamName, r \in OrgRole :
          /\ role[r].exists
          /\ BeginOrgCall(c, [IdleOrgCall EXCEPT !.op = "CreateTeam", !.pc = "createGroup", !.name = n, !.role = r,
                                                 !.permissions = role[r].permissions])
    /\ ReadOnly /\ syncSame
\* DeleteTeam refuses the default teams; the role's permissions go into the event.
DeleteTeam(c) ==
    /\ \E n \in TeamName \ {AnchorName} : \E t \in GetTeamByName(n) :
          BeginOrgCall(c, [IdleOrgCall EXCEPT !.op = "DeleteTeam", !.pc = "tx", !.team = t, !.name = n,
                                              !.role = team[t].role, !.permissions = role[team[t].role].permissions])
    /\ ReadOnly /\ syncSame
\* UpdateRole: a patch without permissions writes back those that were read.
UpdateRole(c) ==
    /\ \E r \in OrgRole : \E ps \in {role[r].permissions} \cup SUBSET Permission :
          role[r].exists /\ BeginOrgCall(c, [IdleOrgCall EXCEPT !.op = "UpdateRole", !.pc = "tx", !.role = r, !.permissions = ps])
    /\ ReadOnly /\ syncSame
CreateRole ==
    /\ \E r \in OrgRole \ {AdminRole}, ps \in SUBSET Permission :
          ~role[r].exists /\ role' = [role EXCEPT ![r] = [exists |-> TRUE, permissions |-> ps]]
    /\ UNCHANGED <<team, group, kcMember, membership, orgEvents, orgCall>> /\ syncSame
\* DeleteRole refuses the built-in ones and those of a team (and a foreign key
\* those of a membership); its event names no team.
DeleteRole ==
    /\ \E r \in OrgRole \ {AdminRole} :
          /\ role[r].exists /\ ListTeamIDsForRole(r) = {} /\ \A m \in membership : m.role # r
          /\ role' = [role EXCEPT ![r] = [exists |-> FALSE, permissions |-> {}]]
    /\ UNCHANGED <<team, group, kcMember, membership, orgEvents, orgCall>> /\ syncSame

JoinOrg(c) ==
    /\ orgCall[c].pc = "org" /\ AddOrganizationMember(orgCall[c].user) /\ Goto(c, "group")
    /\ rowsSame /\ UNCHANGED <<group, tenancyAsked>> /\ syncSame
JoinGroup(c) ==
    /\ orgCall[c].pc = "group"
    /\ \/ AddGroupMember(orgCall[c].name, orgCall[c].user)
          /\ Goto(c, IF \E m \in orgCall[c].current : m.team # orgCall[c].team THEN "leave" ELSE "tx")
       \/ ~resolveGroupID(orgCall[c].name) /\ Return(c) /\ UNCHANGED group
    /\ rowsSame /\ UNCHANGED <<kcMember, tenancyAsked>> /\ syncSame
\* The groups of the memberships that were listed, one by one.
LeaveGroup(c) ==
    /\ orgCall[c].pc = "leave"
    /\ LET joined == orgCall[c].op = "SetMemberRole"
           left == {m \in orgCall[c].current : joined => m.team # orgCall[c].team}
           path(m) == team[m.team].name
           next == IF orgCall[c].op = "RemoveOrgMember" THEN "leaveOrg" ELSE "tx"
       IN \E m \in left :
             \/ /\ RemoveGroupMember(path(m), orgCall[c].user)
                /\ IF left = {m} \/ \A x \in left : orgCall[c].user \notin group'[path(x)].members
                   THEN Goto(c, next) ELSE Goto(c, "leave")
             \/ ~resolveGroupID(path(m)) /\ Return(c) /\ UNCHANGED group
    /\ rowsSame /\ UNCHANGED <<kcMember, tenancyAsked>> /\ syncSame
LeaveOrg(c) ==
    /\ orgCall[c].pc = "leaveOrg" /\ RemoveOrganizationMember(orgCall[c].user) /\ Goto(c, "tx")
    /\ rowsSame /\ UNCHANGED <<group, tenancyAsked>> /\ syncSame

\* The transaction of AddMember, RemoveMember, SetMemberRole and RemoveOrgMember:
\* the rows, and an event per row that really changed.
writeMemberships(c, rows) ==
    LET gone == membership \ rows
        new == rows \ membership
        event(type, m) == [type |-> type, teams |-> {m.team}, user |-> m.user, old |-> {}, new |-> {}, retracted |-> FALSE]
    IN /\ membership' = rows
       /\ orgEvents' = orgEvents \o SetToSeq({event("membership.removed", m) : m \in gone})
                                 \o SetToSeq({event("membership.added", m) : m \in new})
MembersTx(c) ==
    /\ orgCall[c].pc = "tx"
    /\ LET k == orgCall[c]
           kept == IF k.op = "SetMemberRole"
                   THEN {m \in membership : ~(m.user = k.user /\ m.team # k.team /\ \E x \in k.current : x.team = m.team)}
                   ELSE membership
       IN \/ k.op \in {"AddMember", "SetMemberRole"} /\ teamAndRole(k.team, k.role)
             /\ writeMemberships(c, AddMembership(kept, k.user, k.team, k.role))
          \/ k.op \in {"AddMember", "SetMemberRole"} /\ ~teamAndRole(k.team, k.role) /\ UNCHANGED <<membership, orgEvents>>
          \/ k.op = "RemoveMember" /\ writeMemberships(c, RemoveMembership(membership, k.user, k.team))
          \/ k.op = "RemoveOrgMember" /\ writeMemberships(c, RemoveMembershipsForUser(k.user))
    /\ Return(c) /\ UNCHANGED <<role, team, group, kcMember, tenancyAsked>> /\ syncSame

CreateTeamGroup(c) ==
    /\ orgCall[c].pc = "createGroup" /\ CreateGroup(orgCall[c].name) /\ Goto(c, "createTx")
    /\ rowsSame /\ UNCHANGED <<kcMember, tenancyAsked>> /\ syncSame
CreateTeamTx(c) ==
    /\ orgCall[c].pc = "createTx"
    /\ LET k == orgCall[c]
           then(t, r) == IF k.op = "CreateTeam" THEN Return(c)
                         ELSE orgCall' = [orgCall EXCEPT ![c] = [k EXCEPT !.pc = "org", !.team = t, !.role = r]]
       IN \/ \E t \in TeamId : insertTeam(t, k.name, k.role, k.permissions) /\ then(t, k.role)
          \/ \E t \in GetTeamByName(k.name) : then(t, team[t].role) /\ UNCHANGED <<team, orgEvents>>
          \/ ~role[k.role].exists /\ Return(c) /\ UNCHANGED <<team, orgEvents>>
    /\ UNCHANGED <<role, membership, group, kcMember, tenancyAsked>> /\ syncSame
DeleteTeamTx(c) ==
    /\ orgCall[c].op = "DeleteTeam" /\ orgCall[c].pc = "tx"
    /\ LET k == orgCall[c]
           without(t) == [team EXCEPT ![t].exists = FALSE]
           refused == \A t \in GetTeamByName(k.name) : ~AdminGuardrailHolds(without(t), role)
       IN \/ \E t \in GetTeamByName(k.name) :
                /\ AdminGuardrailHolds(without(t), role) /\ team' = without(t)
                /\ membership' = {m \in membership : m.team # t}
                /\ AppendOutbox("team.deleted", {t}, k.user, k.permissions, {}) /\ Goto(c, "deleteGroup")
          \/ refused /\ Return(c) /\ UNCHANGED <<team, membership, orgEvents>>
    /\ UNCHANGED <<role, group, kcMember, tenancyAsked>> /\ syncSame
DeleteTeamGroup(c) ==
    /\ orgCall[c].pc = "deleteGroup" /\ DeleteGroup(orgCall[c].name) /\ Return(c)
    /\ rowsSame /\ UNCHANGED <<kcMember, tenancyAsked>> /\ syncSame
UpdateRoleTx(c) ==
    /\ orgCall[c].op = "UpdateRole" /\ orgCall[c].pc = "tx"
    /\ LET k == orgCall[c]  roles == [role EXCEPT ![k.role].permissions = k.permissions]
       IN \/ /\ role[k.role].exists /\ AdminGuardrailHolds(team, roles) /\ role' = roles
             /\ AppendOutbox("role.updated", ListTeamIDsForRole(k.role), k.user, role[k.role].permissions, k.permissions)
          \/ (~role[k.role].exists \/ ~AdminGuardrailHolds(team, roles)) /\ UNCHANGED <<role, orgEvents>>
    /\ Return(c) /\ UNCHANGED <<team, membership, group, kcMember, tenancyAsked>> /\ syncSame
OrgCallStep(c) ==
    \/ JoinOrg(c) \/ JoinGroup(c) \/ LeaveGroup(c) \/ LeaveOrg(c) \/ MembersTx(c) \/ CreateTeamGroup(c)
    \/ CreateTeamTx(c) \/ DeleteTeamTx(c) \/ DeleteTeamGroup(c) \/ UpdateRoleTx(c)
\* A call of Keycloak fails, or the replica stops.
OrgCallFails(c) ==
    /\ orgCall[c].pc # "idle" /\ tenancyFaults < MaxTenancyFaults /\ tenancyFaults' = tenancyFaults + 1
    /\ Return(c) /\ ReadOnly /\ UNCHANGED <<permTuple, memberTuple, teamSync, roleSync, tenancyAsked>>

-----------------------------------------------------------------------------
(* TupleWriter, and the two loops *)

permissionTuples(ts, ps) == ts \X ps
WriteTuples(tuples, more) == tuples \cup more
DeleteTuples(tuples, fewer) == tuples \ fewer
\* TupleWriter.Handle, of an event in any position of the queue.  That of a changed
\* role deletes the old tuples and then writes the new ones.
handlerSame == UNCHANGED <<role, team, group, kcMember, membership, orgCall, teamSync, roleSync, tenancyAsked>>
HandleOrgEvent(i) ==
    LET ev == orgEvents[i]
        first == ev.type = "role.updated" /\ ~ev.retracted
    IN /\ permTuple' = CASE first -> DeleteTuples(permTuple, permissionTuples(ev.teams, ev.old))
                         [] ev.type = "team.deleted" -> DeleteTuples(permTuple, permissionTuples(ev.teams, ev.old))
                         [] OTHER -> WriteTuples(permTuple, permissionTuples(ev.teams, ev.new))
       /\ memberTuple' = CASE ev.type = "membership.added" -> WriteTuples(memberTuple, {ev.user} \X ev.teams)
                           [] ev.type = "membership.removed" -> DeleteTuples(memberTuple, {ev.user} \X ev.teams)
                           [] OTHER -> memberTuple
       /\ orgEvents' = IF first THEN [orgEvents EXCEPT ![i].retracted = TRUE] ELSE RemoveAt(orgEvents, i)
       /\ handlerSame /\ UNCHANGED tenancyFaults
HandleOrgEvents == \E i \in 1 .. Len(orgEvents) : HandleOrgEvent(i)
\* The write fails or the replica stops: the event is delivered anew.
HandleOrgEventFails ==
    /\ tenancyFaults < MaxTenancyFaults /\ tenancyFaults' = tenancyFaults + 1
    /\ \E i \in 1 .. Len(orgEvents) :
          orgEvents[i].retracted /\ orgEvents' = [orgEvents EXCEPT ![i].retracted = FALSE]
    /\ handlerSame /\ UNCHANGED <<permTuple, memberTuple>>

\* teamRoleRefs: the teams of the organization with their roles.
ListTeamGroups == {[team |-> t, name |-> team[t].name, role |-> team[t].role] : t \in {x \in TeamId : team[x].exists}}
tenancySame == UNCHANGED <<role, team, group, kcMember, orgEvents, orgCall, tenancyAsked, tenancyFaults>>
\* OrgTeamSync.SyncOnce, and reconcileTeamGroup for one team at a time: the users
\* of the group, the member tuples, the rows.
TeamSyncStarts ==
    /\ teamSync.pc = "idle" /\ teamSync' = [IdleTeamSync EXCEPT !.pc = "list", !.todo = ListTeamGroups]
    /\ UNCHANGED <<membership, permTuple, memberTuple, roleSync>> /\ tenancySame
reconcileTeamGroup ==
    /\ teamSync.pc = "list"
    /\ \/ \E ref \in teamSync.todo :
             teamSync' = [teamSync EXCEPT !.todo = @ \ {ref},
                             !.pc = IF resolveGroupID(ref.name) THEN "tuples" ELSE "list",
                             !.ref = IF resolveGroupID(ref.name) THEN ref ELSE @,
                             !.users = IF resolveGroupID(ref.name) THEN ListGroupMemberUsers(ref.name) ELSE @]
       \/ teamSync.todo = {} /\ teamSync' = IdleTeamSync
    /\ UNCHANGED <<membership, permTuple, memberTuple, roleSync>> /\ tenancySame
\* reconcileMembers reads the tuples, writes what is missing and deletes the rest.
memberTodo(writes, deletes) ==
    teamSync' = [teamSync EXCEPT !.pc = IF writes = {} /\ deletes = {} THEN "project" ELSE "write",
                                 !.writes = writes, !.deletes = deletes]
ReadMembers == {u \in Member : <<u, teamSync.ref.team>> \in memberTuple}
\* Mutant: only what is missing is written.
reconcileMembersAdds ==
    /\ teamSync.pc = "tuples" /\ memberTodo(teamSync.users \ ReadMembers, {})
    /\ UNCHANGED <<membership, permTuple, memberTuple, roleSync>> /\ tenancySame
reconcileMembers ==
    /\ teamSync.pc = "tuples" /\ memberTodo(teamSync.users \ ReadMembers, ReadMembers \ teamSync.users)
    /\ UNCHANGED <<membership, permTuple, memberTuple, roleSync>> /\ tenancySame
writeMembers ==
    /\ teamSync.pc = "write"
    /\ \/ /\ teamSync.writes # {} /\ memberTodo({}, teamSync.deletes)
          /\ memberTuple' = WriteTuples(memberTuple, teamSync.writes \X {teamSync.ref.team})
       \/ /\ teamSync.writes = {} /\ memberTodo({}, {})
          /\ memberTuple' = DeleteTuples(memberTuple, teamSync.deletes \X {teamSync.ref.team})
    /\ UNCHANGED <<membership, permTuple, roleSync>> /\ tenancySame
RemoveStaleTeamMemberships(rows, ref, keep) ==
    {m \in rows : m.team = ref.team => m.user \in keep /\ m.role = ref.role}
SyncTeamMembers ==
    /\ teamSync.pc = "project"
    /\ teamSync' = [teamSync EXCEPT !.pc = "list", !.users = {}, !.ref = IdleTeamSync.ref]
    /\ LET ref == teamSync.ref
           added == {[user |-> u, team |-> ref.team, role |-> ref.role] :
                        u \in {x \in teamSync.users : ~\E m \in membership : m.user = x /\ m.role = ref.role}}
       IN membership' = IF teamAndRole(ref.team, ref.role) \/ added = {}
                        THEN RemoveStaleTeamMemberships(membership \cup added, ref, teamSync.users) ELSE membership
    /\ UNCHANGED <<permTuple, memberTuple, roleSync>> /\ tenancySame
\* OrgRoleSync.SyncOnce and convergeOrg: what is wanted is listed once, and the
\* tuples of each permission are read, deleted and written in turn.
RoleSyncStarts ==
    /\ roleSync = IdleRoleSync
    /\ roleSync' = [IdleRoleSync EXCEPT !.todo = Permission, !.want = Granted]
    /\ UNCHANGED <<membership, permTuple, memberTuple, teamSync>> /\ tenancySame
relationDiff(p) ==
    LET actual == {x \in permTuple : x[2] = p}  want == {x \in roleSync.want : x[2] = p}
    IN [del |-> actual \ want, add |-> want \ actual]
nextRelation(p, del, add) ==
    /\ roleSync.del = {} /\ roleSync.add = {}
    /\ roleSync' = [todo |-> roleSync.todo \ {p}, want |-> {x \in roleSync.want : x[2] # p}, del |-> del, add |-> add]
\* Mutant: tuples of teams that are gone are left.
convergeOrgAdds ==
    /\ \E p \in roleSync.todo : nextRelation(p, {}, relationDiff(p).add)
    /\ UNCHANGED <<membership, permTuple, memberTuple, teamSync>> /\ tenancySame
convergeOrg ==
    /\ \E p \in roleSync.todo : nextRelation(p, relationDiff(p).del, relationDiff(p).add)
    /\ UNCHANGED <<membership, permTuple, memberTuple, teamSync>> /\ tenancySame
writeRelation ==
    /\ \/ roleSync.del # {} /\ permTuple' = DeleteTuples(permTuple, roleSync.del) /\ roleSync' = [roleSync EXCEPT !.del = {}]
       \/ /\ roleSync.del = {} /\ roleSync.add # {}
          /\ permTuple' = WriteTuples(permTuple, roleSync.add) /\ roleSync' = [roleSync EXCEPT !.add = {}]
    /\ UNCHANGED <<membership, memberTuple, teamSync>> /\ tenancySame
\* A call of a loop fails: the rows of the team are projected all the same, the next
\* permission is converged.
SyncFails ==
    /\ tenancyFaults < MaxTenancyFaults /\ tenancyFaults' = tenancyFaults + 1
    /\ \/ /\ teamSync.pc = "write" /\ UNCHANGED roleSync
          /\ memberTodo({}, {})
       \/ /\ roleSync.del \cup roleSync.add # {} /\ UNCHANGED teamSync
          /\ roleSync' = [roleSync EXCEPT !.del = {}, !.add = {}]
    /\ UNCHANGED <<role, team, group, kcMember, membership, orgEvents, permTuple, memberTuple, orgCall, tenancyAsked>>
TeamSyncStep == TeamSyncStarts \/ reconcileTeamGroup \/ reconcileMembers \/ writeMembers \/ SyncTeamMembers
RoleSyncStep == RoleSyncStarts \/ convergeOrg \/ writeRelation

-----------------------------------------------------------------------------
(* Handlers *)

authorizeTenant(u, relation) ==
    /\ Authorized(u, relation)
    /\ tenancyAsked < MaxTenancyRequests /\ tenancyAsked' = tenancyAsked + 1
httpAddMember(u, c) == authorizeTenant(u, "tenant_members_manage") /\ AddMember(c)
httpRemoveMember(u, c) == authorizeTenant(u, "tenant_members_manage") /\ RemoveMember(c)
httpPutMember(u, c) == authorizeTenant(u, "tenant_rbac_manage") /\ SetMemberRole(c)
httpRemoveOrgMember(u, c) == authorizeTenant(u, "tenant_members_manage") /\ RemoveOrgMember(c)
httpCreateTeam(u, c) == authorizeTenant(u, "tenant_teams_manage") /\ CreateTeam(c)
httpDeleteTeam(u, c) == authorizeTenant(u, "tenant_teams_manage") /\ DeleteTeam(c)
httpUpdateRole(u, c) == authorizeTenant(u, "tenant_rbac_manage") /\ UpdateRole(c)
httpCreateRole(u) == authorizeTenant(u, "tenant_rbac_manage") /\ CreateRole
httpDeleteRole(u) == authorizeTenant(u, "tenant_rbac_manage") /\ DeleteRole
TenancyRoutes ==
    \E u \in User :
        \/ \E c \in TenancyCall :
              \/ httpAddMember(u, c) \/ httpRemoveMember(u, c) \/ httpPutMember(u, c) \/ httpRemoveOrgMember(u, c)
              \/ httpCreateTeam(u, c) \/ httpDeleteTeam(u, c) \/ httpUpdateRole(u, c)
        \/ httpCreateRole(u) \/ httpDeleteRole(u)

TenancyNext ==
    \/ TenancyRoutes \/ HandleOrgEvents \/ HandleOrgEventFails \/ TeamSyncStep \/ RoleSyncStep \/ SyncFails
    \/ \E c \in TenancyCall : OrgCallStep(c) \/ OrgCallFails(c)

TenancySpec == TenancyInit /\ [][TenancyNext]_tenancyVars

-----------------------------------------------------------------------------
(* Properties *)

\* A team with tenant.admin remains, whatever role edits and deletions of teams
\* overlap: the organization cannot lock itself out.
AdminRetained == \E t \in TeamId : "tenant.admin" \in ListRoles(t)

\* Once the requests end, the permission tuples become those of the teams' roles
\* and stay so, although events carry permissions read earlier and arrive in any order.
GrantsSettle == <>[](permTuple = Granted)

\* Once the requests end, who is in a team's group is who has its tuple, and who
\* has a row for its role: removed members lose access, added ones gain it.
MembersSettle ==
    <>[](/\ \A t \in TeamId : team[t].exists /\ group[team[t].name].exists =>
               \A u \in Member : (u \in group[team[t].name].members) <=> (<<u, t>> \in memberTuple)
         /\ \A r \in OrgRole, u \in Member :
               (\A t \in ListTeamIDsForRole(r) : group[team[t].name].exists) =>
               ((\E t \in ListTeamIDsForRole(r) : u \in group[team[t].name].members)
                   <=> \E m \in membership : m.user = u /\ m.role = r))
=============================================================================
