---------------------------- MODULE AccessProofs ----------------------------
(***************************************************************************)
(* Proofs about Tenancy, AccessCache and Approvals, for every set of       *)
(* members, teams, roles, replicas, objects, requests and actors: an       *)
(* organization keeps a team with tenant.admin, a cached answer never      *)
(* outlives the removal of the tuple it was read from, and a request has   *)
(* one outcome, decided by somebody other than its requester.              *)
(***************************************************************************)
EXTENDS Tenancy, AccessCache, Approvals, FiniteSetTheorems, SequenceTheorems, TLAPS

-----------------------------------------------------------------------------
(* Tenancy: the inductive invariant *)

OrgOp == {"none", "AddMember", "RemoveMember", "SetMemberRole", "RemoveOrgMember", "CreateTeam", "DeleteTeam",
          "UpdateRole"}
OrgPc == {"idle", "org", "group", "leave", "leaveOrg", "tx", "createGroup", "createTx", "deleteGroup"}
OrgCall == [op : OrgOp, pc : OrgPc, user : Member, team : TeamId, name : TeamName, role : OrgRole,
            permissions : SUBSET Permission, current : SUBSET Membership]
TeamSync == [pc : {"idle", "list", "tuples", "write", "project"}, todo : SUBSET TeamGroupRef, ref : TeamGroupRef,
             users : SUBSET Member, writes : SUBSET Member, deletes : SUBSET Member]
RoleSync == [todo : SUBSET Permission, want : SUBSET (TeamId \X Permission), del : SUBSET (TeamId \X Permission),
             add : SUBSET (TeamId \X Permission)]

\* The roles, the teams and what the calls have read of them.
RowsTyped ==
    /\ role \in [OrgRole -> Role] /\ team \in [TeamId -> Team]
    /\ orgCall \in [TenancyCall -> OrgCall] /\ membership \in SUBSET Membership
    /\ teamSync \in TeamSync

\* A team's role is never deleted from under it.
TeamsHaveRoles == \A t \in TeamId : team[t].exists => role[team[t].role].exists

TenancyInv == RowsTyped /\ TeamsHaveRoles /\ AdminRetained

\* Keycloak, OpenFGA, the outbox and the bounds.
KeycloakTyped == group \in [TeamName -> KeycloakGroup] /\ kcMember \in SUBSET Member
TuplesTyped ==
    /\ permTuple \subseteq TeamId \X Permission /\ memberTuple \subseteq Member \X TeamId
    /\ roleSync \in RoleSync
    /\ tenancyAsked \in 0 .. MaxTenancyRequests /\ tenancyFaults \in 0 .. MaxTenancyFaults
EventsTyped == orgEvents \in Seq(OrgEvent)

-----------------------------------------------------------------------------
(* Tenancy: the calls stay well typed *)

\* An idle call is a call.
LEMMA IdleIsCall == IdleOrgCall \in OrgCall
<1>1. (CHOOSE u \in Member : TRUE) \in Member
  BY TenancyAssumption
<1>2. AdminRole \in OrgRole /\ AnchorTeam \in TeamId /\ AnchorName \in TeamName
  BY TenancyAssumption
<1> QED
  BY <1>1, <1>2 DEF IdleOrgCall, OrgCall, OrgOp, OrgPc

\* A call that begins, goes on or returns is a call.
LEMMA CallUpdates ==
    ASSUME orgCall \in [TenancyCall -> OrgCall], NEW c \in TenancyCall,
           \/ Return(c) \/ UNCHANGED orgCall
           \/ \E pc \in OrgPc : Goto(c, pc)
           \/ \E call \in OrgCall : BeginOrgCall(c, call)
           \/ \E t \in TeamId, r \in OrgRole :
                 orgCall' = [orgCall EXCEPT ![c] = [orgCall[c] EXCEPT !.pc = "org", !.team = t, !.role = r]]
    PROVE  orgCall' \in [TenancyCall -> OrgCall]
<1>1. CASE Return(c) \/ UNCHANGED orgCall
  BY <1>1, IdleIsCall DEF Return
<1>2. CASE \E pc \in OrgPc : Goto(c, pc)
  BY <1>2 DEF Goto, OrgCall
<1>3. CASE \E call \in OrgCall : BeginOrgCall(c, call)
  BY <1>3 DEF BeginOrgCall
<1>4. CASE \E t \in TeamId, r \in OrgRole :
              orgCall' = [orgCall EXCEPT ![c] = [orgCall[c] EXCEPT !.pc = "org", !.team = t, !.role = r]]
  <2>1. PICK t \in TeamId, r \in OrgRole :
           orgCall' = [orgCall EXCEPT ![c] = [orgCall[c] EXCEPT !.pc = "org", !.team = t, !.role = r]]
    BY <1>4
  <2>2. orgCall[c] \in OrgCall
    OBVIOUS
  <2>3. [orgCall[c] EXCEPT !.pc = "org", !.team = t, !.role = r] \in OrgCall
    BY <2>2 DEF OrgCall, OrgPc
  <2> QED
    BY <2>1, <2>3
<1> QED
  BY <1>1, <1>2, <1>3, <1>4

\* The reads at the beginning of the calls.
LEMMA BeginTyped ==
    ASSUME RowsTyped, NEW c \in TenancyCall,
           \/ AddMember(c) \/ RemoveMember(c) \/ SetMemberRole(c) \/ RemoveOrgMember(c)
           \/ CreateTeam(c) \/ DeleteTeam(c) \/ UpdateRole(c)
    PROVE  orgCall' \in [TenancyCall -> OrgCall] /\ UNCHANGED <<role, team, membership>>
<1> USE IdleIsCall DEF OrgCall, OrgOp, OrgPc, ReadOnly, rowsSame
<1>1. \A t \in TeamId : team[t].role \in OrgRole
  BY DEF RowsTyped, Team
<1>2. \A r \in OrgRole : role[r].permissions \in SUBSET Permission
  BY DEF RowsTyped, Role
<1>3. \A n : GetTeamByName(n) \subseteq TeamId
  BY DEF GetTeamByName
<1>4. \A u \in Member : ListMembershipsWithPaths(u) \in SUBSET Membership
  BY DEF RowsTyped, ListMembershipsWithPaths
<1> SUFFICES /\ \E call \in OrgCall : BeginOrgCall(c, call)
             /\ UNCHANGED <<role, team, membership>>
  BY CallUpdates DEF RowsTyped
<1>5. UNCHANGED <<role, team, membership>>
  BY DEF AddMember, RemoveMember, SetMemberRole, RemoveOrgMember, CreateTeam, DeleteTeam, UpdateRole
<1>6. CASE AddMember(c)
  BY <1>1, <1>3, <1>6 DEF AddMember
<1>7. CASE RemoveMember(c)
  <2>1. PICK u \in Member, n \in TeamName : \E t \in GetTeamByName(n) :
           BeginOrgCall(c, [IdleOrgCall EXCEPT !.op = "RemoveMember", !.pc = "leave", !.user = u, !.team = t, !.name = n,
                              !.role = team[t].role, !.current = {[user |-> u, team |-> t, role |-> team[t].role]}])
    BY <1>7 DEF RemoveMember
  <2>2. PICK t \in TeamId :
           BeginOrgCall(c, [IdleOrgCall EXCEPT !.op = "RemoveMember", !.pc = "leave", !.user = u, !.team = t, !.name = n,
                              !.role = team[t].role, !.current = {[user |-> u, team |-> t, role |-> team[t].role]}])
    BY <1>3, <2>1
  <2>3. {[user |-> u, team |-> t, role |-> team[t].role]} \in SUBSET Membership
    BY <1>1 DEF Membership
  <2> QED
    BY <1>1, <1>5, <2>2, <2>3
<1>8. CASE SetMemberRole(c)
  <2>1. PICK u \in Member, r \in OrgRole : ensureTeam(c, u, r)
    BY <1>8 DEF SetMemberRole
  <2>2. AnchorTeamForRole[r] \in TeamName
    BY TenancyAssumption
  <2> DEFINE call == [IdleOrgCall EXCEPT !.op = "SetMemberRole", !.user = u, !.name = AnchorTeamForRole[r], !.role = r,
                                    !.permissions = role[r].permissions, !.current = ListMembershipsWithPaths(u)]
  <2>3. call \in OrgCall
    BY <1>2, <1>4, <2>2
  <2>4. \/ \E t \in TeamId : BeginOrgCall(c, [call EXCEPT !.pc = "org", !.team = t, !.role = team[t].role])
        \/ BeginOrgCall(c, [call EXCEPT !.pc = "createGroup"])
    BY <1>3, <2>1 DEF ensureTeam
  <2> HIDE DEF call
  <2>5. [call EXCEPT !.pc = "createGroup"] \in OrgCall
    BY <2>3
  <2>6. \A t \in TeamId : [call EXCEPT !.pc = "org", !.team = t, !.role = team[t].role] \in OrgCall
    BY <1>1, <2>3
  <2> QED
    BY <1>5, <2>4, <2>5, <2>6
<1>9. CASE RemoveOrgMember(c)
  BY <1>4, <1>5, <1>9 DEF RemoveOrgMember
<1>10. CASE CreateTeam(c)
  BY <1>2, <1>5, <1>10 DEF CreateTeam
<1>11. CASE DeleteTeam(c)
  BY <1>1, <1>2, <1>3, <1>5, <1>11 DEF DeleteTeam
<1>12. CASE UpdateRole(c)
  BY <1>2, <1>5, <1>12 DEF UpdateRole
<1> QED
  BY <1>6, <1>7, <1>8, <1>9, <1>10, <1>11, <1>12

-----------------------------------------------------------------------------
(* Tenancy: a team with tenant.admin remains *)

\* A step that leaves roles and teams as they are keeps what is said of them.
LEMMA RowsStay ==
    ASSUME TenancyInv, orgCall' \in [TenancyCall -> OrgCall], membership' \in SUBSET Membership,
           teamSync' \in TeamSync, UNCHANGED <<role, team>>
    PROVE  TenancyInv'
BY DEF TenancyInv, RowsTyped, TeamsHaveRoles, AdminRetained, ListRoles

\* The guardrail of a transaction, read of the rows it is about to write.
LEMMA GuardrailRetains ==
    ASSUME AdminGuardrailHolds(team', role')
    PROVE  AdminRetained'
BY DEF AdminGuardrailHolds, AdminRetained, ListRoles

\* A call begins: nothing but the call changes.
LEMMA BeginKeeps ==
    ASSUME TenancyInv, NEW c \in TenancyCall,
           \/ AddMember(c) \/ RemoveMember(c) \/ SetMemberRole(c) \/ RemoveOrgMember(c)
           \/ CreateTeam(c) \/ DeleteTeam(c) \/ UpdateRole(c)
    PROVE  TenancyInv'
<1>1. orgCall' \in [TenancyCall -> OrgCall] /\ UNCHANGED <<role, team, membership>>
  BY BeginTyped DEF TenancyInv
<1>2. UNCHANGED teamSync
  BY DEF AddMember, RemoveMember, SetMemberRole, RemoveOrgMember, CreateTeam, DeleteTeam, UpdateRole, syncSame
<1> QED
  BY <1>1, <1>2, RowsStay DEF TenancyInv, RowsTyped

\* A role is created where there was none, and deleted when no team has it.
LEMMA RoleRowsKeep ==
    ASSUME TenancyInv, CreateRole \/ DeleteRole
    PROVE  TenancyInv'
<1>1. PICK r \in OrgRole, new \in Role :
         /\ role' = [role EXCEPT ![r] = new]
         /\ \A t \in TeamId : team[t].exists => team[t].role # r
  <2>1. CASE CreateRole
    BY <2>1 DEF CreateRole, Role, TenancyInv, TeamsHaveRoles
  <2>2. CASE DeleteRole
    BY <2>2 DEF DeleteRole, Role, ListTeamIDsForRole
  <2> QED
    BY <2>1, <2>2
<1>2. UNCHANGED <<team, membership, orgCall, teamSync>>
  BY DEF CreateRole, DeleteRole, syncSame
<1>3. \A t \in TeamId : team[t].exists => role'[team[t].role] = role[team[t].role]
  BY <1>1 DEF TenancyInv, RowsTyped
<1>4. RowsTyped'
  BY <1>1, <1>2 DEF TenancyInv, RowsTyped
<1>5. TeamsHaveRoles' /\ AdminRetained'
  BY <1>2, <1>3 DEF TenancyInv, TeamsHaveRoles, AdminRetained, ListRoles
<1> QED
  BY <1>4, <1>5 DEF TenancyInv

\* A call of Keycloak, whether it succeeds or fails.
LEMMA KeycloakStepKeeps ==
    ASSUME TenancyInv, NEW c \in TenancyCall,
           \/ JoinOrg(c) \/ JoinGroup(c) \/ LeaveGroup(c) \/ LeaveOrg(c)
           \/ CreateTeamGroup(c) \/ DeleteTeamGroup(c) \/ OrgCallFails(c)
    PROVE  TenancyInv'
<1>1. UNCHANGED <<role, team, membership, teamSync>>
  BY DEF JoinOrg, JoinGroup, LeaveGroup, LeaveOrg, CreateTeamGroup, DeleteTeamGroup, OrgCallFails, rowsSame, syncSame,
         ReadOnly
<1>2. Return(c) \/ \E pc \in OrgPc : Goto(c, pc)
  <2> USE DEF OrgPc
  <2>1. CASE JoinOrg(c) \/ LeaveOrg(c) \/ CreateTeamGroup(c)
    BY <2>1 DEF JoinOrg, LeaveOrg, CreateTeamGroup
  <2>2. CASE JoinGroup(c)
    BY <2>2 DEF JoinGroup
  <2>3. CASE LeaveGroup(c)
    BY <2>3 DEF LeaveGroup
  <2>4. CASE DeleteTeamGroup(c) \/ OrgCallFails(c)
    BY <2>4 DEF DeleteTeamGroup, OrgCallFails
  <2> QED
    BY <2>1, <2>2, <2>3, <2>4
<1>3. orgCall' \in [TenancyCall -> OrgCall]
  BY <1>2, CallUpdates DEF TenancyInv, RowsTyped
<1> QED
  BY <1>1, <1>3, RowsStay DEF TenancyInv, RowsTyped

\* The transaction of the membership calls.
LEMMA MembersTxKeeps ==
    ASSUME TenancyInv, NEW c \in TenancyCall, MembersTx(c)
    PROVE  TenancyInv'
<1>1. orgCall' \in [TenancyCall -> OrgCall]
  BY CallUpdates DEF MembersTx, TenancyInv, RowsTyped
<1>2. UNCHANGED <<role, team, teamSync>>
  BY DEF MembersTx, syncSame
<1>3. orgCall[c] \in OrgCall /\ membership \in SUBSET Membership
  BY DEF TenancyInv, RowsTyped
<1>4. [user |-> orgCall[c].user, team |-> orgCall[c].team, role |-> orgCall[c].role] \in Membership
  BY <1>3 DEF OrgCall, Membership
<1>5. \A rows \in SUBSET membership :
         AddMembership(rows, orgCall[c].user, orgCall[c].team, orgCall[c].role) \in SUBSET Membership
  BY <1>3, <1>4 DEF AddMembership
<1>6. membership' \in SUBSET Membership
  BY <1>3, <1>5 DEF MembersTx, writeMemberships, RemoveMembership, RemoveMembershipsForUser
<1> QED
  BY <1>1, <1>2, <1>6, RowsStay DEF TenancyInv, RowsTyped

\* insertTeam adds a team of a role that exists; the other teams stay.
LEMMA CreateTeamTxKeeps ==
    ASSUME TenancyInv, NEW c \in TenancyCall, CreateTeamTx(c)
    PROVE  TenancyInv'
<1>1. orgCall[c] \in OrgCall
  BY DEF TenancyInv, RowsTyped
<1>2. UNCHANGED <<role, membership, teamSync>>
  BY DEF CreateTeamTx, syncSame
<1>3. /\ UNCHANGED team \/ \E t \in TeamId : insertTeam(t, orgCall[c].name, orgCall[c].role, orgCall[c].permissions)
      /\ \/ Return(c)
         \/ \E t \in TeamId, r \in OrgRole :
               orgCall' = [orgCall EXCEPT ![c] = [orgCall[c] EXCEPT !.pc = "org", !.team = t, !.role = r]]
  <2>1. \A n : GetTeamByName(n) \subseteq TeamId
    BY DEF GetTeamByName
  <2>2. \A t \in TeamId : team[t].role \in OrgRole
    BY DEF TenancyInv, RowsTyped, Team
  <2>3. orgCall[c].role \in OrgRole
    BY <1>1 DEF OrgCall
  <2> QED
    BY <2>1, <2>2, <2>3 DEF CreateTeamTx
<1>4. orgCall' \in [TenancyCall -> OrgCall]
  BY <1>3, CallUpdates DEF TenancyInv, RowsTyped
<1>5. CASE UNCHANGED team
  BY <1>2, <1>4, <1>5, RowsStay DEF TenancyInv, RowsTyped
<1>6. ASSUME NEW t \in TeamId, insertTeam(t, orgCall[c].name, orgCall[c].role, orgCall[c].permissions)
      PROVE  TenancyInv'
  <2> DEFINE new == [exists |-> TRUE, name |-> orgCall[c].name, role |-> orgCall[c].role]
  <2>1. new \in Team
    BY <1>1 DEF OrgCall, Team
  <2>2. team' = [team EXCEPT ![t] = new] /\ ~team[t].exists /\ role[new.role].exists
    BY <1>6 DEF insertTeam
  <2> HIDE DEF new
  <2>3. RowsTyped'
    BY <1>2, <1>4, <2>1, <2>2 DEF TenancyInv, RowsTyped
  <2>4. TeamsHaveRoles'
    BY <1>2, <2>2 DEF TenancyInv, RowsTyped, TeamsHaveRoles
  <2>5. AdminRetained'
    BY <1>2, <2>2 DEF TenancyInv, RowsTyped, AdminRetained, ListRoles
  <2> QED
    BY <2>3, <2>4, <2>5 DEF TenancyInv
<1> QED
  BY <1>3, <1>5, <1>6

\* DeleteTeam's transaction asks the guardrail of what it leaves.
LEMMA DeleteTeamTxKeeps ==
    ASSUME TenancyInv, NEW c \in TenancyCall, DeleteTeamTx(c)
    PROVE  TenancyInv'
<1>1. UNCHANGED <<role, teamSync>>
  BY DEF DeleteTeamTx, syncSame
<1>2. Return(c) \/ Goto(c, "deleteGroup")
  BY DEF DeleteTeamTx
<1>3. orgCall' \in [TenancyCall -> OrgCall]
  BY <1>2, CallUpdates DEF TenancyInv, RowsTyped, OrgPc
<1>4. CASE UNCHANGED <<team, membership>>
  BY <1>1, <1>3, <1>4, RowsStay DEF TenancyInv, RowsTyped
<1>5. ASSUME NEW t \in TeamId, team' = [team EXCEPT ![t].exists = FALSE], AdminGuardrailHolds(team', role),
             membership' = {m \in membership : m.team # t}
      PROVE  TenancyInv'
  <2>1. team' \in [TeamId -> Team] /\ \A x \in TeamId : team'[x].role = team[x].role /\ (team'[x].exists => team[x].exists)
    BY <1>5 DEF TenancyInv, RowsTyped, Team
  <2>2. AdminRetained'
    BY <1>1, <1>5, GuardrailRetains
  <2>3. RowsTyped' /\ TeamsHaveRoles'
    BY <1>1, <1>3, <1>5, <2>1 DEF TenancyInv, RowsTyped, TeamsHaveRoles
  <2> QED
    BY <2>2, <2>3 DEF TenancyInv
<1>6. UNCHANGED <<team, membership>> \/ \E t \in TeamId : /\ team' = [team EXCEPT ![t].exists = FALSE]
                                                          /\ AdminGuardrailHolds(team', role)
                                                          /\ membership' = {m \in membership : m.team # t}
  BY DEF DeleteTeamTx, GetTeamByName
<1> QED
  BY <1>4, <1>5, <1>6

\* So does UpdateRole's, of the permissions it writes.
LEMMA UpdateRoleTxKeeps ==
    ASSUME TenancyInv, NEW c \in TenancyCall, UpdateRoleTx(c)
    PROVE  TenancyInv'
<1>1. orgCall[c].permissions \in SUBSET Permission
  BY DEF TenancyInv, RowsTyped, OrgCall
<1>2. UNCHANGED <<team, membership, teamSync>> /\ orgCall' \in [TenancyCall -> OrgCall]
  BY CallUpdates DEF UpdateRoleTx, syncSame, TenancyInv, RowsTyped
<1>3. CASE UNCHANGED role
  BY <1>2, <1>3, RowsStay DEF TenancyInv, RowsTyped
<1>4. CASE /\ role' = [role EXCEPT ![orgCall[c].role].permissions = orgCall[c].permissions]
           /\ AdminGuardrailHolds(team, role')
  <2>1. role' \in [OrgRole -> Role] /\ \A r \in OrgRole : role'[r].exists = role[r].exists
    BY <1>1, <1>4 DEF TenancyInv, RowsTyped, Role
  <2>2. \A t \in TeamId : team[t].role \in OrgRole
    BY DEF TenancyInv, RowsTyped, Team
  <2>3. RowsTyped' /\ TeamsHaveRoles'
    BY <1>2, <2>1, <2>2 DEF TenancyInv, RowsTyped, TeamsHaveRoles
  <2>4. AdminRetained'
    BY <1>2, <1>4, GuardrailRetains
  <2> QED
    BY <2>3, <2>4 DEF TenancyInv
<1> QED
  BY <1>3, <1>4 DEF UpdateRoleTx

\* The teams a pass of the team loop lists are teams with their names and roles.
LEMMA ListedTeamsTyped == RowsTyped => ListTeamGroups \in SUBSET TeamGroupRef
BY DEF RowsTyped, Team, ListTeamGroups, TeamGroupRef

\* What is left to write and to delete is members.
LEMMA MemberTodoTyped ==
    ASSUME teamSync \in TeamSync, NEW writes \in SUBSET Member, NEW deletes \in SUBSET Member, memberTodo(writes, deletes)
    PROVE  teamSync' \in TeamSync
BY DEF memberTodo, TeamSync

\* The team loop writes memberships of the team and role it listed.
LEMMA TeamSyncKeeps ==
    ASSUME TenancyInv, group \in [TeamName -> KeycloakGroup], TeamSyncStep
    PROVE  TenancyInv'
<1>1. teamSync \in TeamSync /\ membership \in SUBSET Membership /\ ListTeamGroups \in SUBSET TeamGroupRef
  BY ListedTeamsTyped DEF TenancyInv, RowsTyped
<1>2. IdleTeamSync \in TeamSync
  BY TenancyAssumption DEF IdleTeamSync, TeamSync, TeamGroupRef
<1>3. UNCHANGED <<role, team, orgCall>>
  BY DEF TeamSyncStep, TeamSyncStarts, reconcileTeamGroup, reconcileMembers, writeMembers, SyncTeamMembers, tenancySame
<1>4. teamSync' \in TeamSync
  <2>1. CASE TeamSyncStarts
    BY <1>1, <1>2, <2>1 DEF TeamSyncStarts, TeamSync
  <2>2. CASE reconcileTeamGroup
    <3>1. CASE teamSync' = IdleTeamSync
      BY <1>2, <3>1
    <3>2. ASSUME NEW ref \in teamSync.todo,
                 teamSync' = [teamSync EXCEPT !.todo = @ \ {ref},
                                !.pc = IF resolveGroupID(ref.name) THEN "tuples" ELSE "list",
                                !.ref = IF resolveGroupID(ref.name) THEN ref ELSE @,
                                !.users = IF resolveGroupID(ref.name) THEN ListGroupMemberUsers(ref.name) ELSE @]
          PROVE  teamSync' \in TeamSync
      <4>1. ref \in TeamGroupRef
        BY <1>1 DEF TeamSync
      <4>2. ref.name \in TeamName
        BY <4>1 DEF TeamGroupRef
      <4>3. ListGroupMemberUsers(ref.name) \in SUBSET Member
        BY <4>2 DEF ListGroupMemberUsers, KeycloakGroup
      <4> QED
        BY <1>1, <3>2, <4>1, <4>3 DEF TeamSync
    <3> QED
      BY <2>2, <3>1, <3>2 DEF reconcileTeamGroup
  <2>3. CASE reconcileMembers
    <3>1. teamSync.users \in SUBSET Member /\ ReadMembers \in SUBSET Member
      BY <1>1 DEF TeamSync, ReadMembers
    <3> QED
      BY <1>1, <2>3, <3>1, MemberTodoTyped DEF reconcileMembers
  <2>5. CASE writeMembers
    <3>1. teamSync.deletes \in SUBSET Member
      BY <1>1 DEF TeamSync
    <3> QED
      BY <1>1, <2>5, <3>1, MemberTodoTyped DEF writeMembers
  <2>4. CASE SyncTeamMembers
    <3>1. IdleTeamSync.ref \in TeamGroupRef
      BY <1>2 DEF TeamSync
    <3> QED
      BY <1>1, <2>4, <3>1 DEF SyncTeamMembers, TeamSync
  <2> QED
    BY <2>1, <2>2, <2>3, <2>4, <2>5 DEF TeamSyncStep
<1>5. membership' \in SUBSET Membership
  <2>1. CASE SyncTeamMembers
    <3>1. teamSync.ref \in TeamGroupRef /\ teamSync.users \in SUBSET Member
      BY <1>1 DEF TeamSync
    <3>2. \A u \in teamSync.users :
             [user |-> u, team |-> teamSync.ref.team, role |-> teamSync.ref.role] \in Membership
      BY <3>1 DEF Membership, TeamGroupRef
    <3> QED
      BY <1>1, <2>1, <3>2 DEF SyncTeamMembers, RemoveStaleTeamMemberships
  <2> QED
    BY <1>1, <2>1 DEF TeamSyncStep, TeamSyncStarts, reconcileTeamGroup, reconcileMembers, writeMembers
<1> QED
  BY <1>3, <1>4, <1>5, RowsStay DEF TenancyInv, RowsTyped

\* At first the anchor team has the admin role with every permission.
LEMMA TenancyBegins == TenancyInit => TenancyInv
<1> SUFFICES ASSUME TenancyInit PROVE TenancyInv
  OBVIOUS
<1>1. PICK initial \in InitialTeams :
        LET roles == DOMAIN initial
            roleOf(t) == CHOOSE r \in roles : initial[r] = t
        IN /\ role = [r \in OrgRole |-> [exists |-> r \in roles, permissions |-> IF r \in roles THEN Permission ELSE {}]]
           /\ team = [t \in TeamId |->
                         IF t \in {initial[r] : r \in roles}
                         THEN [exists |-> TRUE, name |-> AnchorTeamForRole[roleOf(t)], role |-> roleOf(t)]
                         ELSE [exists |-> FALSE, name |-> AnchorName, role |-> AdminRole]]
  BY DEF TenancyInit
<1> DEFINE roles == DOMAIN initial
           roleOf(t) == CHOOSE r \in roles : initial[r] = t
<1>2. AdminRole \in roles /\ roles \subseteq OrgRole /\ initial[AdminRole] = AnchorTeam
  BY TenancyAssumption
<1>3. \A t \in {initial[r] : r \in roles} : roleOf(t) \in roles
  OBVIOUS
<1>4. role = [r \in OrgRole |-> [exists |-> r \in roles, permissions |-> IF r \in roles THEN Permission ELSE {}]]
  BY <1>1
<1>5. team = [t \in TeamId |->
                 IF t \in {initial[r] : r \in roles}
                 THEN [exists |-> TRUE, name |-> AnchorTeamForRole[roleOf(t)], role |-> roleOf(t)]
                 ELSE [exists |-> FALSE, name |-> AnchorName, role |-> AdminRole]]
  BY <1>1
<1> HIDE DEF roles, roleOf
<1>6. role \in [OrgRole -> Role]
  BY <1>4 DEF Role
<1>7. \A t \in TeamId : team[t] \in Team
  <2> TAKE t \in TeamId
  <2>1. CASE t \in {initial[r] : r \in roles}
    <3>1. roleOf(t) \in OrgRole
      BY <1>2, <1>3, <2>1
    <3>2. AnchorTeamForRole[roleOf(t)] \in TeamName
      BY <3>1, TenancyAssumption
    <3> QED
      BY <1>5, <2>1, <3>1, <3>2 DEF Team
  <2>2. CASE t \notin {initial[r] : r \in roles}
    BY <1>5, <2>2, TenancyAssumption DEF Team
  <2> QED
    BY <2>1, <2>2
<1>8. \A t \in TeamId : team[t].exists => team[t].role \in roles
  BY <1>3, <1>5
<1>9. TeamsHaveRoles
  BY <1>2, <1>4, <1>8 DEF TeamsHaveRoles
<1>10. AdminRetained
  <2>1. AnchorTeam \in TeamId /\ "tenant.admin" \in Permission
    BY TenancyAssumption
  <2>2. team[AnchorTeam].exists
    BY <1>2, <1>5, <2>1
  <2>3. role[team[AnchorTeam].role].permissions = Permission
    BY <1>2, <1>4, <1>8, <2>1, <2>2
  <2> QED
    BY <2>1, <2>2, <2>3 DEF AdminRetained, ListRoles
<1>11. RowsTyped
  <2>1. orgCall \in [TenancyCall -> OrgCall]
    BY IdleIsCall DEF TenancyInit
  <2>2. IdleTeamSync \in TeamSync
    BY TenancyAssumption DEF IdleTeamSync, TeamSync, TeamGroupRef
  <2>3. membership = {} /\ teamSync = IdleTeamSync
    BY DEF TenancyInit
  <2>4. team \in [TeamId -> Team]
    BY <1>5, <1>7
  <2> QED
    BY <1>6, <2>1, <2>2, <2>3, <2>4 DEF RowsTyped
<1> QED
  BY <1>9, <1>10, <1>11 DEF TenancyInv

-----------------------------------------------------------------------------
(* Tenancy: Keycloak, the tuples and the events stay well typed *)

\* Groups and members are written from the call.
LEMMA KeycloakStays ==
    ASSUME TenancyInv, KeycloakTyped, TenancyNext \/ UNCHANGED tenancyVars
    PROVE  KeycloakTyped'
<1>1. CASE UNCHANGED <<group, kcMember>>
  BY <1>1 DEF KeycloakTyped
<1>2. ASSUME NEW c \in TenancyCall, OrgCallStep(c)
      PROVE  KeycloakTyped'
  <2>1. orgCall[c].name \in TeamName /\ orgCall[c].user \in Member /\ orgCall[c].current \in SUBSET Membership
    BY DEF TenancyInv, RowsTyped, OrgCall
  <2>2. \A m \in Membership : team[m.team].name \in TeamName
    BY DEF TenancyInv, RowsTyped, Team, Membership
  <2>3. ASSUME NEW n \in TeamName, NEW ms \in SUBSET Member
        PROVE  [group EXCEPT ![n].members = ms] \in [TeamName -> KeycloakGroup]
    BY DEF KeycloakTyped, KeycloakGroup
  <2>4. \A n \in TeamName : group[n].members \in SUBSET Member
    BY DEF KeycloakTyped, KeycloakGroup
  <2>5. CASE JoinOrg(c) \/ LeaveOrg(c)
    BY <2>1, <2>5 DEF JoinOrg, LeaveOrg, AddOrganizationMember, RemoveOrganizationMember, KeycloakTyped
  <2>6. CASE JoinGroup(c)
    <3>1. \/ group' = group
          \/ group' = [group EXCEPT ![orgCall[c].name].members = group[orgCall[c].name].members \cup {orgCall[c].user}]
      BY <2>6 DEF JoinGroup, AddGroupMember
    <3>2. group[orgCall[c].name].members \cup {orgCall[c].user} \in SUBSET Member
      BY <2>1, <2>4
    <3>3. [group EXCEPT ![orgCall[c].name].members = group[orgCall[c].name].members \cup {orgCall[c].user}]
             \in [TeamName -> KeycloakGroup]
      BY <2>1, <2>3, <3>2
    <3>4. group' \in [TeamName -> KeycloakGroup]
      BY <3>1, <3>3 DEF KeycloakTyped
    <3> QED
      BY <2>6, <3>4 DEF JoinGroup, KeycloakTyped
  <2>7. CASE LeaveGroup(c)
    <3>1. \/ group' = group
          \/ \E m \in Membership : group' = [group EXCEPT ![team[m.team].name].members =
                                               group[team[m.team].name].members \ {orgCall[c].user}]
      BY <2>1, <2>7 DEF LeaveGroup, RemoveGroupMember
    <3>2. \A m \in Membership : group[team[m.team].name].members \ {orgCall[c].user} \in SUBSET Member
      BY <2>2, <2>4
    <3>3. ASSUME NEW m \in Membership
          PROVE  [group EXCEPT ![team[m.team].name].members = group[team[m.team].name].members \ {orgCall[c].user}]
                    \in [TeamName -> KeycloakGroup]
      BY <2>2, <2>3, <3>2
    <3>4. group' \in [TeamName -> KeycloakGroup]
      BY <3>1, <3>3 DEF KeycloakTyped
    <3> QED
      BY <2>7, <3>4 DEF LeaveGroup, KeycloakTyped
  <2>8. CASE CreateTeamGroup(c) \/ DeleteTeamGroup(c)
    <3>1. [group EXCEPT ![orgCall[c].name].exists = TRUE] \in [TeamName -> KeycloakGroup]
      BY <2>1 DEF KeycloakTyped, KeycloakGroup
    <3>2. [group EXCEPT ![orgCall[c].name] = [exists |-> FALSE, members |-> {}]] \in [TeamName -> KeycloakGroup]
      BY <2>1 DEF KeycloakTyped, KeycloakGroup
    <3> QED
      BY <2>8, <3>1, <3>2 DEF CreateTeamGroup, DeleteTeamGroup, CreateGroup, DeleteGroup, KeycloakTyped
  <2>9. CASE MembersTx(c) \/ CreateTeamTx(c) \/ DeleteTeamTx(c) \/ UpdateRoleTx(c)
    BY <1>1, <2>9 DEF MembersTx, CreateTeamTx, DeleteTeamTx, UpdateRoleTx
  <2> QED
    BY <1>2, <2>5, <2>6, <2>7, <2>8, <2>9 DEF OrgCallStep
<1>3. CASE TenancyRoutes
  BY <1>1, <1>3 DEF TenancyRoutes, httpAddMember, httpRemoveMember, httpPutMember, httpRemoveOrgMember, httpCreateTeam,
     httpDeleteTeam, httpUpdateRole, httpCreateRole, httpDeleteRole, AddMember, RemoveMember, SetMemberRole,
     RemoveOrgMember, CreateTeam, DeleteTeam, UpdateRole, CreateRole, DeleteRole, ReadOnly
<1>4. CASE HandleOrgEvents \/ HandleOrgEventFails \/ TeamSyncStep \/ RoleSyncStep \/ SyncFails
  BY <1>1, <1>4 DEF HandleOrgEvents, HandleOrgEvent, HandleOrgEventFails, handlerSame, TeamSyncStep, TeamSyncStarts,
     reconcileTeamGroup, reconcileMembers, writeMembers, SyncTeamMembers, RoleSyncStep, RoleSyncStarts, convergeOrg,
     writeRelation, SyncFails, tenancySame
<1>5. CASE (\E c \in TenancyCall : OrgCallFails(c)) \/ UNCHANGED tenancyVars
  BY <1>1, <1>5 DEF OrgCallFails, ReadOnly, tenancyVars
<1> QED
  BY <1>2, <1>3, <1>4, <1>5 DEF TenancyNext

\* The tuple writer and the role loop write tuples of teams and permissions.
LEMMA TuplesStay ==
    ASSUME TenancyInv, EventsTyped, TuplesTyped, TenancyNext \/ UNCHANGED tenancyVars
    PROVE  TuplesTyped'
<1>1. ASSUME UNCHANGED <<permTuple, memberTuple, roleSync>>, tenancyAsked' \in 0 .. MaxTenancyRequests,
             tenancyFaults' \in 0 .. MaxTenancyFaults
      PROVE  TuplesTyped'
  BY <1>1 DEF TuplesTyped
<1>2. tenancyAsked \in 0 .. MaxTenancyRequests /\ tenancyFaults \in 0 .. MaxTenancyFaults
  BY DEF TuplesTyped
<1>3. ASSUME NEW c \in TenancyCall, OrgCallStep(c)
      PROVE  TuplesTyped'
  BY <1>1, <1>2, <1>3 DEF OrgCallStep, JoinOrg, JoinGroup, LeaveGroup, LeaveOrg, MembersTx, CreateTeamGroup,
     CreateTeamTx, DeleteTeamTx, DeleteTeamGroup, UpdateRoleTx, syncSame
<1>4. CASE TenancyRoutes
  <2>1. UNCHANGED <<permTuple, memberTuple, roleSync, tenancyFaults>> 
    BY <1>4 DEF TenancyRoutes, httpAddMember, httpRemoveMember, httpPutMember, httpRemoveOrgMember, httpCreateTeam,
       httpDeleteTeam, httpUpdateRole, httpCreateRole, httpDeleteRole, AddMember, RemoveMember, SetMemberRole,
       RemoveOrgMember, CreateTeam, DeleteTeam, UpdateRole, CreateRole, DeleteRole, syncSame
  <2>2. tenancyAsked < MaxTenancyRequests /\ tenancyAsked' = tenancyAsked + 1
    BY <1>4 DEF TenancyRoutes, httpAddMember, httpRemoveMember, httpPutMember, httpRemoveOrgMember, httpCreateTeam,
       httpDeleteTeam, httpUpdateRole, httpCreateRole, httpDeleteRole, authorizeTenant
  <2> QED
    BY <1>1, <1>2, <2>1, <2>2, TenancyAssumption
<1>5. ASSUME NEW i \in 1 .. Len(orgEvents), HandleOrgEvent(i)
      PROVE  TuplesTyped'
  <2>1. orgEvents[i] \in OrgEvent
    BY DEF EventsTyped
  <2>2. orgEvents[i].teams \subseteq TeamId /\ orgEvents[i].old \subseteq Permission /\ orgEvents[i].user \in Member
        /\ orgEvents[i].new \subseteq Permission
    BY <2>1 DEF OrgEvent
  <2>3. permTuple' \subseteq TeamId \X Permission
    BY <1>5, <2>2 DEF HandleOrgEvent, WriteTuples, DeleteTuples, permissionTuples, TuplesTyped
  <2>4. memberTuple' \subseteq Member \X TeamId
    BY <1>5, <2>2 DEF HandleOrgEvent, WriteTuples, DeleteTuples, TuplesTyped
  <2> QED
    BY <1>5, <2>3, <2>4 DEF HandleOrgEvent, handlerSame, TuplesTyped
<1>6. CASE TeamSyncStep
  <2>1. CASE writeMembers
    <3>1. teamSync.writes \in SUBSET Member /\ teamSync.deletes \in SUBSET Member /\ teamSync.ref.team \in TeamId
      BY DEF TenancyInv, RowsTyped, TeamSync, TeamGroupRef
    <3>2. memberTuple' \subseteq Member \X TeamId
      BY <2>1, <3>1 DEF writeMembers, WriteTuples, DeleteTuples, TuplesTyped
    <3>3. UNCHANGED <<permTuple, roleSync, tenancyAsked, tenancyFaults>>
      BY <2>1 DEF writeMembers, tenancySame
    <3> QED
      BY <3>2, <3>3 DEF TuplesTyped
  <2> QED
    BY <1>1, <1>2, <1>6, <2>1 DEF TeamSyncStep, TeamSyncStarts, reconcileTeamGroup, reconcileMembers, SyncTeamMembers,
       tenancySame
<1>7. CASE RoleSyncStep
  <2>1. Granted \subseteq TeamId \X Permission
    BY DEF Granted
  <2>2. CASE RoleSyncStarts
    <3>1. roleSync' \in RoleSync
      BY <2>1, <2>2 DEF RoleSyncStarts, IdleRoleSync, RoleSync
    <3> QED
      BY <2>2, <3>1 DEF RoleSyncStarts, tenancySame, TuplesTyped
  <2>3. CASE convergeOrg
    <3>1. PICK p \in roleSync.todo : nextRelation(p, relationDiff(p).del, relationDiff(p).add)
      BY <2>3 DEF convergeOrg
    <3>2. roleSync.todo \in SUBSET Permission /\ roleSync.want \in SUBSET (TeamId \X Permission)
      BY DEF TuplesTyped, RoleSync
    <3>3. relationDiff(p).del \in SUBSET (TeamId \X Permission) /\ relationDiff(p).add \in SUBSET (TeamId \X Permission)
      BY <3>2 DEF relationDiff, TuplesTyped
    <3>4. roleSync' \in RoleSync
      BY <3>1, <3>2, <3>3 DEF nextRelation, RoleSync
    <3> QED
      BY <2>3, <3>4 DEF convergeOrg, tenancySame, TuplesTyped
  <2>4. CASE writeRelation
    <3>1. roleSync' \in RoleSync
      BY <2>4 DEF writeRelation, TuplesTyped, RoleSync
    <3>2. permTuple' \subseteq TeamId \X Permission
      BY <2>4 DEF writeRelation, WriteTuples, DeleteTuples, TuplesTyped, RoleSync
    <3> QED
      BY <2>4, <3>1, <3>2 DEF writeRelation, tenancySame, TuplesTyped
  <2> QED
    BY <1>7, <2>2, <2>3, <2>4 DEF RoleSyncStep
<1>8. ASSUME NEW c \in TenancyCall, OrgCallFails(c)
      PROVE  TuplesTyped'
  BY <1>1, <1>2, <1>8, TenancyAssumption DEF OrgCallFails
<1>9. CASE HandleOrgEventFails \/ UNCHANGED tenancyVars
  BY <1>1, <1>2, <1>9, TenancyAssumption DEF HandleOrgEventFails, handlerSame, tenancyVars
<1>10. CASE SyncFails
  <2>1. roleSync' \in RoleSync
    BY <1>10 DEF SyncFails, TuplesTyped, RoleSync
  <2>2. tenancyFaults' \in 0 .. MaxTenancyFaults
    BY <1>2, <1>10, TenancyAssumption DEF SyncFails
  <2> QED
    BY <1>10, <2>1, <2>2 DEF SyncFails, TuplesTyped
<1> QED
  BY <1>3, <1>4, <1>5, <1>6, <1>7, <1>8, <1>9, <1>10 DEF TenancyNext, HandleOrgEvents

\* Memberships are finitely many: what a transaction changes can be listed.
LEMMA MembershipFinite == IsFiniteSet(Membership)
<1> DEFINE f == [x \in (Member \X TeamId) \X OrgRole |-> [user |-> x[1][1], team |-> x[1][2], role |-> x[2]]]
<1>1. IsFiniteSet((Member \X TeamId) \X OrgRole)
  <2>1. IsFiniteSet(Member \X TeamId)
    BY FS_Product, TenancyAssumption
  <2> QED
    BY <2>1, FS_Product, TenancyAssumption
<1>2. f \in [(Member \X TeamId) \X OrgRole -> Membership]
  BY DEF Membership
<1>3. ASSUME NEW m \in Membership
      PROVE  \E x \in (Member \X TeamId) \X OrgRole : f[x] = m
  <2>1. m.user \in Member /\ m.team \in TeamId /\ m.role \in OrgRole /\ m = [user |-> m.user, team |-> m.team, role |-> m.role]
    BY DEF Membership
  <2>2. <<<<m.user, m.team>>, m.role>> \in (Member \X TeamId) \X OrgRole
    BY <2>1
  <2>3. f[<<<<m.user, m.team>>, m.role>>] = m
    BY <2>1, <2>2
  <2> QED
    BY <2>2, <2>3
<1>4. f \in Surjection((Member \X TeamId) \X OrgRole, Membership)
  BY <1>2, <1>3 DEF Surjection
<1> QED
  BY <1>1, <1>4, FS_Surjection

\* SetToSeq of a finite set lists members of it.
LEMMA SetToSeqTyped ==
    ASSUME NEW S, IsFiniteSet(S)
    PROVE  SetToSeq(S) \in Seq(S)
<1>1. Cardinality(S) \in Nat /\ ExistsBijection(1 .. Cardinality(S), S)
  BY FS_CardinalityType
<1>2. PICK f \in Bijection(1 .. Cardinality(S), S) : TRUE
  BY <1>1 DEF ExistsBijection
<1>3. f \in [1 .. Cardinality(S) -> S] /\ IsInjective(f)
  BY <1>2 DEF Bijection, Injection
<1>4. SetToSeq(S) \in [1 .. Cardinality(S) -> S]
  BY <1>3 DEF SetToSeq
<1> QED
  BY <1>1, <1>4

\* The events of a set of memberships.
RowEvents(type, ms) == {[type |-> type, teams |-> {m.team}, user |-> m.user, old |-> {}, new |-> {}, retracted |-> FALSE] : m \in ms}

\* They can be listed.
LEMMA RowEventsListed ==
    ASSUME NEW type \in {"membership.added", "membership.removed"}, NEW ms \in SUBSET Membership
    PROVE  SetToSeq(RowEvents(type, ms)) \in Seq(OrgEvent)
<1> DEFINE f == [m \in ms |-> [type |-> type, teams |-> {m.team}, user |-> m.user, old |-> {}, new |-> {}, retracted |-> FALSE]]
<1>1. IsFiniteSet(ms)
  BY MembershipFinite, FS_Subset
<1>2. f \in Surjection(ms, RowEvents(type, ms))
  BY DEF Surjection, RowEvents
<1>3. IsFiniteSet(RowEvents(type, ms))
  BY <1>1, <1>2, FS_Surjection
<1>4. SetToSeq(RowEvents(type, ms)) \in Seq(RowEvents(type, ms))
  BY <1>3, SetToSeqTyped
<1>5. RowEvents(type, ms) \subseteq OrgEvent
  <2> SUFFICES ASSUME NEW e \in RowEvents(type, ms) PROVE e \in OrgEvent
    OBVIOUS
  <2>1. PICK m \in ms : e = [type |-> type, teams |-> {m.team}, user |-> m.user, old |-> {}, new |-> {}, retracted |-> FALSE]
    BY DEF RowEvents
  <2>2. {m.team} \in SUBSET TeamId /\ m.user \in Member /\ {} \in SUBSET Permission
    BY DEF Membership
  <2>3. e \in OrgEvent
    BY <2>1, <2>2, SMT DEF OrgEvent
  <2> QED
    BY <2>3
<1> HIDE DEF RowEvents
<1> QED
  BY <1>4, <1>5

\* An event whose old tuples were deleted is still an event.
LEMMA MarkedTyped ==
    ASSUME NEW events \in Seq(OrgEvent), NEW i \in 1 .. Len(events), NEW done \in BOOLEAN
    PROVE  [events EXCEPT ![i].retracted = done] \in Seq(OrgEvent)
<1>1. events[i] \in OrgEvent
  OBVIOUS
<1>2. [events[i] EXCEPT !.retracted = done] \in OrgEvent
  BY <1>1 DEF OrgEvent
<1> QED
  BY <1>2, ExceptSeq

\* Each event a step appends is one of the types the tuple writer handles.
LEMMA EventsStay ==
    ASSUME TenancyInv, EventsTyped, TenancyNext \/ UNCHANGED tenancyVars
    PROVE  EventsTyped'
<1>1. ASSUME UNCHANGED orgEvents
      PROVE  EventsTyped'
  BY <1>1 DEF EventsTyped
<1>2. ASSUME NEW e \in OrgEvent, orgEvents' = Append(orgEvents, e)
      PROVE  EventsTyped'
  BY <1>2, AppendProperties DEF EventsTyped
<1>3. (CHOOSE u \in Member : TRUE) \in Member
  BY TenancyAssumption
<1>4. ASSUME NEW c \in TenancyCall, OrgCallStep(c)
      PROVE  EventsTyped'
  <2>1. /\ orgCall[c].role \in OrgRole /\ orgCall[c].permissions \in SUBSET Permission /\ orgCall[c].user \in Member
        /\ orgCall[c] \in OrgCall
    BY DEF TenancyInv, RowsTyped, OrgCall
  <2>2. CASE JoinOrg(c) \/ JoinGroup(c) \/ LeaveGroup(c) \/ LeaveOrg(c) \/ CreateTeamGroup(c) \/ DeleteTeamGroup(c)
    BY <1>1, <2>2 DEF JoinOrg, JoinGroup, LeaveGroup, LeaveOrg, CreateTeamGroup, DeleteTeamGroup, rowsSame
  <2>3. CASE MembersTx(c)
    <3>1. UNCHANGED orgEvents \/ \E rows : writeMemberships(c, rows)
      BY <2>3 DEF MembersTx
    <3>2. ASSUME NEW rows, writeMemberships(c, rows)
          PROVE  EventsTyped'
      <4>1. membership' = rows /\ membership' \in SUBSET Membership /\ membership \in SUBSET Membership
        BY <2>3, <3>2, MembersTxKeeps DEF TenancyInv, RowsTyped, writeMemberships
      <4>2. /\ SetToSeq(RowEvents("membership.removed", membership \ rows)) \in Seq(OrgEvent)
            /\ SetToSeq(RowEvents("membership.added", rows \ membership)) \in Seq(OrgEvent)
        BY <4>1, RowEventsListed
      <4>3. orgEvents' = orgEvents \o SetToSeq(RowEvents("membership.removed", membership \ rows))
                                   \o SetToSeq(RowEvents("membership.added", rows \ membership))
        BY <3>2 DEF writeMemberships, RowEvents
      <4>4. orgEvents \o SetToSeq(RowEvents("membership.removed", membership \ rows)) \in Seq(OrgEvent)
        BY <4>2, ConcatProperties DEF EventsTyped
      <4> QED
        BY <4>2, <4>3, <4>4, ConcatProperties DEF EventsTyped
    <3> QED
      BY <1>1, <3>1, <3>2
  <2>4. CASE CreateTeamTx(c)
    <3>1. UNCHANGED orgEvents \/ \E t \in TeamId : insertTeam(t, orgCall[c].name, orgCall[c].role, orgCall[c].permissions)
      BY <2>4 DEF CreateTeamTx
    <3>2. \A t \in TeamId :
             [type |-> "team.created", teams |-> {t}, user |-> CHOOSE u \in Member : TRUE, old |-> {},
              new |-> orgCall[c].permissions, retracted |-> FALSE] \in OrgEvent
      BY <1>3, <2>1 DEF OrgEvent
    <3> QED
      BY <1>1, <1>2, <3>1, <3>2 DEF insertTeam, AppendOutbox
  <2>5. CASE DeleteTeamTx(c)
    <3>1. UNCHANGED orgEvents \/ \E t \in TeamId :
             AppendOutbox("team.deleted", {t}, orgCall[c].user, orgCall[c].permissions, {})
      BY <2>5 DEF DeleteTeamTx, GetTeamByName
    <3>2. \A t \in TeamId :
             [type |-> "team.deleted", teams |-> {t}, user |-> orgCall[c].user, old |-> orgCall[c].permissions,
              new |-> {}, retracted |-> FALSE] \in OrgEvent
      BY <2>1 DEF OrgEvent
    <3> QED
      BY <1>1, <1>2, <3>1, <3>2 DEF AppendOutbox
  <2>6. CASE UpdateRoleTx(c)
    <3>1. \/ UNCHANGED orgEvents
          \/ AppendOutbox("role.updated", ListTeamIDsForRole(orgCall[c].role), orgCall[c].user,
                          role[orgCall[c].role].permissions, orgCall[c].permissions)
      BY <2>6 DEF UpdateRoleTx
    <3>2. role[orgCall[c].role].permissions \in SUBSET Permission
      BY <2>1 DEF TenancyInv, RowsTyped, Role
    <3>3. ListTeamIDsForRole(orgCall[c].role) \in SUBSET TeamId
      BY DEF ListTeamIDsForRole
    <3>4. [type |-> "role.updated", teams |-> ListTeamIDsForRole(orgCall[c].role), user |-> orgCall[c].user,
           old |-> role[orgCall[c].role].permissions, new |-> orgCall[c].permissions, retracted |-> FALSE] \in OrgEvent
      BY <2>1, <3>2, <3>3 DEF OrgEvent
    <3> QED
      BY <1>1, <1>2, <3>1, <3>4 DEF AppendOutbox
  <2> QED
    BY <1>4, <2>2, <2>3, <2>4, <2>5, <2>6 DEF OrgCallStep
<1>5. CASE TenancyRoutes
  <2>1. UNCHANGED orgEvents
    BY <1>5 DEF TenancyRoutes, httpAddMember, httpRemoveMember, httpPutMember, httpRemoveOrgMember, httpCreateTeam,
       httpDeleteTeam, httpUpdateRole, httpCreateRole, httpDeleteRole, AddMember, RemoveMember, SetMemberRole,
       RemoveOrgMember, CreateTeam, DeleteTeam, UpdateRole, CreateRole, DeleteRole, ReadOnly, rowsSame
  <2> QED
    BY <1>1, <2>1
<1>6. ASSUME NEW i \in 1 .. Len(orgEvents), HandleOrgEvent(i)
      PROVE  EventsTyped'
  <2>1. orgEvents \in Seq(OrgEvent) /\ Len(orgEvents) \in Nat
    BY DEF EventsTyped
  <2>2. \A j \in 1 .. Len(orgEvents) : orgEvents[j] \in OrgEvent
    BY <2>1
  <2>3. SubSeq(orgEvents, 1, i - 1) \in Seq(OrgEvent)
    <3>1. \A j \in 1 .. i - 1 : orgEvents[j] \in OrgEvent
      BY <2>1, <2>2
    <3> QED
      BY <2>1, <3>1, SubSeqProperties
  <2>4. SubSeq(orgEvents, i + 1, Len(orgEvents)) \in Seq(OrgEvent)
    <3>1. \A j \in i + 1 .. Len(orgEvents) : orgEvents[j] \in OrgEvent
      BY <2>1, <2>2
    <3> QED
      BY <2>1, <3>1, SubSeqProperties
  <2>5. RemoveAt(orgEvents, i) \in Seq(OrgEvent)
    BY <2>3, <2>4, ConcatProperties DEF RemoveAt
  <2>6. [orgEvents EXCEPT ![i].retracted = TRUE] \in Seq(OrgEvent)
    BY <2>1, <2>2, MarkedTyped
  <2> QED
    BY <1>6, <2>5, <2>6 DEF HandleOrgEvent, EventsTyped
<1>9. CASE HandleOrgEventFails
  <2>1. PICK i \in 1 .. Len(orgEvents) : orgEvents' = [orgEvents EXCEPT ![i].retracted = FALSE]
    BY <1>9 DEF HandleOrgEventFails
  <2> QED
    BY <2>1, MarkedTyped DEF EventsTyped
<1>7. CASE TeamSyncStep \/ RoleSyncStep \/ SyncFails
  <2>1. UNCHANGED orgEvents
    BY <1>7 DEF TeamSyncStep, TeamSyncStarts, reconcileTeamGroup, reconcileMembers, writeMembers, SyncTeamMembers,
       RoleSyncStep, RoleSyncStarts, convergeOrg, writeRelation, SyncFails, tenancySame
  <2> QED
    BY <1>1, <2>1
<1>8. CASE (\E c \in TenancyCall : OrgCallFails(c)) \/ UNCHANGED tenancyVars
  BY <1>1, <1>8 DEF OrgCallFails, ReadOnly, rowsSame, tenancyVars
<1> QED
  BY <1>4, <1>5, <1>6, <1>7, <1>8, <1>9 DEF TenancyNext, HandleOrgEvents

-----------------------------------------------------------------------------
(* Tenancy: the theorems *)

\* Every step keeps the rows and the guardrail.
LEMMA TenancyStepKeeps ==
    ASSUME TenancyInv, KeycloakTyped, TenancyNext \/ UNCHANGED tenancyVars
    PROVE  TenancyInv'
<1>1. ASSUME TenancyRoutes
      PROVE  TenancyInv'
  BY <1>1, BeginKeeps, RoleRowsKeep DEF TenancyRoutes, httpAddMember, httpRemoveMember, httpPutMember,
     httpRemoveOrgMember, httpCreateTeam, httpDeleteTeam, httpUpdateRole, httpCreateRole, httpDeleteRole
<1>2. ASSUME NEW c \in TenancyCall, OrgCallStep(c) \/ OrgCallFails(c)
      PROVE  TenancyInv'
  BY <1>2, KeycloakStepKeeps, MembersTxKeeps, CreateTeamTxKeeps, DeleteTeamTxKeeps, UpdateRoleTxKeeps DEF OrgCallStep
<1>3. CASE TeamSyncStep
  BY <1>3, TeamSyncKeeps DEF KeycloakTyped
<1>4. CASE HandleOrgEvents \/ HandleOrgEventFails \/ RoleSyncStep \/ UNCHANGED tenancyVars
  <2>1. UNCHANGED <<role, team, membership, orgCall, teamSync>>
    BY <1>4 DEF HandleOrgEvents, HandleOrgEvent, HandleOrgEventFails, handlerSame, RoleSyncStep, RoleSyncStarts, convergeOrg,
       writeRelation, tenancySame, tenancyVars
  <2> QED
    BY <2>1, RowsStay DEF TenancyInv, RowsTyped
<1>5. CASE SyncFails
  <2>1. UNCHANGED <<role, team, membership, orgCall>>
    BY <1>5 DEF SyncFails
  <2>2. teamSync' \in TeamSync
    BY <1>5, MemberTodoTyped DEF SyncFails, TenancyInv, RowsTyped
  <2> QED
    BY <2>1, <2>2, RowsStay DEF TenancyInv, RowsTyped
<1> QED
  BY <1>1, <1>2, <1>3, <1>4, <1>5 DEF TenancyNext

\* Tenancy.TenancySpec: the rows stay typed, a team's role is not deleted, a team with
\* tenant.admin remains, and Keycloak's groups, the tuples and the events stay typed.
THEOREM TenancyInvariant == TenancySpec => [](TenancyInv /\ KeycloakTyped /\ TuplesTyped /\ EventsTyped)
<1>1. TenancyInit => TenancyInv /\ KeycloakTyped /\ TuplesTyped /\ EventsTyped
  <2> SUFFICES ASSUME TenancyInit PROVE TenancyInv /\ KeycloakTyped /\ TuplesTyped /\ EventsTyped
    OBVIOUS
  <2>1. TenancyInv
    BY TenancyBegins
  <2>2. KeycloakTyped
    BY DEF TenancyInit, KeycloakTyped, KeycloakGroup
  <2>3. TuplesTyped
    BY TenancyAssumption DEF TenancyInit, TuplesTyped, Granted, IdleRoleSync, RoleSync
  <2>4. EventsTyped
    BY EmptySeq DEF TenancyInit, EventsTyped
  <2> QED
    BY <2>1, <2>2, <2>3, <2>4
<1>2. TenancyInv /\ KeycloakTyped /\ TuplesTyped /\ EventsTyped /\ [TenancyNext]_tenancyVars
         => (TenancyInv /\ KeycloakTyped /\ TuplesTyped /\ EventsTyped)'
  BY TenancyStepKeeps, KeycloakStays, TuplesStay, EventsStay
<1> QED
  BY <1>1, <1>2, PTL DEF TenancySpec

\* TenancyTypeOK, for every set of members, teams and roles.
THEOREM TenancyTypeCorrect == TenancySpec => []TenancyTypeOK
<1>1. TenancyInv /\ KeycloakTyped /\ TuplesTyped /\ EventsTyped => TenancyTypeOK
  <2> SUFFICES ASSUME TenancyInv, KeycloakTyped, TuplesTyped, EventsTyped PROVE TenancyTypeOK
    OBVIOUS
  <2>1. \A c \in TenancyCall : orgCall[c] \in OrgCall
    BY DEF TenancyInv, RowsTyped
  <2>2. teamSync \in TeamSync
    BY DEF TenancyInv, RowsTyped
  <2> QED
    BY <2>1, <2>2 DEF TenancyTypeOK, TenancyInv, RowsTyped, OrgCall, OrgOp, OrgPc, TeamSync, RoleSync, KeycloakTyped,
       TuplesTyped, EventsTyped
<1> QED
  BY <1>1, TenancyInvariant, PTL

\* A team with tenant.admin remains, whatever transactions, sync passes and failures
\* overlap (AdminRetained).
THEOREM TenancyRetainsAdmin == TenancySpec => []AdminRetained
<1>1. TenancyInv => AdminRetained
  BY DEF TenancyInv
<1> QED
  BY <1>1, TenancyInvariant, PTL

-----------------------------------------------------------------------------
(* AccessCache: the inductive invariant *)

PepKeys == {pepKey(g, o) : g \in Nat, o \in AccessObject}
CacheKeys == PepKeys \cup {pepGenerationKey, orgCacheKey}
CallRecord == [op : {"none", "check", "lookup", "status"},
               pc : {"idle", "get", "inner", "set", "fetch", "tx", "invalidate", "done"}, replica : Replica,
               key : CacheKeys \cup {<<>>}, object : AccessObject, up : BOOLEAN,
               value : {"none", "0", "1"} \cup OrgStatus, fresh : BOOLEAN]

\* The requests, the writer, the tuples and what is said of them.
CallsTyped ==
    /\ backend \in {"memory", "redis"} /\ access \in [AccessCall -> CallRecord]
    /\ parentTuple \in SUBSET AccessObject /\ tupleEvents \in SUBSET TupleEvent
    /\ writer \in [pc : {"idle", "bump"}, replica : Replica, event : TupleEvent]
    /\ revoked \in [Instance -> SUBSET AccessObject] /\ forgotten \in SUBSET Replica /\ orgRow \in OrgStatus

\* Each kind of entry holds its kind of value.
CachesTyped ==
    /\ cached = [k \in Instance |-> cached[k]]
    /\ \A k \in Instance :
          /\ DOMAIN cached[k] \subseteq CacheKeys
          /\ pepGenerationKey \in DOMAIN cached[k] => cached[k][pepGenerationKey] \in Nat
          /\ orgCacheKey \in DOMAIN cached[k] => cached[k][orgCacheKey] \in OrgStatus
          /\ \A x \in PepKeys : x \in DOMAIN cached[k] => cached[k][x] \in {"0", "1"}

\* A request writes the kind of value its key stands for.
CallsWellKeyed ==
    \A c \in AccessCall :
        /\ access[c].op = "lookup" => access[c].key = orgCacheKey
        /\ access[c].op = "check" /\ access[c].up => \E g \in Nat : access[c].key = pepKey(g, access[c].object)
        /\ access[c].op = "check" /\ access[c].pc \in {"get", "set"} => access[c].up
        /\ access[c].op = "check" /\ access[c].pc = "set" => access[c].value \in {"0", "1"}
        /\ access[c].op = "lookup" /\ access[c].pc = "set" => access[c].value \in OrgStatus

\* The check c stamps its answer about o with generation g of backend k; it is about to write it.
Stamped(c, k, g, o) ==
    access[c].op = "check" /\ access[c].up /\ CacheOf(access[c].replica) = k /\ access[c].key = pepKey(g, o)
Pending(c, k, g, o) == Stamped(c, k, g, o) /\ access[c].pc = "set"

\* No answer is stamped with a generation the backend has not reached.
StampsReached ==
    \A k \in Instance \ forgotten : \A g \in Nat, o \in AccessObject :
        /\ pepKey(g, o) \in DOMAIN cached[k] => g <= Generation(k)
        /\ \A c \in AccessCall : Stamped(c, k, g, o) => g <= Generation(k)

\* From generation g on, backend k holds no allow of o, and none is about to be written.
Clean(k, o, g) ==
    \A h \in Nat : h >= g =>
        /\ pepKey(h, o) \in DOMAIN cached[k] => cached[k][pepKey(h, o)] # "1"
        /\ \A c \in AccessCall : Pending(c, k, h, o) => access[c].value # "1"

\* The tuple of a deleted object is gone before the generation is bumped.
DeletedHasNoTuple == writer.pc = "bump" /\ writer.event.type = "deleted" => writer.event.object \notin parentTuple

\* What a bump has revoked has no tuple, and is clean at the present generation.
RevokedIsClean ==
    \A k \in Instance \ forgotten : \A o \in revoked[k] : o \notin parentTuple /\ Clean(k, o, Generation(k))

\* A check that began after that revocation reads from its stamp on, and has read nothing else.
FreshIsClean ==
    \A c \in AccessCall :
        LET k == CacheOf(access[c].replica)
        IN access[c].op = "check" /\ access[c].fresh =>
              /\ access[c].object \in revoked[k]
              /\ k \notin forgotten =>
                    /\ access[c].pc = "get" => \A g \in Nat : Stamped(c, k, g, access[c].object) => Clean(k, access[c].object, g)
                    /\ access[c].pc \in {"set", "done"} => access[c].value = "0"

CacheShape == CallsTyped /\ CachesTyped /\ CallsWellKeyed /\ DeletedHasNoTuple
CacheInv == CacheShape /\ StampsReached /\ RevokedIsClean /\ FreshIsClean

-----------------------------------------------------------------------------
(* AccessCache: what a step does to a request *)

\* The keys of answers are told apart by generation and object, and from the other keys.
LEMMA KeysDiffer ==
    /\ \A g, h, o, p : pepKey(g, o) = pepKey(h, p) => g = h /\ o = p
    /\ \A g, o : pepKey(g, o) # pepGenerationKey /\ pepKey(g, o) # orgCacheKey
    /\ orgCacheKey # pepGenerationKey
BY DEF pepKey, pepGenerationKey, orgCacheKey

\* The backend of a replica.
LEMMA CacheOfReplica ==
    ASSUME NEW r \in Replica
    PROVE  CacheOf(r) \in Instance /\ (r \notin forgotten /\ forgotten \in SUBSET Replica => CacheOf(r) \notin forgotten)
BY AccessAssumption DEF CacheOf, Instance

\* The generation of a backend is a number.
LEMMA GenerationIsNat == CachesTyped => \A k \in Instance : Generation(k) \in Nat
BY DEF CachesTyped, Generation

\* Nothing asked, nothing handled.
LEMMA IdleTyped == IdleAccess \in CallRecord /\ IdleWriter \in [pc : {"idle", "bump"}, replica : Replica, event : TupleEvent]
<1>1. (CHOOSE r \in Replica : TRUE) \in Replica /\ (CHOOSE o \in AccessObject : TRUE) \in AccessObject
  BY AccessAssumption
<1> QED
  BY <1>1 DEF IdleAccess, IdleWriter, CallRecord, TupleEvent

\* What becomes of a request: a check begins, a check goes on, or it is no check.
StartsCheck(c) ==
    \E r \in Replica, o \in AccessObject, fresh \in BOOLEAN :
        LET call == [IdleAccess EXCEPT !.op = "check", !.replica = r, !.object = o, !.fresh = fresh]
        IN /\ fresh => o \in revoked[CacheOf(r)]
           /\ \/ access'[c] = [call EXCEPT !.pc = "get", !.up = TRUE, !.key = pepKey(Generation(CacheOf(r)), o)]
              \/ access'[c] = [call EXCEPT !.pc = "inner"]
Allowed(o) == IF o \in parentTuple THEN "1" ELSE "0"
GoesOn(c) ==
    /\ access[c].op = "check"
    /\ \/ /\ access[c].pc = "get" /\ access[c].key \in DOMAIN cached[CacheOf(access[c].replica)]
          /\ access'[c] = [access[c] EXCEPT !.pc = "done", !.value = cached[CacheOf(access[c].replica)][access[c].key]]
       \/ access[c].pc = "get" /\ access'[c] = [access[c] EXCEPT !.pc = "inner"]
       \/ /\ access[c].pc = "inner" /\ access[c].up
          /\ access'[c] = [access[c] EXCEPT !.pc = "set", !.value = Allowed(access[c].object)]
       \/ /\ access[c].pc = "inner" /\ ~access[c].up
          /\ access'[c] = [access[c] EXCEPT !.pc = "done", !.value = Allowed(access[c].object)]
       \/ access[c].pc = "set" /\ access'[c] = [access[c] EXCEPT !.pc = "done", !.value = access[c].value]
OtherRequest(c) ==
    /\ access'[c] \in CallRecord /\ access'[c].op # "check"
    /\ access'[c].op = "lookup" => /\ access'[c].key = orgCacheKey
                                   /\ access'[c].pc = "set" => access'[c].value \in OrgStatus
CallMove(c) == access'[c] = access[c] \/ StartsCheck(c) \/ GoesOn(c) \/ OtherRequest(c)

\* One request moves.
LEMMA RequestMoves ==
    ASSUME CacheShape, NEW c \in AccessCall, CheckKey(c) \/ GetTenant(c) \/ SetOrgStatus(c) \/ AccessStep(c)
    PROVE  /\ DOMAIN access' = AccessCall /\ \A x \in AccessCall : CallMove(x)
           /\ UNCHANGED <<backend, parentTuple, tupleEvents, writer, revoked>>
<1>1. UNCHANGED <<backend, parentTuple, tupleEvents, writer, revoked>>
  BY DEF CheckKey, GetTenant, SetOrgStatus, AccessStep, AccessCheck, Lookup, Invalidate, AnswerAccess, accessSame
<1>2. access \in [AccessCall -> CallRecord] /\ access[c] \in CallRecord /\ orgRow \in OrgStatus
  BY DEF CacheShape, CallsTyped
<1>3. access' = [access EXCEPT ![c] = access'[c]]
  BY <1>2 DEF CheckKey, GetTenant, SetOrgStatus, AccessStep, AccessCheck, Lookup, Invalidate, AnswerAccess, BeginAccess,
     Finish
<1>4. CallMove(c)
  <2>1. CASE CheckKey(c)
    <3>1. PICK r \in Replica, o \in AccessObject :
            LET call == [IdleAccess EXCEPT !.op = "check", !.replica = r, !.object = o, !.fresh = o \in revoked[CacheOf(r)]]
            IN \/ access' = [access EXCEPT ![c] = [call EXCEPT !.pc = "get", !.up = TRUE,
                                                              !.key = pepKey(Generation(CacheOf(r)), o)]]
               \/ access' = [access EXCEPT ![c] = [call EXCEPT !.pc = "inner"]]
      BY <2>1 DEF CheckKey, BeginAccess
    <3>2. StartsCheck(c)
      <4> SUFFICES \E fresh \in BOOLEAN :
                      LET call == [IdleAccess EXCEPT !.op = "check", !.replica = r, !.object = o, !.fresh = fresh]
                      IN /\ fresh => o \in revoked[CacheOf(r)]
                         /\ \/ access'[c] = [call EXCEPT !.pc = "get", !.up = TRUE, !.key = pepKey(Generation(CacheOf(r)), o)]
                            \/ access'[c] = [call EXCEPT !.pc = "inner"]
        BY DEF StartsCheck
      <4> WITNESS (o \in revoked[CacheOf(r)]) \in BOOLEAN
      <4> QED
        BY <1>2, <3>1
    <3> QED
      BY <3>2 DEF CallMove
  <2>2. CASE GetTenant(c)
    <3>1. PICK r \in Replica :
            access'[c] = [IdleAccess EXCEPT !.op = "lookup", !.pc = "get", !.replica = r, !.key = orgCacheKey]
      BY <1>2, <2>2 DEF GetTenant, BeginAccess
    <3>2. access'[c] \in CallRecord
      BY <3>1, IdleTyped DEF CallRecord, CacheKeys
    <3>3. access'[c].op = "lookup" /\ access'[c].key = orgCacheKey /\ access'[c].pc = "get"
      BY <3>1, IdleTyped DEF CallRecord
    <3> QED
      BY <3>2, <3>3 DEF CallMove, OtherRequest
  <2>3. CASE SetOrgStatus(c)
    <3>1. PICK r \in Replica : access'[c] = [IdleAccess EXCEPT !.op = "status", !.pc = "tx", !.replica = r]
      BY <1>2, <2>3 DEF SetOrgStatus, BeginAccess
    <3>2. access'[c] \in CallRecord /\ access'[c].op = "status"
      BY <3>1, IdleTyped DEF CallRecord
    <3> QED
      BY <3>2 DEF CallMove, OtherRequest
  <2>4. CASE AccessCheck(c)
    BY <1>2, <2>4 DEF AccessCheck, CallMove, GoesOn, Allowed, Finish, Hit
  <2>5. CASE Lookup(c)
    <3>1. access[c].key = orgCacheKey /\ access[c].op = "lookup"
      BY <2>5 DEF Lookup, CacheShape, CallsWellKeyed
    <3>2. CacheOf(access[c].replica) \in Instance
      BY <1>2, CacheOfReplica DEF CallRecord
    <3>3. \/ \E v \in OrgStatus : access'[c] = [access[c] EXCEPT !.pc = "done", !.value = v]
          \/ access'[c] = [access[c] EXCEPT !.pc = "fetch"]
          \/ access'[c] = [access[c] EXCEPT !.pc = "set", !.value = orgRow]
      <4>1. Hit(CacheOf(access[c].replica), orgCacheKey) => cached[CacheOf(access[c].replica)][orgCacheKey] \in OrgStatus
        BY <3>2 DEF CacheShape, CachesTyped, Hit
      <4>2. access[c].pc = "set" => access[c].value \in OrgStatus
        BY <3>1 DEF CacheShape, CallsWellKeyed
      <4> QED
        BY <1>2, <2>5, <3>1, <4>1, <4>2 DEF Lookup, Finish
    <3>4. access'[c] \in CallRecord /\ access'[c].key = orgCacheKey /\ access'[c].op = "lookup"
      BY <1>2, <3>1, <3>3 DEF CallRecord
    <3>5. access'[c].pc = "set" => access'[c].value \in OrgStatus
      BY <1>2, <3>3 DEF CallRecord
    <3> QED
      BY <3>4, <3>5 DEF CallMove, OtherRequest
  <2>6. CASE Invalidate(c)
    <3>1. \/ access'[c] = [access[c] EXCEPT !.pc = "invalidate"]
          \/ access'[c] = [access[c] EXCEPT !.pc = "done", !.value = "none"]
      BY <1>2, <2>6 DEF Invalidate, Finish
    <3>2. access'[c] \in CallRecord /\ access'[c].op = access[c].op
      BY <1>2, <3>1 DEF CallRecord
    <3> QED
      BY <2>6, <3>2 DEF Invalidate, CallMove, OtherRequest
  <2>7. CASE AnswerAccess(c)
    <3>1. access'[c] = IdleAccess
      BY <1>2, <2>7 DEF AnswerAccess
    <3>2. IdleAccess.op = "none"
      BY DEF IdleAccess
    <3> QED
      BY <3>1, <3>2, IdleTyped DEF CallMove, OtherRequest
  <2> QED
    BY <2>1, <2>2, <2>3, <2>4, <2>5, <2>6, <2>7 DEF AccessStep
<1> QED
  BY <1>1, <1>2, <1>3, <1>4 DEF CallMove

\* A request that moves stays a request, with the key of what it will write.
MoveShape(a) ==
    /\ a \in CallRecord
    /\ a.op = "lookup" => a.key = orgCacheKey
    /\ a.op = "check" /\ a.up => \E g \in Nat : a.key = pepKey(g, a.object)
    /\ a.op = "check" /\ a.pc \in {"get", "set"} => a.up
    /\ a.op = "check" /\ a.pc = "set" => a.value \in {"0", "1"}
    /\ a.op = "lookup" /\ a.pc = "set" => a.value \in OrgStatus

\* Every move of a request keeps that shape.
LEMMA MovesKeepShape ==
    ASSUME CacheShape, NEW c \in AccessCall, CallMove(c)
    PROVE  MoveShape(access'[c])
<1>1. MoveShape(access[c])
  BY DEF CacheShape, CallsTyped, CallsWellKeyed, MoveShape
<1>2. CASE access'[c] = access[c]
  BY <1>1, <1>2
<1>3. CASE StartsCheck(c)
  <2>1. PICK r \in Replica, o \in AccessObject, fresh \in BOOLEAN :
          LET call == [IdleAccess EXCEPT !.op = "check", !.replica = r, !.object = o, !.fresh = fresh]
          IN /\ fresh => o \in revoked[CacheOf(r)]
             /\ \/ access'[c] = [call EXCEPT !.pc = "get", !.up = TRUE, !.key = pepKey(Generation(CacheOf(r)), o)]
                \/ access'[c] = [call EXCEPT !.pc = "inner"]
    BY <1>3 DEF StartsCheck
  <2> DEFINE call == [IdleAccess EXCEPT !.op = "check", !.replica = r, !.object = o, !.fresh = fresh]
  <2>2. call \in CallRecord /\ call.op = "check" /\ call.up = FALSE /\ call.object = o
    BY IdleTyped DEF CallRecord, IdleAccess
  <2>3. Generation(CacheOf(r)) \in Nat
    BY CacheOfReplica, GenerationIsNat DEF CacheShape
  <2>4. pepKey(Generation(CacheOf(r)), o) \in CacheKeys
    BY <2>3 DEF CacheKeys, PepKeys
  <2> HIDE DEF call
  <2>5. CASE access'[c] = [call EXCEPT !.pc = "get", !.up = TRUE, !.key = pepKey(Generation(CacheOf(r)), o)]
    <3>1. access'[c] \in CallRecord
      BY <2>2, <2>4, <2>5 DEF CallRecord
    <3>2. /\ access'[c].op = "check" /\ access'[c].up = TRUE /\ access'[c].object = o /\ access'[c].pc = "get"
          /\ access'[c].key = pepKey(Generation(CacheOf(r)), o)
      BY <2>2, <2>5 DEF CallRecord
    <3> QED
      BY <2>3, <3>1, <3>2 DEF MoveShape
  <2>6. CASE access'[c] = [call EXCEPT !.pc = "inner"]
    BY <2>2, <2>6 DEF CallRecord, MoveShape
  <2> QED
    BY <2>1, <2>5, <2>6 DEF call
<1>4. CASE GoesOn(c)
  <2>1. access[c] \in CallRecord /\ access[c].op = "check" /\ Allowed(access[c].object) \in {"0", "1"}
    BY <1>1, <1>4 DEF MoveShape, GoesOn, Allowed
  <2>2. access[c].pc = "get" /\ access[c].key \in DOMAIN cached[CacheOf(access[c].replica)]
           => cached[CacheOf(access[c].replica)][access[c].key] \in {"0", "1"}
    <3>1. SUFFICES ASSUME access[c].pc = "get", access[c].key \in DOMAIN cached[CacheOf(access[c].replica)]
                   PROVE  cached[CacheOf(access[c].replica)][access[c].key] \in {"0", "1"}
      OBVIOUS
    <3>2. CacheOf(access[c].replica) \in Instance
      BY <2>1, CacheOfReplica DEF CallRecord
    <3>3. access[c].key \in PepKeys
      BY <1>1, <2>1, <3>1 DEF MoveShape, PepKeys, CallRecord
    <3> QED
      BY <3>1, <3>2, <3>3 DEF CacheShape, CachesTyped
  <2>3. \/ \E v \in {"0", "1"} : access'[c] = [access[c] EXCEPT !.pc = "done", !.value = v]
        \/ access'[c] = [access[c] EXCEPT !.pc = "inner"]
        \/ access[c].up /\ \E v \in {"0", "1"} : access'[c] = [access[c] EXCEPT !.pc = "set", !.value = v]
    <3>1. access[c].pc = "set" => access[c].value \in {"0", "1"}
      BY <1>1, <2>1 DEF MoveShape
    <3> QED
      BY <1>4, <2>1, <2>2, <3>1 DEF GoesOn
  <2>4. \/ \E v \in {"0", "1"} : access'[c] = [access[c] EXCEPT !.pc = "done", !.value = v]
        \/ access'[c] = [access[c] EXCEPT !.pc = "inner"]
        \/ access[c].up /\ \E v \in {"0", "1"} : access'[c] = [access[c] EXCEPT !.pc = "set", !.value = v]
        => MoveShape(access'[c])
    <3>1. ASSUME NEW v \in {"0", "1"}, NEW pc \in {"done", "inner", "set"}, pc = "set" => access[c].up,
                 \/ access'[c] = [access[c] EXCEPT !.pc = pc, !.value = v]
                 \/ access'[c] = [access[c] EXCEPT !.pc = pc] /\ pc # "set"
          PROVE  MoveShape(access'[c])
      <4>1. access'[c] \in CallRecord /\ access'[c].pc = pc
        BY <2>1, <3>1 DEF CallRecord
      <4>2. /\ access'[c].op = "check" /\ access'[c].up = access[c].up /\ access'[c].key = access[c].key
            /\ access'[c].object = access[c].object
        BY <2>1, <3>1 DEF CallRecord
      <4>3. pc = "set" => access'[c].value \in {"0", "1"}
        BY <2>1, <3>1 DEF CallRecord
      <4>4. access'[c].up => \E g \in Nat : access'[c].key = pepKey(g, access'[c].object)
        BY <1>1, <2>1, <4>2 DEF MoveShape
      <4> QED
        BY <2>1, <3>1, <4>1, <4>2, <4>3, <4>4 DEF MoveShape
    <3> QED
      BY <3>1
  <2> QED
    BY <2>3, <2>4
<1>5. CASE OtherRequest(c)
  BY <1>5 DEF OtherRequest, MoveShape
<1> QED
  BY <1>2, <1>3, <1>4, <1>5 DEF CallMove

\* The handlers of events and the rows leave requests as they are, but for what they
\* are promised.
Unpromised(o) == access' = [c \in AccessCall |-> [access[c] EXCEPT !.fresh = @ /\ access[c].object # o]]

\* The requests and the writer stay well typed.
LEMMA CallsStayTyped ==
    ASSUME CacheShape, AccessNext \/ UNCHANGED accessVars, forgotten' \in SUBSET Replica
    PROVE  CallsTyped' /\ CallsWellKeyed' /\ DeletedHasNoTuple'
<1>1. /\ CallsTyped /\ CallsWellKeyed /\ DeletedHasNoTuple
      /\ \A ev \in TupleEvent : ev.object \in AccessObject
  BY DEF CacheShape, TupleEvent
<1>2. CASE \E c \in AccessCall : CheckKey(c) \/ GetTenant(c) \/ SetOrgStatus(c) \/ AccessStep(c)
  <2>1. PICK c \in AccessCall : CheckKey(c) \/ GetTenant(c) \/ SetOrgStatus(c) \/ AccessStep(c)
    BY <1>2
  <2>2. /\ DOMAIN access' = AccessCall /\ \A x \in AccessCall : CallMove(x)
        /\ UNCHANGED <<backend, parentTuple, tupleEvents, writer, revoked>>
    BY <2>1, RequestMoves
  <2>3. \A x \in AccessCall : MoveShape(access'[x])
    BY <2>2, MovesKeepShape
  <2>4. access' = [x \in AccessCall |-> access'[x]]
    BY <2>1, <1>1 DEF CheckKey, GetTenant, SetOrgStatus, AccessStep, AccessCheck, Lookup, Invalidate, AnswerAccess,
       BeginAccess, Finish, CallsTyped
  <2>5. access' \in [AccessCall -> CallRecord]
    BY <2>3, <2>4 DEF MoveShape
  <2>6. orgRow' \in OrgStatus
    <3>1. (CHOOSE s \in OrgStatus : s # orgRow) \in OrgStatus
      BY DEF OrgStatus
    <3> QED
      BY <1>1, <2>1, <3>1 DEF CheckKey, GetTenant, SetOrgStatus, AccessStep, AccessCheck, Lookup, Invalidate, AnswerAccess,
         CallsTyped
  <2> QED
    BY <1>1, <2>2, <2>3, <2>5, <2>6 DEF CallsTyped, CallsWellKeyed, DeletedHasNoTuple, MoveShape, Instance
<1>3. CASE ObjectChanges
  <2>1. tupleEvents' \in SUBSET TupleEvent
    BY <1>1, <1>3 DEF ObjectChanges, CallsTyped, TupleEvent
  <2> QED
    BY <1>1, <1>3, <2>1 DEF ObjectChanges, CallsTyped, CallsWellKeyed, DeletedHasNoTuple
<1>4. CASE HandleParent
  <2>1. PICK ev \in tupleEvents, r \in Replica :
          /\ writer' = [pc |-> "bump", replica |-> r, event |-> ev]
          /\ parentTuple' = IF ev.type = "created" THEN parentTuple \cup {ev.object} ELSE parentTuple \ {ev.object}
          /\ revoked' = [k \in Instance |-> revoked[k] \ {ev.object}]
          /\ Unpromised(ev.object)
    BY <1>4 DEF HandleParent, Unpromised
  <2>2. ev \in TupleEvent
    BY <1>1 DEF CallsTyped
  <2>3. ASSUME NEW c \in AccessCall
        PROVE  /\ access'[c] \in CallRecord
               /\ access'[c].op = access[c].op /\ access'[c].pc = access[c].pc /\ access'[c].key = access[c].key
               /\ access'[c].up = access[c].up /\ access'[c].object = access[c].object /\ access'[c].value = access[c].value
    <3>1. access[c] \in CallRecord /\ access'[c] = [access[c] EXCEPT !.fresh = access[c].fresh /\ access[c].object # ev.object]
      BY <1>1, <2>1 DEF CallsTyped, Unpromised
    <3>2. (access[c].fresh /\ access[c].object # ev.object) \in BOOLEAN
      OBVIOUS
    <3> QED
      BY <3>1, <3>2 DEF CallRecord
  <2>4. access' \in [AccessCall -> CallRecord]
    BY <2>1, <2>3 DEF Unpromised
  <2>5. parentTuple' \in SUBSET AccessObject /\ revoked' \in [Instance -> SUBSET AccessObject]
    BY <1>1, <2>1, <2>2 DEF CallsTyped
  <2>6. writer' \in [pc : {"idle", "bump"}, replica : Replica, event : TupleEvent]
    BY <2>1, <2>2
  <2>7. UNCHANGED <<backend, tupleEvents, orgRow>>
    BY <1>4 DEF HandleParent
  <2>8. CallsTyped'
    BY <1>1, <2>4, <2>5, <2>6, <2>7 DEF CallsTyped
  <2>9. CallsWellKeyed'
    BY <1>1, <2>3 DEF CallsWellKeyed
  <2>10. DeletedHasNoTuple'
    BY <2>1, <2>2 DEF DeletedHasNoTuple, TupleEvent
  <2> QED
    BY <2>8, <2>9, <2>10
<1>5. CASE bump
  <2>1. writer.event.object \in AccessObject /\ CacheOf(writer.replica) \in Instance
    BY <1>1, CacheOfReplica DEF CallsTyped
  <2>2. UNCHANGED <<backend, access, parentTuple, orgRow>> /\ writer' = IdleWriter /\ tupleEvents' \in SUBSET TupleEvent
    BY <1>1, <1>5 DEF bump, CallsTyped
  <2>3. revoked' \in [Instance -> SUBSET AccessObject]
    BY <1>1, <1>5, <2>1 DEF bump, CallsTyped
  <2>4. writer' \in [pc : {"idle", "bump"}, replica : Replica, event : TupleEvent] /\ writer'.pc = "idle"
    BY <2>2, IdleTyped DEF IdleWriter
  <2> QED
    BY <1>1, <2>2, <2>3, <2>4 DEF CallsTyped, CallsWellKeyed, DeletedHasNoTuple
<1>6. CASE WriterFails
  <2>1. UNCHANGED <<backend, access, parentTuple, revoked, orgRow>> /\ writer' = IdleWriter /\ tupleEvents' \in SUBSET TupleEvent
    BY <1>1, <1>6 DEF WriterFails, CallsTyped
  <2>2. writer' \in [pc : {"idle", "bump"}, replica : Replica, event : TupleEvent] /\ writer'.pc = "idle"
    BY <2>1, IdleTyped DEF IdleWriter
  <2> QED
    BY <1>1, <2>1, <2>2 DEF CallsTyped, CallsWellKeyed, DeletedHasNoTuple
<1>7. CASE Expire \/ UNCHANGED accessVars
  <2>1. UNCHANGED <<backend, access, parentTuple, revoked, writer, tupleEvents, orgRow>>
    BY <1>7 DEF Expire, accessVars
  <2> QED
    BY <1>1, <2>1 DEF CallsTyped, CallsWellKeyed, DeletedHasNoTuple
<1> QED
  BY <1>2, <1>3, <1>4, <1>5, <1>6, <1>7 DEF AccessNext

-----------------------------------------------------------------------------
(* AccessCache: what a step does to a backend *)

\* Backend k0 gets no entry but key, which holds value; its generation stays unless it is forgotten.
Writes(k0, key, value) ==
    /\ DOMAIN cached' = Instance /\ forgotten \subseteq forgotten' /\ forgotten' \subseteq Replica
    /\ \A k \in Instance : k # k0 => cached'[k] = cached[k]
    /\ DOMAIN cached'[k0] \subseteq DOMAIN cached[k0] \cup {key}
    /\ \A x \in DOMAIN cached'[k0] : cached'[k0][x] = IF x = key THEN value ELSE cached[k0][x]
    /\ k0 \in forgotten' \/ (pepGenerationKey \in DOMAIN cached'[k0] <=> pepGenerationKey \in DOMAIN cached[k0])
\* Backend k0 loses entries, its generation not among them.
Loses(k0) ==
    /\ DOMAIN cached' = Instance /\ UNCHANGED forgotten
    /\ \A k \in Instance : k # k0 => cached'[k] = cached[k]
    /\ DOMAIN cached'[k0] \subseteq DOMAIN cached[k0]
    /\ \A x \in DOMAIN cached'[k0] : cached'[k0][x] = cached[k0][x]
    /\ pepGenerationKey \in DOMAIN cached'[k0] <=> pepGenerationKey \in DOMAIN cached[k0]

\* Set of a key, in Redis and in a memory that evicts.
LEMMA SetWrites ==
    ASSUME cached = [k \in Instance |-> cached[k]], forgotten \in SUBSET Replica,
           NEW k0 \in Instance, NEW key, NEW value, key # pepGenerationKey, CacheSet(k0, key, value)
    PROVE  Writes(k0, key, value)
<1>1. CASE cached' = [cached EXCEPT ![k0] = Put(k0, key, value)] /\ UNCHANGED forgotten
  <2>1. cached'[k0] = Put(k0, key, value) /\ DOMAIN cached' = Instance /\ \A k \in Instance : k # k0 => cached'[k] = cached[k]
    BY <1>1
  <2> QED
    BY <1>1, <2>1 DEF Writes, Put
<1>2. ASSUME k0 # Redis, NEW victim \in SUBSET DOMAIN cached[k0],
             cached' = [cached EXCEPT ![k0] = Restrict(Put(k0, key, value), (DOMAIN cached[k0] \ victim) \cup {key})],
             forgotten' = IF pepGenerationKey \in victim THEN forgotten \cup {k0} ELSE forgotten
      PROVE  Writes(k0, key, value)
  <2>1. /\ cached'[k0] = Restrict(Put(k0, key, value), (DOMAIN cached[k0] \ victim) \cup {key})
        /\ DOMAIN cached' = Instance /\ \A k \in Instance : k # k0 => cached'[k] = cached[k]
    BY <1>2
  <2>2. /\ DOMAIN cached'[k0] = (DOMAIN cached[k0] \ victim) \cup {key}
        /\ \A x \in DOMAIN cached'[k0] : cached'[k0][x] = Put(k0, key, value)[x]
    BY <2>1 DEF Restrict
  <2>3. \A x \in DOMAIN cached'[k0] : cached'[k0][x] = IF x = key THEN value ELSE cached[k0][x]
    BY <2>2 DEF Put
  <2>4. k0 \in Replica
    BY <1>2 DEF Instance
  <2> QED
    BY <1>2, <2>1, <2>2, <2>3, <2>4 DEF Writes
<1> QED
  BY <1>1, <1>2 DEF CacheSet, RedisSet, MemorySet

\* Delete of a key, asked for or when it is too old.
LEMMA DeleteLoses ==
    ASSUME cached = [k \in Instance |-> cached[k]],
           NEW k0 \in Instance, NEW key, key # pepGenerationKey, CacheDelete(k0, key)
    PROVE  Loses(k0)
<1>1. /\ cached'[k0] = Restrict(cached[k0], DOMAIN cached[k0] \ {key})
      /\ DOMAIN cached' = Instance /\ \A k \in Instance : k # k0 => cached'[k] = cached[k]
  BY DEF CacheDelete
<1>2. /\ DOMAIN cached'[k0] = DOMAIN cached[k0] \ {key}
      /\ \A x \in DOMAIN cached'[k0] : cached'[k0][x] = cached[k0][x]
  BY <1>1 DEF Restrict
<1> QED
  BY <1>1, <1>2 DEF Loses, CacheDelete

\* Increment of the generation.
Bumps(k0) ==
    /\ DOMAIN cached' = Instance /\ UNCHANGED forgotten
    /\ \A k \in Instance : k # k0 => cached'[k] = cached[k]
    /\ DOMAIN cached'[k0] = DOMAIN cached[k0] \cup {pepGenerationKey}
    /\ \A x \in DOMAIN cached[k0] : x # pepGenerationKey => cached'[k0][x] = cached[k0][x]
    /\ cached'[k0][pepGenerationKey] = Generation(k0) + 1

\* Each step leaves the backends alone, or writes, loses or bumps one of them.
LEMMA BackendMoves ==
    ASSUME CacheShape, AccessNext \/ UNCHANGED accessVars
    PROVE  \/ UNCHANGED <<cached, forgotten>>
           \/ \E k \in Instance : Loses(k)
           \/ bump /\ Bumps(CacheOf(writer.replica))
           \/ \E c \in AccessCall :
                 /\ access[c].op \in {"check", "lookup"} /\ access[c].pc = "set"
                 /\ Writes(CacheOf(access[c].replica), access[c].key, access[c].value)
                 /\ CacheSet(CacheOf(access[c].replica), access[c].key, access[c].value)
<1>1. cached = [k \in Instance |-> cached[k]] /\ DOMAIN cached = Instance /\ forgotten \in SUBSET Replica
  BY DEF CacheShape, CachesTyped, CallsTyped
<1>2. \A c \in AccessCall : access[c] \in CallRecord /\ CacheOf(access[c].replica) \in Instance
  BY CacheOfReplica DEF CacheShape, CallsTyped, CallRecord
<1>3. CASE Expire
  <2>1. PICK k \in Instance : \E key \in DOMAIN cached[k] : expired(key) /\ CacheDelete(k, key)
    BY <1>3 DEF Expire
  <2> QED
    BY <1>1, <2>1, DeleteLoses DEF expired
<1>4. CASE bump
  <2>1. CacheOf(writer.replica) \in Instance
    BY CacheOfReplica DEF CacheShape, CallsTyped
  <2>2. /\ cached'[CacheOf(writer.replica)] = Put(CacheOf(writer.replica), pepGenerationKey, Generation(CacheOf(writer.replica)) + 1)
        /\ DOMAIN cached' = Instance /\ \A k \in Instance : k # CacheOf(writer.replica) => cached'[k] = cached[k]
    BY <1>1, <1>4, <2>1 DEF bump, Increment
  <2> QED
    BY <1>4, <2>1, <2>2 DEF bump, Bumps, Put
<1>5. ASSUME NEW c \in AccessCall, AccessCheck(c)
      PROVE  \/ UNCHANGED <<cached, forgotten>>
             \/ /\ access[c].pc = "set" /\ Writes(CacheOf(access[c].replica), access[c].key, access[c].value)
                /\ CacheSet(CacheOf(access[c].replica), access[c].key, access[c].value)
  <2>1. access[c].pc = "set" => access[c].key # pepGenerationKey
    BY <1>5, KeysDiffer DEF AccessCheck, CacheShape, CallsWellKeyed
  <2>2. \/ UNCHANGED <<cached, forgotten>>
        \/ access[c].pc = "set" /\ CacheSet(CacheOf(access[c].replica), access[c].key, access[c].value)
    BY <1>5 DEF AccessCheck
  <2> QED
    BY <1>1, <1>2, <2>1, <2>2, SetWrites
<1>6. ASSUME NEW c \in AccessCall, Lookup(c)
      PROVE  \/ UNCHANGED <<cached, forgotten>>
             \/ /\ access[c].pc = "set" /\ Writes(CacheOf(access[c].replica), access[c].key, access[c].value)
                /\ CacheSet(CacheOf(access[c].replica), access[c].key, access[c].value)
  <2>1. access[c].key # pepGenerationKey
    BY <1>6, KeysDiffer DEF Lookup, CacheShape, CallsWellKeyed
  <2>2. \/ UNCHANGED <<cached, forgotten>>
        \/ access[c].pc = "set" /\ CacheSet(CacheOf(access[c].replica), access[c].key, access[c].value)
    BY <1>6 DEF Lookup
  <2> QED
    BY <1>1, <1>2, <2>1, <2>2, SetWrites
<1>7. ASSUME NEW c \in AccessCall, Invalidate(c)
      PROVE  UNCHANGED <<cached, forgotten>> \/ \E k \in Instance : Loses(k)
  <2>1. UNCHANGED <<cached, forgotten>> \/ CacheDelete(CacheOf(access[c].replica), orgCacheKey)
    BY <1>7 DEF Invalidate
  <2> QED
    BY <1>1, <1>2, <2>1, KeysDiffer, DeleteLoses
<1>8. ASSUME NEW c \in AccessCall, CheckKey(c) \/ GetTenant(c) \/ SetOrgStatus(c) \/ AnswerAccess(c)
      PROVE  UNCHANGED <<cached, forgotten>>
  BY <1>8 DEF CheckKey, GetTenant, SetOrgStatus, AnswerAccess
<1>9. CASE ObjectChanges \/ HandleParent \/ WriterFails \/ UNCHANGED accessVars
  BY <1>9 DEF ObjectChanges, HandleParent, WriterFails, accessVars
<1>10. ASSUME NEW c \in AccessCall, AccessStep(c)
       PROVE  \/ UNCHANGED <<cached, forgotten>>
              \/ \E k \in Instance : Loses(k)
              \/ /\ access[c].op \in {"check", "lookup"} /\ access[c].pc = "set"
                 /\ Writes(CacheOf(access[c].replica), access[c].key, access[c].value)
                 /\ CacheSet(CacheOf(access[c].replica), access[c].key, access[c].value)
  <2>1. AccessCheck(c) => access[c].op = "check"
    BY DEF AccessCheck
  <2>2. Lookup(c) => access[c].op = "lookup"
    BY DEF Lookup
  <2> QED
    BY <1>5, <1>6, <1>7, <1>8, <1>10, <2>1, <2>2 DEF AccessStep
<1> QED
  BY <1>3, <1>4, <1>8, <1>9, <1>10 DEF AccessNext

\* The entries of a backend stay those it had and those that were about to be written; its
\* generation does not fall, unless it is forgotten.
Carries(k) ==
    /\ k \in forgotten' \/ Generation(k)' >= Generation(k)
    /\ \A g \in Nat, o \in AccessObject : pepKey(g, o) \in DOMAIN cached'[k] =>
          \/ pepKey(g, o) \in DOMAIN cached[k] /\ cached'[k][pepKey(g, o)] = cached[k][pepKey(g, o)]
          \/ \E c \in AccessCall : Pending(c, k, g, o) /\ cached'[k][pepKey(g, o)] = access[c].value

\* Every step carries every backend along, and forgets no eviction.
LEMMA BackendsCarry ==
    ASSUME CacheShape, AccessNext \/ UNCHANGED accessVars
    PROVE  /\ CachesTyped' /\ forgotten \subseteq forgotten'
           /\ forgotten' \in SUBSET Replica /\ \A k \in Instance : Carries(k)
<1>1. CachesTyped /\ CallsTyped /\ \A k \in Instance : Generation(k) \in Nat
  BY GenerationIsNat DEF CacheShape
<1>2. cached' = [k \in Instance |-> cached'[k]]
  BY <1>1 DEF CachesTyped, AccessNext, ObjectChanges, HandleParent, WriterFails, accessVars, Expire, CacheDelete, bump, Increment, CheckKey,
     GetTenant, SetOrgStatus, AccessStep, AccessCheck, Lookup, Invalidate, AnswerAccess, CacheSet, RedisSet, MemorySet
<1> DEFINE Goal == /\ CachesTyped' /\ forgotten \subseteq forgotten' /\ forgotten' \in SUBSET Replica
                   /\ \A k \in Instance : Carries(k)
<1>3. CASE UNCHANGED <<cached, forgotten>>
  <2>1. \A k \in Instance : Generation(k)' = Generation(k)
    BY <1>3 DEF Generation
  <2>2. CachesTyped'
    BY <1>1, <1>3 DEF CachesTyped
  <2> QED
    BY <1>1, <1>3, <2>1, <2>2 DEF Carries, CallsTyped
<1>4. ASSUME NEW k0 \in Instance, Loses(k0)
      PROVE  Goal
  <2>1. \A k \in Instance : DOMAIN cached'[k] \subseteq DOMAIN cached[k] /\ \A x \in DOMAIN cached'[k] : cached'[k][x] = cached[k][x]
    BY <1>4 DEF Loses
  <2>2. \A k \in Instance : Generation(k)' = Generation(k)
    BY <1>4, <2>1 DEF Loses, Generation
  <2>3. CachesTyped'
    BY <1>1, <1>2, <1>4, <2>1 DEF CachesTyped
  <2> QED
    BY <1>1, <1>4, <2>1, <2>2, <2>3 DEF Loses, Carries, CallsTyped
<1>5. ASSUME NEW k0 \in Instance, Bumps(k0)
      PROVE  Goal
  <2>1. k0 \in Instance
    OBVIOUS
  <2>2. Bumps(k0)
    BY <1>5
  <2>3. Generation(k0)' = Generation(k0) + 1 /\ \A k \in Instance : k # k0 => Generation(k)' = Generation(k)
    BY <2>1, <2>2 DEF Bumps, Generation
  <2>4. \A k \in Instance : \A x \in DOMAIN cached'[k] : x # pepGenerationKey => x \in DOMAIN cached[k] /\ cached'[k][x] = cached[k][x]
    BY <2>1, <2>2 DEF Bumps
  <2>5. CachesTyped'
    <3>1. pepGenerationKey \in CacheKeys
      BY DEF CacheKeys
    <3>2. \A k \in Instance : DOMAIN cached'[k] \subseteq CacheKeys
      BY <1>1, <2>4, <3>1 DEF CachesTyped
    <3>3. \A k \in Instance : pepGenerationKey \in DOMAIN cached'[k] => cached'[k][pepGenerationKey] \in Nat
      <4> TAKE k \in Instance
      <4>1. CASE k = k0
        BY <1>1, <2>1, <2>2, <4>1 DEF Bumps
      <4>2. CASE k # k0
        BY <1>1, <2>2, <4>2 DEF Bumps, CachesTyped
      <4> QED
        BY <4>1, <4>2
    <3>4. \A x \in PepKeys \cup {orgCacheKey} : x # pepGenerationKey
      BY KeysDiffer DEF PepKeys
    <3> QED
      BY <1>1, <1>2, <2>4, <3>2, <3>3, <3>4 DEF CachesTyped
  <2>6. \A k \in Instance : Carries(k)
    <3>1. \A k \in Instance : Generation(k)' >= Generation(k)
      BY <1>1, <2>3
    <3> QED
      BY <2>4, <3>1, KeysDiffer DEF Carries
  <2> QED
    BY <1>1, <2>2, <2>5, <2>6 DEF Bumps, CallsTyped
<1>6. ASSUME NEW c \in AccessCall, access[c].op \in {"check", "lookup"}, access[c].pc = "set",
             Writes(CacheOf(access[c].replica), access[c].key, access[c].value)
      PROVE  Goal
  <2> DEFINE k0 == CacheOf(access[c].replica)
             key == access[c].key
  <2>1. k0 \in Instance
    BY <1>1, CacheOfReplica DEF CallsTyped, CallRecord
  <2>2. /\ access[c].op = "check" => access[c].up /\ access[c].value \in {"0", "1"} /\ key \in PepKeys
        /\ access[c].op = "lookup" => access[c].value \in OrgStatus /\ key = orgCacheKey
    <3>1. access[c].op = "check" => access[c].object \in AccessObject
      BY <1>1 DEF CallsTyped, CallRecord
    <3> QED
      BY <1>6, <3>1 DEF CacheShape, CallsWellKeyed, PepKeys
  <2>3. key # pepGenerationKey /\ key \in CacheKeys
    BY <1>6, <2>2, KeysDiffer DEF PepKeys, CacheKeys
  <2>4. Writes(k0, key, access[c].value)
    BY <1>6
  <2> HIDE DEF k0, key
  <2>5. \A k \in Instance : k \in forgotten' \/ Generation(k)' = Generation(k)
    BY <2>1, <2>3, <2>4 DEF Writes, Generation
  <2>6. CachesTyped'
    <3>1. \A k \in Instance : DOMAIN cached'[k] \subseteq CacheKeys
      BY <1>1, <2>1, <2>3, <2>4 DEF CachesTyped, Writes
    <3>2. \A k \in Instance : pepGenerationKey \in DOMAIN cached'[k] => cached'[k][pepGenerationKey] \in Nat
      <4> TAKE k \in Instance
      <4>1. pepGenerationKey \in DOMAIN cached'[k] =>
               pepGenerationKey \in DOMAIN cached[k] /\ cached'[k][pepGenerationKey] = cached[k][pepGenerationKey]
        BY <2>1, <2>3, <2>4 DEF Writes
      <4> QED
        BY <1>1, <4>1 DEF CachesTyped
    <3>3. \A k \in Instance : orgCacheKey \in DOMAIN cached'[k] => cached'[k][orgCacheKey] \in OrgStatus
      <4>1. key = orgCacheKey => access[c].value \in OrgStatus
        BY <1>6, <2>2, KeysDiffer DEF PepKeys
      <4> QED
        BY <1>1, <2>1, <2>4, <4>1 DEF Writes, CachesTyped
    <3>4. \A k \in Instance : \A x \in PepKeys : x \in DOMAIN cached'[k] => cached'[k][x] \in {"0", "1"}
      <4>1. key \in PepKeys => access[c].value \in {"0", "1"}
        BY <1>6, <2>2, KeysDiffer DEF PepKeys
      <4> QED
        BY <1>1, <2>1, <2>4, <4>1 DEF Writes, CachesTyped
    <3> QED
      BY <1>2, <3>1, <3>2, <3>3, <3>4 DEF CachesTyped
  <2>7. \A k \in Instance : Carries(k)
    <3> SUFFICES ASSUME NEW k \in Instance, NEW g \in Nat, NEW o \in AccessObject, pepKey(g, o) \in DOMAIN cached'[k]
                 PROVE  \/ pepKey(g, o) \in DOMAIN cached[k] /\ cached'[k][pepKey(g, o)] = cached[k][pepKey(g, o)]
                        \/ \E x \in AccessCall : Pending(x, k, g, o) /\ cached'[k][pepKey(g, o)] = access[x].value
      BY <1>1, <2>5 DEF Carries
    <3>1. CASE k = k0 /\ key = pepKey(g, o)
      <4>1. access[c].op = "check" /\ access[c].up
        BY <1>6, <2>2, <3>1, KeysDiffer
      <4>2. Pending(c, k, g, o)
        BY <1>6, <3>1, <4>1 DEF Pending, Stamped, k0, key
      <4> QED
        BY <2>4, <3>1, <4>2 DEF Writes
    <3>2. CASE ~(k = k0 /\ key = pepKey(g, o))
      BY <2>1, <2>4, <3>2 DEF Writes
    <3> QED
      BY <3>1, <3>2
  <2> QED
    BY <2>4, <2>6, <2>7 DEF Writes
<1>7. CacheOf(writer.replica) \in Instance
  BY <1>1, CacheOfReplica DEF CallsTyped
<1> QED
  BY <1>3, <1>4, <1>5, <1>6, <1>7, BackendMoves

-----------------------------------------------------------------------------
(* AccessCache: no allow outlives the revocation of its tuple *)

\* In any step a request moves, or HandleParent takes its promise away.
LEMMA StepMoves ==
    ASSUME CacheShape, AccessNext \/ UNCHANGED accessVars
    PROVE  /\ UNCHANGED backend
           /\ \/ UNCHANGED parentTuple /\ \A c \in AccessCall : CallMove(c)
              \/ HandleParent
<1>1. CASE \E c \in AccessCall : CheckKey(c) \/ GetTenant(c) \/ SetOrgStatus(c) \/ AccessStep(c)
  BY <1>1, RequestMoves
<1>2. CASE ObjectChanges \/ bump \/ WriterFails \/ Expire \/ UNCHANGED accessVars
  BY <1>2 DEF ObjectChanges, bump, WriterFails, Expire, accessVars, CallMove
<1>3. CASE HandleParent
  BY <1>3 DEF HandleParent
<1> QED
  BY <1>1, <1>2, <1>3 DEF AccessNext

\* HandleParent leaves a request as it is but for its promise.
LEMMA PromiseTaken ==
    ASSUME CacheShape, HandleParent, NEW c \in AccessCall
    PROVE  /\ access'[c].op = access[c].op /\ access'[c].pc = access[c].pc /\ access'[c].key = access[c].key
           /\ access'[c].replica = access[c].replica /\ access'[c].up = access[c].up
           /\ access'[c].object = access[c].object /\ access'[c].value = access[c].value
           /\ access'[c].fresh => /\ access[c].fresh
                                  /\ \A k \in Instance : access[c].object \in revoked[k] => access[c].object \in revoked'[k]
<1>1. PICK ev \in tupleEvents :
        /\ access'[c] = [access[c] EXCEPT !.fresh = access[c].fresh /\ access[c].object # ev.object]
        /\ revoked' = [k \in Instance |-> revoked[k] \ {ev.object}]
  BY DEF HandleParent
<1>2. access[c] \in CallRecord
  BY DEF CacheShape, CallsTyped
<1> QED
  BY <1>1, <1>2 DEF CallRecord

\* A stamp is the generation of the present, or an earlier one.
LEMMA StampsMove ==
    ASSUME CacheShape, AccessNext \/ UNCHANGED accessVars,
           NEW c \in AccessCall, NEW k \in Instance, NEW g \in Nat, NEW o \in AccessObject
    PROVE  /\ Stamped(c, k, g, o)' => Stamped(c, k, g, o) \/ g = Generation(k)
           /\ Pending(c, k, g, o)' => \/ Pending(c, k, g, o) /\ access'[c].value = access[c].value
                                      \/ Stamped(c, k, g, o) /\ access'[c].value = Allowed(o)
<1>1. UNCHANGED backend /\ access[c] \in CallRecord
  BY StepMoves DEF CacheShape, CallsTyped
<1>2. \A r : CacheOf(r)' = CacheOf(r)
  BY <1>1 DEF CacheOf
<1>3. CASE HandleParent
  BY <1>1, <1>2, <1>3, PromiseTaken DEF Stamped, Pending
<1>4. CASE access'[c] = access[c]
  BY <1>1, <1>2, <1>4 DEF Stamped, Pending
<1>5. CASE OtherRequest(c)
  BY <1>5 DEF OtherRequest, Stamped, Pending
<1>6. CASE StartsCheck(c)
  <2>1. PICK r \in Replica, p \in AccessObject, fresh \in BOOLEAN :
          LET call == [IdleAccess EXCEPT !.op = "check", !.replica = r, !.object = p, !.fresh = fresh]
          IN /\ fresh => p \in revoked[CacheOf(r)]
             /\ \/ access'[c] = [call EXCEPT !.pc = "get", !.up = TRUE, !.key = pepKey(Generation(CacheOf(r)), p)]
                \/ access'[c] = [call EXCEPT !.pc = "inner"]
    BY <1>6 DEF StartsCheck
  <2>2. \/ /\ access'[c].pc = "get" /\ access'[c].replica = r
           /\ access'[c].key = pepKey(Generation(CacheOf(r)), p)
        \/ access'[c].pc = "inner" /\ access'[c].up = FALSE
    BY <2>1 DEF IdleAccess
  <2> QED
    BY <1>2, <2>2, KeysDiffer DEF Stamped, Pending
<1>7. CASE GoesOn(c)
  <2>1. /\ access'[c].op = access[c].op /\ access'[c].key = access[c].key /\ access'[c].replica = access[c].replica
        /\ access'[c].up = access[c].up
        /\ access'[c].pc = "set" => access'[c].value = Allowed(access[c].object)
    BY <1>1, <1>7 DEF GoesOn, CallRecord
  <2>2. Stamped(c, k, g, o)' => Stamped(c, k, g, o)
    BY <1>2, <2>1 DEF Stamped
  <2>3. Stamped(c, k, g, o) => access[c].object = o
    BY KeysDiffer DEF Stamped, CacheShape, CallsWellKeyed
  <2> QED
    BY <2>1, <2>2, <2>3 DEF Pending
<1> QED
  BY <1>3, <1>4, <1>5, <1>6, <1>7, StepMoves DEF CallMove

\* A backend that is clean of an object without a tuple stays so.
LEMMA CleanStays ==
    ASSUME CacheShape, AccessNext \/ UNCHANGED accessVars,
           NEW k \in Instance, NEW o \in AccessObject, NEW g \in Nat, o \notin parentTuple, Clean(k, o, g)
    PROVE  Clean(k, o, g)'
<1> SUFFICES ASSUME NEW h \in Nat, h >= g
             PROVE  /\ pepKey(h, o) \in DOMAIN cached'[k] => cached'[k][pepKey(h, o)] # "1"
                    /\ \A c \in AccessCall : Pending(c, k, h, o)' => access'[c].value # "1"
  BY DEF Clean
<1>1. /\ pepKey(h, o) \in DOMAIN cached[k] => cached[k][pepKey(h, o)] # "1"
      /\ \A c \in AccessCall : Pending(c, k, h, o) => access[c].value # "1"
  BY DEF Clean
<1>2. Carries(k)
  BY BackendsCarry
<1>3. pepKey(h, o) \in DOMAIN cached'[k] => cached'[k][pepKey(h, o)] # "1"
  BY <1>1, <1>2 DEF Carries
<1>4. ASSUME NEW c \in AccessCall, Pending(c, k, h, o)'
      PROVE  access'[c].value # "1"
  <2>1. Allowed(o) = "0"
    BY DEF Allowed
  <2> QED
    BY <1>1, <1>4, <2>1, StampsMove
<1> QED
  BY <1>3, <1>4

\* No step stamps with a generation that is not reached.
LEMMA StampsStayReached ==
    ASSUME CacheShape, StampsReached, AccessNext \/ UNCHANGED accessVars
    PROVE  StampsReached'
<1> SUFFICES ASSUME NEW k \in Instance, k \notin forgotten', NEW g \in Nat, NEW o \in AccessObject
             PROVE  /\ pepKey(g, o) \in DOMAIN cached'[k] => g <= Generation(k)'
                    /\ \A c \in AccessCall : Stamped(c, k, g, o)' => g <= Generation(k)'
  BY DEF StampsReached, Instance
<1>1. CachesTyped' /\ k \notin forgotten /\ Carries(k)
  BY BackendsCarry
<1>2. Generation(k) \in Nat /\ Generation(k)' \in Nat /\ Generation(k)' >= Generation(k)
  <2>1. Generation(k)' \in Nat
    BY <1>1 DEF CachesTyped, Generation
  <2> QED
    BY <1>1, <2>1, GenerationIsNat DEF Carries, CacheShape
<1>3. /\ pepKey(g, o) \in DOMAIN cached[k] => g <= Generation(k)
      /\ \A c \in AccessCall : Stamped(c, k, g, o) => g <= Generation(k)
  BY <1>1 DEF StampsReached
<1>4. pepKey(g, o) \in DOMAIN cached'[k] => g <= Generation(k)
  BY <1>1, <1>3 DEF Carries, Pending
<1>5. \A c \in AccessCall : Stamped(c, k, g, o)' => g <= Generation(k)
  BY <1>2, <1>3, StampsMove
<1> QED
  BY <1>2, <1>4, <1>5

\* What a step leaves revoked was so before, or is what the bump in progress is about.
LEMMA RevokedMoves ==
    ASSUME CacheShape, AccessNext \/ UNCHANGED accessVars, NEW k \in Instance, NEW o \in revoked'[k]
    PROVE  /\ o \in AccessObject
           /\ \/ o \in revoked[k] /\ (o \notin parentTuple => o \notin parentTuple')
              \/ bump /\ k = CacheOf(writer.replica) /\ o \notin parentTuple'
<1>1. CallsTyped /\ DeletedHasNoTuple
  BY DEF CacheShape
<1>2. CASE HandleParent
  <2>1. PICK ev \in tupleEvents :
          /\ parentTuple' = IF ev.type = "created" THEN parentTuple \cup {ev.object} ELSE parentTuple \ {ev.object}
          /\ revoked' = [j \in Instance |-> revoked[j] \ {ev.object}]
    BY <1>2 DEF HandleParent
  <2> QED
    BY <1>1, <2>1 DEF CallsTyped
<1>3. CASE bump
  <2>1. UNCHANGED parentTuple
    BY <1>3 DEF bump
  <2>2. CacheOf(writer.replica) \in Instance /\ writer.event.object \in AccessObject
    BY <1>1, CacheOfReplica DEF CallsTyped, TupleEvent
  <2>3. \/ o \in revoked[k]
        \/ k = CacheOf(writer.replica) /\ o = writer.event.object /\ writer.event.type = "deleted"
    BY <1>1, <1>3, <2>2 DEF bump, CallsTyped
  <2>4. writer.pc = "bump"
    BY <1>3 DEF bump
  <2> QED
    BY <1>1, <1>3, <2>1, <2>2, <2>3, <2>4 DEF CallsTyped, DeletedHasNoTuple
<1>4. CASE UNCHANGED <<revoked, parentTuple>>
  BY <1>1, <1>4 DEF CallsTyped
<1>5. CASE \E c \in AccessCall : CheckKey(c) \/ GetTenant(c) \/ SetOrgStatus(c) \/ AccessStep(c)
  BY <1>4, <1>5, RequestMoves
<1>6. CASE ObjectChanges \/ WriterFails \/ Expire \/ UNCHANGED accessVars
  BY <1>4, <1>6 DEF ObjectChanges, WriterFails, Expire, accessVars
<1> QED
  BY <1>2, <1>3, <1>5, <1>6 DEF AccessNext

\* A bump leaves no answer at the generation it begins: what is revoked is clean.
LEMMA RevokedStaysClean ==
    ASSUME CacheShape, StampsReached, RevokedIsClean, AccessNext \/ UNCHANGED accessVars
    PROVE  RevokedIsClean'
<1> SUFFICES ASSUME NEW k \in Instance, k \notin forgotten', NEW o \in revoked'[k]
             PROVE  o \notin parentTuple' /\ Clean(k, o, Generation(k))'
  BY DEF RevokedIsClean, Instance
<1>1. k \notin forgotten /\ Carries(k) /\ o \in AccessObject
  BY BackendsCarry, RevokedMoves
<1>2. Generation(k) \in Nat /\ Generation(k)' \in Nat /\ Generation(k)' >= Generation(k)
  <2>1. Generation(k)' \in Nat
    BY BackendsCarry DEF CachesTyped, Generation
  <2> QED
    BY <1>1, <2>1, GenerationIsNat DEF Carries, CacheShape
<1>3. CASE o \in revoked[k] /\ (o \notin parentTuple => o \notin parentTuple')
  <2>1. PICK g \in Nat : g = Generation(k)
    BY <1>2
  <2>2. o \notin parentTuple /\ Clean(k, o, g)
    BY <1>1, <1>3, <2>1 DEF RevokedIsClean
  <2>3. Clean(k, o, g)'
    BY <1>1, <2>2, CleanStays
  <2> QED
    BY <1>2, <1>3, <2>1, <2>2, <2>3 DEF Clean
<1>4. CASE bump /\ k = CacheOf(writer.replica) /\ o \notin parentTuple'
  <2>1. UNCHANGED <<access, backend>> /\ Generation(k)' = Generation(k) + 1
    <3>1. cached' = [cached EXCEPT ![k] = Put(k, pepGenerationKey, Generation(k) + 1)]
      BY <1>4 DEF bump, Increment
    <3>2. cached'[k] = Put(k, pepGenerationKey, Generation(k) + 1)
      BY <3>1 DEF CacheShape, CachesTyped
    <3>3. pepGenerationKey \in DOMAIN cached'[k] /\ cached'[k][pepGenerationKey] = Generation(k) + 1
      BY <3>2 DEF Put
    <3> QED
      BY <1>4, <3>3 DEF bump, Generation
  <2>2. ASSUME NEW h \in Nat, h >= Generation(k)'
        PROVE  /\ pepKey(h, o) \notin DOMAIN cached'[k]
               /\ \A c \in AccessCall : ~Pending(c, k, h, o)'
    <3>1. ~(h <= Generation(k))
      BY <1>2, <2>1, <2>2
    <3>2. pepKey(h, o) \notin DOMAIN cached[k] /\ \A c \in AccessCall : ~Stamped(c, k, h, o)
      BY <1>1, <3>1 DEF StampsReached
    <3>3. pepKey(h, o) \notin DOMAIN cached'[k]
      BY <1>1, <3>2 DEF Carries, Pending
    <3>4. \A c \in AccessCall : ~Pending(c, k, h, o)'
      BY <1>1, <3>2, StampsMove DEF Pending
    <3> QED
      BY <3>3, <3>4
  <2> QED
    BY <1>4, <2>2 DEF Clean
<1> QED
  BY <1>3, <1>4, RevokedMoves

\* A check keeps what it was promised as it goes on: it reads answers stamped with its own
\* generation or a later one, or the tuple itself.
LEMMA PromiseKept ==
    ASSUME CacheInv, AccessNext \/ UNCHANGED accessVars, NEW c \in AccessCall, access[c].op = "check",
           access[c].fresh, GoesOn(c), NEW k \in Instance, k = CacheOf(access[c].replica), k \notin forgotten
    PROVE  access'[c].pc \in {"set", "done"} => access'[c].value = "0"
<1>1. access[c] \in CallRecord /\ CacheShape
  BY DEF CacheInv, CacheShape, CallsTyped
<1>2. /\ access[c].object \in revoked[k]
      /\ access[c].pc = "get" => \A g \in Nat : Stamped(c, k, g, access[c].object) => Clean(k, access[c].object, g)
      /\ access[c].pc = "set" => access[c].value = "0"
  BY DEF CacheInv, FreshIsClean
<1>3. Allowed(access[c].object) = "0"
  BY <1>2 DEF CacheInv, RevokedIsClean, Allowed
<1>4. access[c].pc = "get" /\ access[c].key \in DOMAIN cached[k] => cached[k][access[c].key] = "0"
  <2> SUFFICES ASSUME access[c].pc = "get", access[c].key \in DOMAIN cached[k]
               PROVE  cached[k][access[c].key] = "0"
    OBVIOUS
  <2>1. access[c].up
    BY <1>1 DEF CacheShape, CallsWellKeyed
  <2>2. PICK g \in Nat : access[c].key = pepKey(g, access[c].object)
    BY <1>1, <2>1 DEF CacheShape, CallsWellKeyed
  <2>3. Stamped(c, k, g, access[c].object)
    BY <2>1, <2>2 DEF Stamped
  <2>4. cached[k][access[c].key] # "1"
    BY <1>2, <2>2, <2>3 DEF Clean
  <2>5. access[c].key \in PepKeys
    BY <1>1, <2>2 DEF PepKeys, CallRecord
  <2> QED
    BY <1>1, <2>4, <2>5 DEF CacheShape, CachesTyped
<1> QED
  BY <1>1, <1>2, <1>3, <1>4 DEF GoesOn, CallRecord

\* So every check that is promised a fresh answer gets one.
LEMMA FreshStaysClean ==
    ASSUME CacheInv, AccessNext \/ UNCHANGED accessVars
    PROVE  FreshIsClean'
<1>1. CacheShape /\ CallsTyped' /\ UNCHANGED backend /\ \A r : CacheOf(r)' = CacheOf(r)
  <2>1. CacheShape /\ UNCHANGED backend
    BY StepMoves DEF CacheInv
  <2> QED
    BY <2>1, BackendsCarry, CallsStayTyped DEF CacheOf
<1> DEFINE Kept(c, k, o) ==
             /\ o \in revoked'[k]
             /\ k \notin forgotten' =>
                  /\ access'[c].pc = "get" => \A g \in Nat : Stamped(c, k, g, o)' => Clean(k, o, g)'
                  /\ access'[c].pc \in {"set", "done"} => access'[c].value = "0"
<1> SUFFICES ASSUME NEW c \in AccessCall, access'[c].op = "check", access'[c].fresh,
                    NEW k \in Instance, k = CacheOf(access'[c].replica),
                    NEW o \in AccessObject, o = access'[c].object
             PROVE  Kept(c, k, o)
  <2>1. \A c \in AccessCall : access'[c].object \in AccessObject /\ CacheOf(access'[c].replica) \in Instance
    BY <1>1, CacheOfReplica DEF CallsTyped, CallRecord
  <2> SUFFICES ASSUME NEW c \in AccessCall, access'[c].op = "check", access'[c].fresh
               PROVE  /\ access'[c].object \in revoked'[CacheOf(access[c].replica)']
                      /\ CacheOf(access[c].replica)' \notin forgotten' =>
                           /\ access'[c].pc = "get" =>
                                 \A g \in Nat : Stamped(c, CacheOf(access[c].replica), g, access[c].object)'
                                                   => Clean(CacheOf(access[c].replica), access[c].object, g)'
                           /\ access'[c].pc \in {"set", "done"} => access'[c].value = "0"
    BY DEF FreshIsClean
  <2>2. PICK k \in Instance, o \in AccessObject : k = CacheOf(access'[c].replica) /\ o = access'[c].object
    BY <2>1
  <2>3. k = CacheOf(access[c].replica)' /\ o = access[c].object'
    BY <1>1, <2>2 DEF CacheOf
  <2>4. Kept(c, k, o)
    BY <2>2
  <2> QED
    BY <2>3, <2>4 DEF Stamped, Clean, Pending
<1>2. access[c] \in CallRecord /\ \A j \in Instance : revoked[j] \in SUBSET AccessObject
  BY <1>1 DEF CacheShape, CallsTyped
<1>3. k \notin forgotten' => k \notin forgotten
  BY <1>1, BackendsCarry
<1>4. ASSUME NEW g \in Nat, o \in revoked[k], k \notin forgotten, Clean(k, o, g)
      PROVE  Clean(k, o, g)'
  BY <1>1, <1>4, CleanStays DEF CacheInv, RevokedIsClean
\* Nothing but HandleParent ends a revocation.
<1>5. HandleParent \/ revoked[k] \subseteq revoked'[k]
  BY <1>1 DEF AccessNext, ObjectChanges, bump, WriterFails, Expire, accessVars, CheckKey, GetTenant, SetOrgStatus,
     AccessStep, AccessCheck, Lookup, Invalidate, AnswerAccess, accessSame, CacheShape, CallsTyped
<1>6. ASSUME access[c].op = "check", access[c].fresh, access'[c].replica = access[c].replica,
             access'[c].object = access[c].object, access'[c].key = access[c].key, access'[c].up = access[c].up,
             HandleParent => \A j \in Instance : access[c].object \in revoked[j] => access[c].object \in revoked'[j],
             access'[c].pc = "get" => access[c].pc = "get",
             access'[c].pc \in {"set", "done"} /\ k \notin forgotten => access'[c].value = "0"
      PROVE  Kept(c, k, o)
  <2>1. k = CacheOf(access[c].replica) /\ o = access[c].object
    BY <1>6
  <2>2. /\ o \in revoked[k]
        /\ k \notin forgotten /\ access[c].pc = "get" => \A g \in Nat : Stamped(c, k, g, o) => Clean(k, o, g)
    BY <1>6, <2>1 DEF CacheInv, FreshIsClean
  <2>3. o \in revoked'[k]
    BY <1>5, <1>6, <2>1, <2>2
  <2>4. ASSUME k \notin forgotten', access'[c].pc = "get", NEW g \in Nat, Stamped(c, k, g, o)'
        PROVE  Clean(k, o, g)'
    <3>1. Stamped(c, k, g, o)
      BY <1>6, <2>1, <2>4 DEF Stamped
    <3>2. Clean(k, o, g)
      BY <1>3, <1>6, <2>2, <2>4, <3>1
    <3> QED
      BY <1>3, <1>4, <2>2, <2>4, <3>2
  <2> QED
    BY <1>3, <1>6, <2>3, <2>4
<1> HIDE DEF Kept
<1>7. CASE HandleParent
  <2>1. /\ access'[c].op = access[c].op /\ access'[c].pc = access[c].pc /\ access'[c].key = access[c].key
        /\ access'[c].replica = access[c].replica /\ access'[c].up = access[c].up
        /\ access'[c].object = access[c].object /\ access'[c].value = access[c].value /\ access[c].fresh
        /\ \A j \in Instance : access[c].object \in revoked[j] => access[c].object \in revoked'[j]
    BY <1>1, <1>7, PromiseTaken
  <2>2. k \notin forgotten /\ access[c].pc \in {"set", "done"} => access[c].value = "0"
    BY <2>1 DEF CacheInv, FreshIsClean
  <2> QED
    BY <1>6, <2>1, <2>2
<1>8. CASE ~HandleParent /\ access'[c] = access[c]
  <2>1. k \notin forgotten /\ access[c].pc \in {"set", "done"} => access[c].value = "0"
    BY <1>8 DEF CacheInv, FreshIsClean
  <2> QED
    BY <1>6, <1>8, <2>1
<1>9. CASE ~HandleParent /\ GoesOn(c)
  <2>1. /\ access[c].op = "check"
        /\ \/ \E v : \E pc \in {"set", "done"} : access'[c] = [access[c] EXCEPT !.pc = pc, !.value = v]
           \/ access'[c] = [access[c] EXCEPT !.pc = "inner"]
    BY <1>9 DEF GoesOn
  <2>2. /\ access'[c].replica = access[c].replica /\ access'[c].object = access[c].object
        /\ access'[c].key = access[c].key /\ access'[c].pc # "get" /\ access[c].fresh /\ access'[c].up = access[c].up
    <3>1. ASSUME NEW pc \in {"set", "done"}, NEW v, access'[c] = [access[c] EXCEPT !.pc = pc, !.value = v]
          PROVE  /\ access'[c].replica = access[c].replica /\ access'[c].object = access[c].object
                 /\ access'[c].key = access[c].key /\ access'[c].pc = pc /\ access'[c].fresh = access[c].fresh
                 /\ access'[c].up = access[c].up
      BY <1>2, <3>1 DEF CallRecord
    <3>2. ASSUME access'[c] = [access[c] EXCEPT !.pc = "inner"]
          PROVE  /\ access'[c].replica = access[c].replica /\ access'[c].object = access[c].object
                 /\ access'[c].key = access[c].key /\ access'[c].pc = "inner" /\ access'[c].fresh = access[c].fresh
                 /\ access'[c].up = access[c].up
      BY <1>2, <3>2 DEF CallRecord
    <3> QED
      BY <2>1, <3>1, <3>2
  <2>3. access'[c].pc \in {"set", "done"} /\ k \notin forgotten => access'[c].value = "0"
    BY <1>9, <2>1, <2>2, PromiseKept
  <2> QED
    BY <1>6, <1>9, <2>1, <2>2, <2>3
<1>10. CASE ~HandleParent /\ StartsCheck(c)
  <2>1. PICK r \in Replica, p \in AccessObject, fresh \in BOOLEAN :
          LET call == [IdleAccess EXCEPT !.op = "check", !.replica = r, !.object = p, !.fresh = fresh]
          IN /\ fresh => p \in revoked[CacheOf(r)]
             /\ \/ access'[c] = [call EXCEPT !.pc = "get", !.up = TRUE, !.key = pepKey(Generation(CacheOf(r)), p)]
                \/ access'[c] = [call EXCEPT !.pc = "inner"]
    BY <1>10 DEF StartsCheck
  <2> DEFINE call == [IdleAccess EXCEPT !.op = "check", !.replica = r, !.object = p, !.fresh = fresh]
             get == [call EXCEPT !.pc = "get", !.up = TRUE, !.key = pepKey(Generation(CacheOf(r)), p)]
             inner == [call EXCEPT !.pc = "inner"]
  <2>a. /\ get.replica = r /\ get.object = p /\ get.pc = "get" /\ get.key = pepKey(Generation(CacheOf(r)), p)
        /\ get.fresh = fresh
    BY DEF IdleAccess
  <2>b. inner.replica = r /\ inner.object = p /\ inner.pc = "inner" /\ inner.fresh = fresh
    BY DEF IdleAccess
  <2>c. access'[c] = get \/ access'[c] = inner
    BY <2>1
  <2> HIDE DEF get, inner
  <2>2. /\ access'[c].replica = r /\ access'[c].object = p /\ access'[c].pc \in {"get", "inner"}
        /\ access'[c].pc = "get" => access'[c].key = pepKey(Generation(CacheOf(r)), p)
    BY <2>a, <2>b, <2>c
  <2>3. p \in revoked[CacheOf(r)]
    BY <2>1, <2>a, <2>b, <2>c
  <2>4. k = CacheOf(r) /\ o = p /\ o \in revoked[k]
    BY <2>2, <2>3
  <2>5. ASSUME k \notin forgotten', access'[c].pc = "get", NEW g \in Nat, Stamped(c, k, g, o)'
        PROVE  Clean(k, o, g)'
    <3>1. g = Generation(k)
      BY <2>2, <2>4, <2>5, KeysDiffer DEF Stamped
    <3>2. Clean(k, o, g)
      BY <1>3, <2>4, <2>5, <3>1 DEF CacheInv, RevokedIsClean
    <3> QED
      BY <1>3, <1>4, <2>4, <2>5, <3>2
  <2> QED
    BY <1>5, <1>10, <2>2, <2>4, <2>5 DEF Kept
<1>11. CASE OtherRequest(c)
  BY <1>11 DEF OtherRequest
<1> QED
  BY <1>1, <1>7, <1>8, <1>9, <1>10, <1>11, StepMoves DEF CallMove

\* AccessSpec: answers are stamped with generations that were reached, what is revoked is clean
\* at the present generation, and a check that began after the revocation reads nothing older.
THEOREM CacheInvariant == AccessSpec => []CacheInv
<1>1. AccessInit => CacheInv
  <2> SUFFICES ASSUME AccessInit PROVE CacheInv
    OBVIOUS
  <2>1. /\ cached = [k \in Instance |-> [x \in {} |-> 0]] /\ tupleEvents = {} /\ writer = IdleWriter /\ orgRow = "active"
        /\ access = [c \in AccessCall |-> IdleAccess] /\ revoked = [k \in Instance |-> {}] /\ forgotten = {}
        /\ backend \in {"memory", "redis"} /\ parentTuple \in SUBSET AccessObject
    BY DEF AccessInit
  <2>2. CallsTyped
    BY <2>1, IdleTyped DEF CallsTyped, OrgStatus
  <2>3. \A k \in Instance : DOMAIN cached[k] = {}
    BY <2>1
  <2>4. CachesTyped
    BY <2>1, <2>3 DEF CachesTyped
  <2>5. \A c \in AccessCall : access[c].op = "none"
    BY <2>1 DEF IdleAccess
  <2>6. CallsWellKeyed /\ FreshIsClean
    BY <2>5 DEF CallsWellKeyed, FreshIsClean
  <2>7. DeletedHasNoTuple
    BY <2>1 DEF DeletedHasNoTuple, IdleWriter
  <2>8. StampsReached
    BY <2>3, <2>5 DEF StampsReached, Stamped
  <2>9. RevokedIsClean
    BY <2>1 DEF RevokedIsClean
  <2> QED
    BY <2>2, <2>4, <2>6, <2>7, <2>8, <2>9 DEF CacheInv, CacheShape
<1>2. CacheInv /\ [AccessNext]_accessVars => CacheInv'
  <2> SUFFICES ASSUME CacheInv, AccessNext \/ UNCHANGED accessVars PROVE CacheInv'
    OBVIOUS
  <2>1. CacheShape'
    BY BackendsCarry, CallsStayTyped DEF CacheInv, CacheShape
  <2>2. StampsReached' /\ RevokedIsClean' /\ FreshIsClean'
    BY StampsStayReached, RevokedStaysClean, FreshStaysClean DEF CacheInv
  <2> QED
    BY <2>1, <2>2 DEF CacheInv
<1> QED
  BY <1>1, <1>2, PTL DEF AccessSpec

\* A check that begins after the removal of a tuple has bumped the generation of its backend is
\* not allowed, whichever answers are cached, late, lost or evicted (NoStaleAllow).
THEOREM NoAllowIsStale == AccessSpec => []NoStaleAllow
<1>1. CacheInv => NoStaleAllow
  <2> SUFFICES ASSUME CacheInv, NEW c \in AccessCall, access[c].op = "check", access[c].pc = "done",
                      access[c].fresh, access[c].replica \notin forgotten
               PROVE  access[c].value = "0"
    BY DEF NoStaleAllow
  <2>1. access[c].replica \in Replica /\ forgotten \in SUBSET Replica
    BY DEF CacheInv, CacheShape, CallsTyped, CallRecord
  <2>2. CacheOf(access[c].replica) \notin forgotten
    BY <2>1, CacheOfReplica
  <2> QED
    BY <2>2 DEF CacheInv, FreshIsClean
<1> QED
  BY <1>1, CacheInvariant, PTL

-----------------------------------------------------------------------------
(* AccessCache: type correctness, and the bound of a memory *)

\* A memory holds no more entries than it may, its generation aside.
MemoryBounded ==
    \A r \in Replica : IsFiniteSet(DOMAIN cached[r]) /\ Cardinality(DOMAIN cached[r] \ {pepGenerationKey}) <= MaxEntries
RequestsBounded ==
    /\ object \in [AccessObject -> {"absent", "live", "gone"}]
    /\ accessAsked \in 0 .. MaxAccessRequests /\ accessFaults \in 0 .. MaxAccessFaults

\* Fewer entries are within the bound.
LEMMA FewerFit ==
    ASSUME NEW S, NEW T \in SUBSET S, IsFiniteSet(S), Cardinality(S \ {pepGenerationKey}) <= MaxEntries
    PROVE  IsFiniteSet(T) /\ Cardinality(T \ {pepGenerationKey}) <= MaxEntries
<1>1. IsFiniteSet(T) /\ IsFiniteSet(S \ {pepGenerationKey})
  BY FS_Subset
<1>2. (T \ {pepGenerationKey}) \in SUBSET (S \ {pepGenerationKey})
  OBVIOUS
<1>3. Cardinality(T \ {pepGenerationKey}) <= Cardinality(S \ {pepGenerationKey})
  BY <1>1, <1>2, FS_Subset
<1>4. Cardinality(T \ {pepGenerationKey}) \in Nat /\ Cardinality(S \ {pepGenerationKey}) \in Nat /\ MaxEntries \in Nat
  BY <1>1, FS_Subset, FS_CardinalityType, AccessAssumption
<1> QED
  BY <1>1, <1>3, <1>4

\* A set of no more than MaxEntries keys is within the bound.
LEMMA SmallFits ==
    ASSUME NEW S, IsFiniteSet(S), Cardinality(S) <= MaxEntries
    PROVE  Cardinality(S \ {pepGenerationKey}) <= MaxEntries
<1>1. (S \ {pepGenerationKey}) \in SUBSET S
  OBVIOUS
<1>2. IsFiniteSet(S \ {pepGenerationKey}) /\ Cardinality(S \ {pepGenerationKey}) <= Cardinality(S)
  BY <1>1, FS_Subset
<1>3. Cardinality(S \ {pepGenerationKey}) \in Nat /\ Cardinality(S) \in Nat /\ MaxEntries \in Nat
  BY <1>2, FS_CardinalityType, AccessAssumption
<1> QED
  BY <1>2, <1>3

\* Set evicts enough to make room for its key.
LEMMA SetFits ==
    ASSUME cached = [k \in Instance |-> cached[k]], MemoryBounded, NEW r \in Replica, NEW key, NEW value,
           MemorySet(r, key, value)
    PROVE  /\ IsFiniteSet(DOMAIN cached'[r]) /\ Cardinality(DOMAIN cached'[r] \ {pepGenerationKey}) <= MaxEntries
           /\ \A k \in Instance : k # r => cached'[k] = cached[k]
<1>1. r \in Instance /\ MaxEntries \in Nat \ {0}
  BY AccessAssumption DEF Instance
<1> DEFINE D == DOMAIN cached[r]
<1>2. IsFiniteSet(D) /\ Cardinality(D \ {pepGenerationKey}) <= MaxEntries /\ Cardinality(D) \in Nat
  BY FS_CardinalityType DEF MemoryBounded
<1>3. CASE key \notin D /\ Cardinality(D) >= MaxEntries
  <2>1. PICK victim \in SUBSET D :
          /\ Cardinality(victim) = Cardinality(D) - MaxEntries + 1
          /\ cached' = [cached EXCEPT ![r] = Restrict(Put(r, key, value), (D \ victim) \cup {key})]
    BY <1>3 DEF MemorySet
  <2>2. DOMAIN cached'[r] = (D \ victim) \cup {key}
    <3>1. cached'[r] = Restrict(Put(r, key, value), (D \ victim) \cup {key})
      BY <1>1, <2>1
    <3> QED
      BY <3>1 DEF Restrict
  <2> HIDE DEF D
  <2>3. IsFiniteSet(D \ victim) /\ Cardinality(D \ victim) = Cardinality(D) - Cardinality(victim)
    <3>1. D \cap victim = victim
      OBVIOUS
    <3>2. IsFiniteSet(D \ victim) /\ Cardinality(D \ victim) = Cardinality(D) - Cardinality(D \cap victim)
      BY <1>2, FS_Difference
    <3> QED
      BY <3>1, <3>2, Zenon
  <2>4. Cardinality(D \ victim) = MaxEntries - 1
    BY <1>1, <1>2, <2>1, <2>3
  <2>5. IsFiniteSet((D \ victim) \cup {key}) /\ Cardinality((D \ victim) \cup {key}) <= MaxEntries
    <3>1. key \notin D \ victim
      BY <1>3
    <3>2. /\ IsFiniteSet((D \ victim) \cup {key})
          /\ Cardinality((D \ victim) \cup {key}) = Cardinality(D \ victim) + 1
      BY <2>3, <3>1, FS_AddElement
    <3> QED
      BY <1>1, <2>4, <3>2
  <2>6. Cardinality(((D \ victim) \cup {key}) \ {pepGenerationKey}) <= MaxEntries
    BY <2>5, SmallFits
  <2> QED
    BY <2>1, <2>2, <2>5, <2>6
<1>4. CASE ~(key \notin D /\ Cardinality(D) >= MaxEntries)
  <2>1. cached' = [cached EXCEPT ![r] = Put(r, key, value)]
    BY <1>4 DEF MemorySet
  <2>2. DOMAIN cached'[r] = D \cup {key}
    <3>1. cached'[r] = Put(r, key, value)
      BY <1>1, <2>1
    <3> QED
      BY <3>1 DEF Put
  <2> HIDE DEF D
  <2>3. IsFiniteSet(D \cup {key}) /\ Cardinality((D \cup {key}) \ {pepGenerationKey}) <= MaxEntries
    <3>1. CASE key \in D
      <4>1. D \cup {key} = D
        BY <3>1
      <4> QED
        BY <1>2, <4>1
    <3>2. CASE key \notin D
      <4>1. IsFiniteSet(D \cup {key}) /\ Cardinality(D \cup {key}) = Cardinality(D) + 1
        BY <1>2, <3>2, FS_AddElement
      <4>2. Cardinality(D \cup {key}) <= MaxEntries
        BY <1>1, <1>2, <1>4, <3>2, <4>1
      <4> QED
        BY <4>1, <4>2, SmallFits
    <3> QED
      BY <3>1, <3>2
  <2> QED
    BY <2>1, <2>2, <2>3
<1> QED
  BY <1>3, <1>4

\* Every step keeps every memory within its bound.
LEMMA MemoryStaysBounded ==
    ASSUME CacheShape, MemoryBounded, AccessNext \/ UNCHANGED accessVars
    PROVE  MemoryBounded'
<1>1. cached = [k \in Instance |-> cached[k]] /\ \A r \in Replica : r \in Instance /\ r # Redis
  BY AccessAssumption DEF CacheShape, CachesTyped, Instance
<1>2. \A r \in Replica : IsFiniteSet(DOMAIN cached[r]) /\ Cardinality(DOMAIN cached[r] \ {pepGenerationKey}) <= MaxEntries
  BY DEF MemoryBounded
<1> SUFFICES ASSUME NEW r \in Replica
             PROVE  IsFiniteSet(DOMAIN cached'[r]) /\ Cardinality(DOMAIN cached'[r] \ {pepGenerationKey}) <= MaxEntries
  BY DEF MemoryBounded
<1>3. CASE cached'[r] = cached[r]
  BY <1>2, <1>3
<1>4. ASSUME NEW k \in Instance, Loses(k)
      PROVE  DOMAIN cached'[r] \in SUBSET DOMAIN cached[r]
  BY <1>1, <1>4 DEF Loses
<1>5. CASE Bumps(CacheOf(writer.replica)) /\ cached'[r] # cached[r]
  <2>1. DOMAIN cached'[r] = DOMAIN cached[r] \cup {pepGenerationKey}
    BY <1>1, <1>5 DEF Bumps
  <2>2. DOMAIN cached'[r] \ {pepGenerationKey} = DOMAIN cached[r] \ {pepGenerationKey}
    BY <2>1
  <2>3. IsFiniteSet(DOMAIN cached[r] \cup {pepGenerationKey})
    BY <1>2, FS_AddElement
  <2>4. Cardinality(DOMAIN cached'[r] \ {pepGenerationKey}) <= MaxEntries
    BY <1>2, <2>2
  <2> QED
    BY <2>1, <2>3, <2>4
<1>6. ASSUME NEW c \in AccessCall, CacheSet(CacheOf(access[c].replica), access[c].key, access[c].value),
             cached'[r] # cached[r]
      PROVE  IsFiniteSet(DOMAIN cached'[r]) /\ Cardinality(DOMAIN cached'[r] \ {pepGenerationKey}) <= MaxEntries
  <2>1. CASE CacheOf(access[c].replica) = Redis
    BY <1>1, <1>6, <2>1 DEF CacheSet, RedisSet
  <2>2. CASE CacheOf(access[c].replica) # Redis
    <3>1. CacheOf(access[c].replica) \in Replica
      BY <2>2, CacheOfReplica DEF CacheShape, CallsTyped, CallRecord, Instance
    <3>2. MemorySet(CacheOf(access[c].replica), access[c].key, access[c].value)
      BY <1>6, <2>2 DEF CacheSet
    <3>3. CacheOf(access[c].replica) = r
      BY <1>1, <1>6, <3>1, <3>2, SetFits
    <3> QED
      BY <1>1, <3>1, <3>2, <3>3, SetFits
  <2> QED
    BY <2>1, <2>2
<1>7. DOMAIN cached'[r] \in SUBSET DOMAIN cached[r]
         => IsFiniteSet(DOMAIN cached'[r]) /\ Cardinality(DOMAIN cached'[r] \ {pepGenerationKey}) <= MaxEntries
  BY <1>2, FewerFit
<1> QED
  BY <1>3, <1>4, <1>5, <1>6, <1>7, BackendMoves

\* The bounds of the model.
LEMMA RequestsStayBounded ==
    ASSUME CacheShape, RequestsBounded, AccessNext \/ UNCHANGED accessVars
    PROVE  RequestsBounded'
<1>1. MaxAccessRequests \in Nat /\ MaxAccessFaults \in Nat
  BY AccessAssumption
<1>2. accessAsked' = accessAsked \/ (accessAsked < MaxAccessRequests /\ accessAsked' = accessAsked + 1)
  BY DEF AccessNext, ObjectChanges, HandleParent, bump, WriterFails, Expire, accessVars, CheckKey, GetTenant, SetOrgStatus,
     AccessStep, AccessCheck, Lookup, Invalidate, AnswerAccess, BeginAccess
<1>3. accessFaults' = accessFaults \/ (accessFaults < MaxAccessFaults /\ accessFaults' = accessFaults + 1)
  BY DEF AccessNext, ObjectChanges, HandleParent, bump, WriterFails, Expire, accessVars, CheckKey, GetTenant, SetOrgStatus,
     AccessStep, AccessCheck, Lookup, Invalidate, AnswerAccess, cacheError
<1>4. object' \in [AccessObject -> {"absent", "live", "gone"}]
  <2>1. CASE ObjectChanges
    BY <2>1 DEF ObjectChanges, RequestsBounded
  <2>2. CASE UNCHANGED object
    BY <2>2 DEF RequestsBounded
  <2>3. ObjectChanges \/ UNCHANGED object
    BY DEF AccessNext, HandleParent, bump, WriterFails, Expire, accessVars, CheckKey, GetTenant, SetOrgStatus,
       AccessStep, AccessCheck, Lookup, Invalidate, AnswerAccess, accessSame
  <2> QED
    BY <2>1, <2>2, <2>3
<1> QED
  BY <1>1, <1>2, <1>3, <1>4 DEF RequestsBounded

\* AccessTypeOK, for every set of replicas and objects and every capacity: among it, that a
\* memory never holds more than MaxEntries entries beside its generation.
THEOREM AccessTypeCorrect == AccessSpec => []AccessTypeOK
<1>1. AccessInit => MemoryBounded /\ RequestsBounded
  <2> SUFFICES ASSUME AccessInit PROVE MemoryBounded /\ RequestsBounded
    OBVIOUS
  <2>1. \A r \in Replica : DOMAIN cached[r] = {} /\ {} \ {pepGenerationKey} = {}
    BY DEF AccessInit, Instance
  <2>2. MemoryBounded
    BY <2>1, FS_EmptySet, AccessAssumption DEF MemoryBounded
  <2>3. RequestsBounded
    BY AccessAssumption DEF AccessInit, RequestsBounded
  <2> QED
    BY <2>2, <2>3
<1>2. CacheInv /\ MemoryBounded /\ RequestsBounded /\ [AccessNext]_accessVars => (MemoryBounded /\ RequestsBounded)'
  BY MemoryStaysBounded, RequestsStayBounded DEF CacheInv
<1>3. CacheInv /\ MemoryBounded /\ RequestsBounded => AccessTypeOK
  <2> SUFFICES ASSUME CacheInv, MemoryBounded, RequestsBounded PROVE AccessTypeOK
    OBVIOUS
  <2>1. CallsTyped /\ CachesTyped
    BY DEF CacheInv, CacheShape
  <2>2. \A x \in CacheKeys : x[1] \in {"gen", "pep", "org"}
    BY DEF CacheKeys, PepKeys, pepKey, pepGenerationKey, orgCacheKey
  <2>3. \A c \in AccessCall : access[c] \in CallRecord
    BY <2>1 DEF CallsTyped
  <2>4. \A k \in Instance : \A x \in DOMAIN cached[k] : x[1] \in {"gen", "pep", "org"}
    BY <2>1, <2>2 DEF CachesTyped
  <2> QED
    BY <2>1, <2>3, <2>4 DEF AccessTypeOK, CallsTyped, CallRecord, MemoryBounded, RequestsBounded
<1> QED
  BY <1>1, <1>2, <1>3, CacheInvariant, PTL DEF AccessSpec

-----------------------------------------------------------------------------
(* Approvals: the inductive invariant *)

\* What a commit of Decide or Cancel relies on: the authorization found before
\* the transaction still holds, because the requester of a row never changes.
OpsAuthorized ==
    \A a \in Actor : op[a] # NoOp =>
        /\ st[op[a].req] # "none"
        /\ op[a].kind \in {"approved", "rejected"} => MayDecide(a, op[a].req)

ApprovalsInv == ApprovalsTypeOK /\ OneOutcome /\ OpsAuthorized /\ NoSelfDecision

-----------------------------------------------------------------------------

\* The conditional UPDATE and its event keep rows and log well typed.
LEMMA SettleRowType ==
  ASSUME ApprovalsTypeOK, NEW q \in Request, NEW s \in Settled, SettleRow(q, s)
  PROVE  /\ st' \in [Request -> {"none", "pending"} \cup Settled]
         /\ log' \in [Request -> Seq(Settled)]
<1>1. CASE st[q] = "pending"
  <2>1. Append(log[q], s) \in Seq(Settled)
    BY DEF ApprovalsTypeOK
  <2>2. QED
    BY <1>1, <2>1 DEF ApprovalsTypeOK, SettleRow
<1>2. CASE st[q] # "pending"
  BY <1>2 DEF ApprovalsTypeOK, SettleRow
<1>3. QED
  BY <1>1, <1>2

\* Every step preserves the type invariant.
LEMMA TypePreserved ==
  ASSUME ApprovalsTypeOK, [ApprovalsNext]_approvalVars
  PROVE  ApprovalsTypeOK'
<1> USE DEF ApprovalsTypeOK
<1>1. CASE UNCHANGED approvalVars
  BY <1>1 DEF approvalVars
<1>2. ASSUME NEW q \in Request, NEW a \in Actor, CreateRequest(q, a)
      PROVE  ApprovalsTypeOK'
  BY <1>2 DEF CreateRequest
<1>3. ASSUME NEW a \in Actor, NEW q \in Request, BeginCancel(a, q)
      PROVE  ApprovalsTypeOK'
  <2>1. op' \in [Actor -> [kind : OpKind, req : Request] \cup {NoOp}]
    BY <1>3 DEF BeginCancel, OpKind
  <2>2. QED
    BY <1>3, <2>1 DEF BeginCancel
<1>4. ASSUME NEW a \in Actor, NEW q \in Request,
             NEW s \in {"approved", "rejected"}, BeginDecide(a, q, s)
      PROVE  ApprovalsTypeOK'
  <2>1. op' \in [Actor -> [kind : OpKind, req : Request] \cup {NoOp}]
    BY <1>4 DEF BeginDecide, OpKind
  <2>2. QED
    BY <1>4, <2>1 DEF BeginDecide
<1>5. ASSUME NEW a \in Actor, CommitOp(a)
      PROVE  ApprovalsTypeOK'
  <2>1. op[a] \in [kind : OpKind, req : Request]
    BY <1>5 DEF CommitOp
  <2>2. op[a].req \in Request /\ op[a].kind \in Settled
    BY <2>1 DEF OpKind, Settled
  <2>3. op' \in [Actor -> [kind : OpKind, req : Request] \cup {NoOp}]
    BY <1>5 DEF CommitOp
  <2>4. st' \in [Request -> {"none", "pending"} \cup Settled] /\ log' \in [Request -> Seq(Settled)]
    BY <1>5, <2>2, SettleRowType DEF CommitOp
  <2>5. approver' \in [Request -> Actor \cup {NoActor}]
    BY <1>5, <2>2 DEF CommitOp
  <2>6. QED
    BY <1>5, <2>3, <2>4, <2>5 DEF CommitOp
<1>6. ASSUME NEW a \in Actor, AbortOp(a)
      PROVE  ApprovalsTypeOK'
  BY <1>6 DEF AbortOp
<1>7. ASSUME NEW q \in Request, PassDue(q)
      PROVE  ApprovalsTypeOK'
  BY <1>7 DEF PassDue
<1>8. ASSUME NEW w \in Sweeper, SweepList(w)
      PROVE  ApprovalsTypeOK'
  BY <1>8 DEF SweepList
<1>9. ASSUME NEW w \in Sweeper, NEW q \in Request, SweepOne(w, q)
      PROVE  ApprovalsTypeOK'
  <2>1. st' \in [Request -> {"none", "pending"} \cup Settled] /\ log' \in [Request -> Seq(Settled)]
    BY <1>9, SettleRowType DEF SweepOne, Settled
  <2>2. QED
    BY <1>9, <2>1 DEF SweepOne
<1>10. ASSUME NEW w \in Sweeper, SweepAbort(w)
       PROVE  ApprovalsTypeOK'
  BY <1>10 DEF SweepAbort
<1>11. QED
  BY <1>1, <1>2, <1>3, <1>4, <1>5, <1>6, <1>7, <1>8, <1>9, <1>10
     DEF ApprovalsNext, Create, Workflow, Call, Sweep

\* What the conditional UPDATE does to a request that has not been announced:
\* it is the step Settle of the contract, or nothing.
LEMMA SettleRowStep ==
  ASSUME ApprovalsTypeOK, OneOutcome, NEW q \in Request, NEW s \in Settled, SettleRow(q, s)
  PROVE  \/ /\ st[q] = "pending"
            /\ st' = [st EXCEPT ![q] = s]
            /\ log' = [log EXCEPT ![q] = <<s>>]
         \/ /\ st[q] # "pending"
            /\ st' = st /\ log' = log
<1>1. CASE st[q] = "pending"
  <2>1. log[q] = <<>>
    BY <1>1 DEF OneOutcome, Settled
  <2>2. Append(log[q], s) = <<s>>
    BY <2>1
  <2>3. QED
    BY <1>1, <2>2 DEF SettleRow
<1>2. CASE st[q] # "pending"
  BY <1>2 DEF SettleRow
<1>3. QED
  BY <1>1, <1>2

\* A settlement keeps one outcome per request.
LEMMA SettleRowOutcome ==
  ASSUME ApprovalsTypeOK, OneOutcome, NEW q \in Request, NEW s \in Settled, SettleRow(q, s)
  PROVE  OneOutcome'
<1>1. CASE /\ st[q] = "pending"
           /\ st' = [st EXCEPT ![q] = s]
           /\ log' = [log EXCEPT ![q] = <<s>>]
  BY <1>1 DEF ApprovalsTypeOK, OneOutcome
<1>2. CASE st' = st /\ log' = log
  BY <1>2 DEF OneOutcome
<1>3. QED
  BY <1>1, <1>2, SettleRowStep

\* The operation an actor has in flight names a request and an outcome.
LEMMA OpKnown ==
  ASSUME ApprovalsTypeOK, NEW a \in Actor, op[a] # NoOp
  PROVE  op[a].req \in Request /\ op[a].kind \in OpKind /\ op[a].kind \in Settled
<1>1. op[a] \in [kind : OpKind, req : Request]
  BY DEF ApprovalsTypeOK
<1>2. QED
  BY <1>1 DEF OpKind, Settled

\* Every step preserves OneOutcome.
LEMMA OutcomePreserved ==
  ASSUME ApprovalsTypeOK, OneOutcome, [ApprovalsNext]_approvalVars
  PROVE  OneOutcome'
<1>1. CASE UNCHANGED <<st, log>>
  BY <1>1 DEF OneOutcome
<1>2. ASSUME NEW q \in Request, NEW a \in Actor, CreateRequest(q, a)
      PROVE  OneOutcome'
  BY <1>2 DEF CreateRequest, OneOutcome, ApprovalsTypeOK, Settled
<1>3. ASSUME NEW a \in Actor, CommitOp(a)
      PROVE  OneOutcome'
  BY <1>3, OpKnown, SettleRowOutcome DEF CommitOp
<1>4. ASSUME NEW w \in Sweeper, NEW q \in Request, SweepOne(w, q)
      PROVE  OneOutcome'
  BY <1>4, SettleRowOutcome DEF SweepOne, Settled
<1>5. QED
  BY <1>1, <1>2, <1>3, <1>4
     DEF ApprovalsNext, approvalVars, Create, Workflow, Call, Sweep, BeginCancel, BeginDecide,
         AbortOp, PassDue, SweepList, SweepAbort

\* A step never changes the requester of a row that exists, and never removes
\* a row.
LEMMA RequesterFixed ==
  ASSUME ApprovalsTypeOK, OneOutcome, [ApprovalsNext]_approvalVars, NEW p \in Request
  PROVE  st[p] # "none" => st'[p] # "none" /\ requester'[p] = requester[p]
<1>1. CASE UNCHANGED <<st, requester>>
  BY <1>1
<1>2. ASSUME NEW q \in Request, NEW a \in Actor, CreateRequest(q, a)
      PROVE  st[p] # "none" => st'[p] # "none" /\ requester'[p] = requester[p]
  BY <1>2 DEF CreateRequest, ApprovalsTypeOK
<1>3. ASSUME NEW q \in Request, NEW s \in Settled, SettleRow(q, s), requester' = requester
      PROVE  st[p] # "none" => st'[p] # "none" /\ requester'[p] = requester[p]
  BY <1>3 DEF SettleRow, ApprovalsTypeOK, Settled
<1>4. ASSUME NEW a \in Actor, CommitOp(a)
      PROVE  st[p] # "none" => st'[p] # "none" /\ requester'[p] = requester[p]
  BY <1>3, <1>4, OpKnown DEF CommitOp
<1>5. ASSUME NEW w \in Sweeper, NEW q \in Request, SweepOne(w, q)
      PROVE  st[p] # "none" => st'[p] # "none" /\ requester'[p] = requester[p]
  BY <1>3, <1>5 DEF SweepOne, Settled
<1>6. QED
  BY <1>1, <1>2, <1>4, <1>5
     DEF ApprovalsNext, approvalVars, Create, Workflow, Call, Sweep, BeginCancel, BeginDecide,
         AbortOp, PassDue, SweepList, SweepAbort

\* Authorizations found before a transaction stay valid until it commits.
LEMMA AuthorizationPreserved ==
  ASSUME ApprovalsInv, [ApprovalsNext]_approvalVars
  PROVE  OpsAuthorized'
<1> USE DEF ApprovalsInv
<1>1. SUFFICES ASSUME NEW b \in Actor, op'[b] # NoOp
               PROVE  /\ st'[op'[b].req] # "none"
                      /\ op'[b].kind \in {"approved", "rejected"} => MayDecide(b, op[b].req)'
  BY DEF OpsAuthorized
<1>2. CASE op'[b] = op[b]
  <2>1. op[b].req \in Request
    BY <1>1, <1>2, OpKnown
  <2>2. /\ st[op[b].req] # "none"
        /\ op[b].kind \in {"approved", "rejected"} => MayDecide(b, op[b].req)
    BY <1>1, <1>2 DEF OpsAuthorized
  <2>3. st'[op[b].req] # "none" /\ requester'[op[b].req] = requester[op[b].req]
    BY <2>1, <2>2, RequesterFixed
  <2>4. QED
    BY <1>2, <2>2, <2>3 DEF MayDecide, AuthorizeLifecycleApprover, CheckApprover
<1>3. ASSUME NEW a \in Actor, NEW q \in Request, BeginCancel(a, q)
      PROVE  op'[b] = op[b] \/ (op'[b].req = q /\ op'[b].kind = "cancelled" /\ st'[q] # "none")
  BY <1>3 DEF BeginCancel, ApprovalsTypeOK
<1>4. ASSUME NEW a \in Actor, NEW q \in Request,
             NEW s \in {"approved", "rejected"}, BeginDecide(a, q, s)
      PROVE  op'[b] = op[b] \/ (op'[b].req = q /\ MayDecide(b, op[b].req)' /\ st'[q] # "none")
  BY <1>4 DEF BeginDecide, ApprovalsTypeOK, MayDecide, AuthorizeLifecycleApprover, CheckApprover
<1>5. ASSUME NEW a \in Actor, CommitOp(a) \/ AbortOp(a)
      PROVE  op'[b] = op[b]
  BY <1>1, <1>5 DEF CommitOp, AbortOp, ApprovalsTypeOK
<1>6. CASE op' = op
  BY <1>2, <1>6
<1>7. QED
  BY <1>2, <1>3, <1>4, <1>5, <1>6
     DEF ApprovalsNext, approvalVars, Create, Workflow, Call, Sweep, CreateRequest,
         PassDue, SweepList, SweepOne, SweepAbort

\* A decision is committed by the actor who was authorized, never the requester.
LEMMA SeparationPreserved ==
  ASSUME ApprovalsInv, [ApprovalsNext]_approvalVars
  PROVE  NoSelfDecision'
<1> USE DEF ApprovalsInv
<1>1. SUFFICES ASSUME NEW p \in Request, Policy[p] # "platform",
                      st'[p] \in {"approved", "rejected"}
               PROVE  approver'[p] # requester'[p] /\ approver'[p] # NoActor
  BY DEF NoSelfDecision
<1>2. CASE st'[p] = st[p] /\ approver'[p] = approver[p]
  <2>1. requester'[p] = requester[p]
    BY <1>1, <1>2, RequesterFixed
  <2>2. QED
    BY <1>1, <1>2, <2>1 DEF NoSelfDecision
<1>3. ASSUME NEW a \in Actor, CommitOp(a)
      PROVE  approver'[p] # requester'[p] /\ approver'[p] # NoActor
  <2>1. op[a] # NoOp /\ op[a].req \in Request /\ op[a].kind \in Settled
    BY <1>3, OpKnown DEF CommitOp
  <2>2. CASE st[op[a].req] = "pending" /\ op[a].req = p
    <3>1. st'[p] = op[a].kind
      BY <1>3, <2>1, <2>2 DEF CommitOp, SettleRow, ApprovalsTypeOK
    <3>2. approver'[p] = a /\ requester' = requester
      BY <1>1, <1>3, <2>2, <3>1 DEF CommitOp, ApprovalsTypeOK
    <3>3. MayDecide(a, p)
      BY <1>1, <2>1, <2>2, <3>1 DEF OpsAuthorized
    <3>4. Policy[p] \in {"lifecycle", "peer"}
      BY <1>1, ApprovalsAssumption
    <3>5. a # requester[p]
      BY <3>3, <3>4 DEF MayDecide, AuthorizeLifecycleApprover, CheckApprover
    <3>6. QED
      BY <3>2, <3>5, ApprovalsAssumption
  <2>3. CASE ~(st[op[a].req] = "pending" /\ op[a].req = p)
    BY <1>2, <1>3, <2>1, <2>3 DEF CommitOp, SettleRow, ApprovalsTypeOK
  <2>4. QED
    BY <2>2, <2>3
<1>4. ASSUME NEW w \in Sweeper, NEW q \in Request, SweepOne(w, q)
      PROVE  approver'[p] # requester'[p] /\ approver'[p] # NoActor
  <2>1. st'[p] = st[p] \/ st'[p] = "expired"
    BY <1>4 DEF SweepOne, SettleRow, ApprovalsTypeOK
  <2>2. QED
    BY <1>1, <1>2, <1>4, <2>1 DEF SweepOne
<1>5. ASSUME NEW q \in Request, NEW a \in Actor, CreateRequest(q, a)
      PROVE  approver'[p] # requester'[p] /\ approver'[p] # NoActor
  BY <1>1, <1>2, <1>5 DEF CreateRequest, ApprovalsTypeOK
<1>6. CASE UNCHANGED <<st, approver>>
  BY <1>2, <1>6
<1>7. QED
  BY <1>3, <1>4, <1>5, <1>6
     DEF ApprovalsNext, approvalVars, Create, Workflow, Call, Sweep, BeginCancel, BeginDecide,
         AbortOp, PassDue, SweepList, SweepAbort

-----------------------------------------------------------------------------

\* The inductive invariant holds initially ...
LEMMA InitIInv == ApprovalsInit => ApprovalsInv
<1> SUFFICES ASSUME ApprovalsInit PROVE ApprovalsInv
  OBVIOUS
<1>1. ApprovalsTypeOK
  BY DEF ApprovalsInit, ApprovalsTypeOK
<1>2. OneOutcome /\ NoSelfDecision
  BY DEF ApprovalsInit, OneOutcome, NoSelfDecision, Settled
<1>3. OpsAuthorized
  BY DEF ApprovalsInit, OpsAuthorized
<1>4. QED
  BY <1>1, <1>2, <1>3 DEF ApprovalsInv

\* ... and is preserved by every step.
LEMMA NextIInv == ApprovalsInv /\ [ApprovalsNext]_approvalVars => ApprovalsInv'
<1> SUFFICES ASSUME ApprovalsInv, [ApprovalsNext]_approvalVars PROVE ApprovalsInv'
  OBVIOUS
<1>1. ApprovalsTypeOK' /\ OneOutcome'
  BY TypePreserved, OutcomePreserved DEF ApprovalsInv
<1>2. QED
  BY <1>1, AuthorizationPreserved, SeparationPreserved DEF ApprovalsInv

\* Every reachable state of the workflow satisfies the inductive invariant.
THEOREM ApprovalsInvariant == ApprovalsSpec => []ApprovalsInv
BY InitIInv, NextIInv, PTL DEF ApprovalsSpec

\* The state of the workflow (approval_requests rows, calls and sweeps in
\* progress, events) is well typed.
THEOREM ApprovalsTypeCorrect == ApprovalsSpec => []ApprovalsTypeOK
<1>1. ApprovalsInv => ApprovalsTypeOK
  BY DEF ApprovalsInv
<1>2. QED
  BY ApprovalsInvariant, <1>1, PTL

\* However Decide, Cancel and ExpireSweep race, a request has exactly one
\* announced outcome, the one its row records.
THEOREM SingleOutcome == ApprovalsSpec => []OneOutcome
<1>1. ApprovalsInv => OneOutcome
  BY DEF ApprovalsInv
<1>2. QED
  BY ApprovalsInvariant, <1>1, PTL

\* The requester of a lifecycle or peer-reviewed operation never decides it.
THEOREM Separation == ApprovalsSpec => []NoSelfDecision
<1>1. ApprovalsInv => NoSelfDecision
  BY DEF ApprovalsInv
<1>2. QED
  BY ApprovalsInvariant, <1>1, PTL

\* The detailed workflow implements the contract its clients rely on.
THEOREM ImplementsContract == ApprovalsSpec => ContractSpec
<1>1. ApprovalsInit => Contract!ContractInit
  BY DEF ApprovalsInit, Contract!ContractInit
<1>2. ApprovalsInv /\ [ApprovalsNext]_approvalVars => [Contract!ContractNext]_(Contract!contractVars)
  <2> SUFFICES ASSUME ApprovalsInv, [ApprovalsNext]_approvalVars
               PROVE  Contract!ContractNext \/ UNCHANGED <<st, log>>
    BY DEF Contract!contractVars
  <2>1. ASSUME NEW q \in Request, NEW s \in Settled, SettleRow(q, s)
        PROVE  Contract!ContractNext \/ UNCHANGED <<st, log>>
    <3>1. s \in Contract!Settlement
      BY DEF Settled, Contract!Settlement
    <3>2. CASE /\ st[q] = "pending"
               /\ st' = [st EXCEPT ![q] = s]
               /\ log' = [log EXCEPT ![q] = <<s>>]
      BY <3>1, <3>2 DEF Contract!ContractNext, Contract!Settle
    <3>3. CASE st' = st /\ log' = log
      BY <3>3
    <3>4. QED
      BY <2>1, <3>2, <3>3, SettleRowStep DEF ApprovalsInv
  <2>2. ASSUME NEW q \in Request, NEW a \in Actor, CreateRequest(q, a)
        PROVE  Contract!ContractNext
    BY <2>2 DEF CreateRequest, Contract!ContractNext, Contract!Open
  <2>3. ASSUME NEW a \in Actor, CommitOp(a)
        PROVE  Contract!ContractNext \/ UNCHANGED <<st, log>>
    BY <2>1, <2>3, OpKnown DEF CommitOp, ApprovalsInv
  <2>4. ASSUME NEW w \in Sweeper, NEW q \in Request, SweepOne(w, q)
        PROVE  Contract!ContractNext \/ UNCHANGED <<st, log>>
    BY <2>1, <2>4 DEF SweepOne, Settled
  <2>5. QED
    BY <2>2, <2>3, <2>4
       DEF ApprovalsNext, approvalVars, Create, Workflow, Call, Sweep, BeginCancel, BeginDecide,
           AbortOp, PassDue, SweepList, SweepAbort
<1>3. QED
  BY ApprovalsInvariant, <1>1, <1>2, PTL DEF ApprovalsSpec, ContractSpec, Contract!ContractSpec
=============================================================================
