------------------------------- MODULE Caller -------------------------------
(***************************************************************************)
(* The caller of an HTTP handler: internal/httpserver puts the identity of *)
(* a validated token into the request, and a handler asks                  *)
(* internal/authz whether it holds a relation on the organization.  A user *)
(* holds one built-in role of the organization, or none; a role's grants   *)
(* are constant here.                                                      *)
(***************************************************************************)
CONSTANTS User,     \* subjects of validated tokens
          RoleOf,   \* the built-in role each holds, "none" for a stranger
          TeamsOf   \* the teams whose group each user's token names

\* The relations of the permission catalog that handlers ask for.
Relation ==
    {"tenant_read", "tenant_settings_write", "tenant_members_manage", "tenant_teams_manage",
     "tenant_rbac_manage", "tenant_identity_manage", "tenant_notifications_manage",
     "tenant_admin", "clusters_register", "clusters_kubectl", "cloudaccounts_manage",
     "zones_manage", "fleet_manage", "policies_manage", "secretstores_manage",
     "extensions_manage", "extensions_invoke", "catalog_manage", "deployments_create",
     "approvals_manage"}

\* BuiltinRoles
BuiltinRolePermissions(role) ==
    CASE role = "admin" -> Relation
      [] role = "operator" -> Relation \ {"tenant_settings_write", "tenant_teams_manage",
             "tenant_rbac_manage", "tenant_identity_manage", "tenant_notifications_manage",
             "tenant_admin"}
      [] role = "editor" -> {"tenant_read", "catalog_manage", "deployments_create",
                             "extensions_invoke", "approvals_manage"}
      [] role = "viewer" -> {"tenant_read"}
      [] OTHER -> {}

ASSUME CallerAssumption ==
    DOMAIN RoleOf = User /\ DOMAIN TeamsOf = User

\* Identity.MemberOf: the organization claim of the token.
MemberOf(u) == RoleOf[u] # "none"

\* Authorizer.Check of a relation on the organization.
Check(u, relation) == relation \in BuiltinRolePermissions(RoleOf[u])

\* CallerTeamIDs: the teams whose group the token names.
CallerTeamIDs(u) == TeamsOf[u]

\* What every handler of an organization asks first.
Authorized(u, relation) == MemberOf(u) /\ Check(u, relation)
=============================================================================
