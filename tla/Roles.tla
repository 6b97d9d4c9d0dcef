------------------------------- MODULE Roles --------------------------------
(***************************************************************************)
(* Who may call what: the checks of auth/roles.py, as functions of what    *)
(* the tables users, organisation_managers and user_roles say of one user, *)
(* for one project and the organisation it belongs to, and the hooks with  *)
(* which the management frontend asks the same of its own copy.            *)
(***************************************************************************)
EXTENDS Naturals

CONSTANTS
    None,        \* NULL, null and undefined
    Public       \* projects.visibility is PUBLIC

UserRole == {"READ_ONLY", "MAPPER", "ADMIN"}

\* role_hierarchy
Level == [MAPPER |-> 0, VALIDATOR |-> 1, FIELD_MANAGER |-> 2,
          ASSOCIATE_PROJECT_MANAGER |-> 3, PROJECT_MANAGER |-> 4]

ProjectRole == DOMAIN Level

ASSUME RolesAssumption == Public \in BOOLEAN /\ None \notin ProjectRole

\* users.role, a row of organisation_managers, the row of user_roles for the project.
Rights == [role : UserRole, manages : BOOLEAN, project_role : ProjectRole \union {None}]

\* The three EXISTS: which of the organisation, the project and a role the endpoint names.
check_access(r, org_id, project_id, role) ==
  \/ r.role = "ADMIN"
  \/ /\ r.role # "READ_ONLY"
     /\ \/ org_id /\ r.manages
        \/ /\ project_id /\ role # None /\ r.project_role # None
           /\ Level[r.project_role] >= Level[role]
        \/ ~org_id /\ project_id /\ r.manages

super_admin(r) == check_access(r, FALSE, FALSE, None)

\* check_org_admin looks for an approved organisation first: nobody passes for another one,
\* administrators included.
org_admin(r, approved) == approved /\ check_access(r, TRUE, FALSE, None)

wrap_check_access(r, role) == check_access(r, FALSE, TRUE, role)

project_manager(r) == wrap_check_access(r, "PROJECT_MANAGER")

\* associate_project_manager, field_manager and validator: no endpoint asks for them yet.
at_least(r, role) == wrap_check_access(r, role)

\* A public project is open to everybody, READ_ONLY users included.
mapper(r) == Public \/ wrap_check_access(r, "MAPPER")

\* Whoever may download: is_author and has_events are two more EXISTS.
project_contributors(r, is_author, has_events) ==
  r.role = "ADMIN" \/ r.manages \/ r.project_role = "PROJECT_MANAGER" \/ is_author \/ has_events

\* The hooks; r is authDetails.  Neither looks at READ_ONLY.
useIsOrganizationAdmin(r) == r.role = "ADMIN" \/ r.manages

useIsProjectManager(r) == r.role = "ADMIN" \/ r.project_role = "PROJECT_MANAGER"
=============================================================================
