---------------------------- MODULE AccessControl ----------------------------
(***************************************************************************)
(* Users, roles, permissions and menus: backend/app/modules/security/      *)
(* router.py and service.py, with the seed that compose runs before every  *)
(* start of the service (backend/app/db/seed.py).                          *)
(*                                                                         *)
(* A handler reads a row with its associations, and its commit sends the   *)
(* difference between what it read and what it wants: columns that change, *)
(* associations to insert and to delete.  Nothing is locked in between.    *)
(*                                                                         *)
(* Every permission and menu is protected, since only the seed creates     *)
(* them: none is ever inactive or deleted.  Which of the people who may    *)
(* call a handler calls it is left open.                                   *)
(***************************************************************************)
EXTENDS Naturals

CONSTANTS
    Users, Roles,       \* identities of rows of users and roles
    Admin,              \* the protected account
    Administrator,      \* the protected role
    Permissions,        \* codes of the seeded permissions
    Recovery,           \* RECOVERY_PERMISSION_CODES
    Names,              \* names a role can have
    AdministratorName,  \* the name the seed gives the protected role
    Paths,              \* paths a menu can have
    Menus,              \* the seeded menus, 1..n in the order of their identifiers
    SeededPath,         \* the path the seed gives each
    Requests,           \* HTTP calls that can be in flight at once
    Nobody              \* stands for "no row"

ASSUME AdminAssumption == Admin \in Users /\ Administrator \in Roles
ASSUME RecoveryAssumption == Recovery \subseteq Permissions
ASSUME NameAssumption == AdministratorName \in Names
ASSUME MenuAssumption ==
    /\ Menus \subseteq Nat
    /\ SeededPath \in [Menus -> Paths]
    /\ \A m, n \in Menus : SeededPath[m] = SeededPath[n] => m = n
ASSUME NobodyAssumption == Nobody \notin Users \cup Roles

VARIABLES
    serving,  \* whether the service has started
    user,     \* Users -> [exists, active, roles]
    role,     \* Roles -> [exists, active, name, permissions]
    path,     \* Menus -> the path of the menu
    request   \* Requests -> [step, of, user, toUser, role, toRole]

vars == <<serving, user, role, path, request>>

-----------------------------------------------------------------------------
(* Records *)

UserRows == [exists : BOOLEAN, active : BOOLEAN, roles : SUBSET Roles]
RoleRows == [exists : BOOLEAN, active : BOOLEAN, name : Names,
             permissions : SUBSET Permissions]

NoUser == [exists |-> FALSE, active |-> FALSE, roles |-> {}]
NoRole == [exists |-> FALSE, active |-> FALSE, name |-> AdministratorName,
           permissions |-> {}]

Steps == {"idle", "saving user", "deleting user", "saving role", "deleting role"}

\* "of": the row the call is about; "user" and "role": that row as it was read;
\* "toUser" and "toRole": what it is to become.
IdleRequest == [step |-> "idle", of |-> Nobody, user |-> NoUser, toUser |-> NoUser,
                role |-> NoRole, toRole |-> NoRole]

\* The catalog that the seed leaves in an empty database.
Init ==
    /\ serving = TRUE
    /\ user = [u \in Users |-> IF u = Admin
               THEN [exists |-> TRUE, active |-> TRUE, roles |-> {Administrator}]
               ELSE NoUser]
    /\ role = [x \in Roles |-> IF x = Administrator
               THEN [exists |-> TRUE, active |-> TRUE, name |-> AdministratorName,
                     permissions |-> Permissions]
               ELSE NoRole]
    /\ path = SeededPath
    /\ request = [r \in Requests |-> IdleRequest]

Finish(r) == request' = [request EXCEPT ![r] = IdleRequest]

Fail(r) == Finish(r) /\ UNCHANGED <<serving, user, role, path>>

Call(r, call) ==
    /\ serving
    /\ request[r].step = "idle"
    /\ request' = [request EXCEPT ![r] = call]
    /\ UNCHANGED <<serving, user, role, path>>

\* What the difference between "before" and "after" makes of the set that is there
\* now, and whether every association it inserts is new and every one it
\* deletes is there.
Patched(now, before, after) == (now \ (before \ after)) \cup (after \ before)

Fits(now, before, after) ==
    /\ (after \ before) \cap now = {}
    /\ before \ after \subseteq now

\* A column is written when it differs from the copy.
Column(now, before, after) == IF after = before THEN now ELSE after

-----------------------------------------------------------------------------
(* Users *)

SaveUser(r, u, to) ==
    Call(r, [IdleRequest EXCEPT !.step = "saving user", !.of = u,
                                !.user = user[u], !.toUser = to])

\* The roles that can be assigned.
ActiveRoles == {x \in Roles : role[x].exists /\ role[x].active}

\* POST /users
CreateUser(r, u, roles) ==
    /\ ~user[u].exists
    /\ \A q \in Requests : request[q].of # u
    /\ roles \subseteq ActiveRoles
    /\ SaveUser(r, u, [exists |-> TRUE, active |-> TRUE, roles |-> roles])

\* PATCH /users/{id}: the protected account stays active and keeps its roles.
\* Roles that are named have to be active; a call may also leave them as they are.
UpdateUser(r, u, active, roles) ==
    /\ user[u].exists
    /\ u = Admin => active /\ roles = user[u].roles
    /\ roles \subseteq ActiveRoles \/ roles = user[u].roles
    /\ SaveUser(r, u, [user[u] EXCEPT !.active = active, !.roles = roles])

\* The transaction fails when the row is gone, an association to delete is
\* gone, one to insert is there, or its role is not (foreign key).
CommitUser(r) ==
    LET u == request[r].of
        before == request[r].user
        after == request[r].toUser
        succeeds == /\ before.exists => user[u].exists
                    /\ Fits(user[u].roles, before.roles, after.roles)
                    /\ \A x \in after.roles \ before.roles : role[x].exists
    IN  /\ request[r].step = "saving user"
        /\ IF succeeds
           THEN /\ user' = [user EXCEPT ![u] =
                       [exists |-> TRUE,
                        active |-> Column(@.active, before.active, after.active),
                        roles |-> Patched(@.roles, before.roles, after.roles)]]
                /\ Finish(r)
                /\ UNCHANGED <<serving, role, path>>
           ELSE Fail(r)

\* DELETE /users/{id}: not the protected one, and no role was counted.
DeleteUser(r, u) ==
    /\ user[u].exists
    /\ u # Admin
    /\ user[u].roles = {}
    /\ Call(r, [IdleRequest EXCEPT !.step = "deleting user", !.of = u])

\* The associations go with the row.
CommitDeleteUser(r) ==
    /\ request[r].step = "deleting user"
    /\ user' = [user EXCEPT ![request[r].of] = NoUser]
    /\ Finish(r)
    /\ UNCHANGED <<serving, role, path>>

-----------------------------------------------------------------------------
(* Roles *)

SaveRole(r, x, to) ==
    Call(r, [IdleRequest EXCEPT !.step = "saving role", !.of = x,
                                !.role = role[x], !.toRole = to])

\* POST /roles
CreateRole(r, x, name, permissions) ==
    /\ ~role[x].exists
    /\ \A q \in Requests : request[q].of # x
    /\ SaveRole(r, x, [exists |-> TRUE, active |-> TRUE, name |-> name,
                       permissions |-> permissions])

\* Mutant: the protected role is edited like any other.
UpdateAnyRolePermissions(r, x, permissions) ==
    /\ role[x].exists
    /\ SaveRole(r, x, [role[x] EXCEPT !.permissions = permissions])

\* PUT /roles/{id}/permissions: the protected role keeps the recovery permissions.
UpdateRolePermissions(r, x, permissions) ==
    /\ role[x].exists
    /\ x = Administrator => Recovery \subseteq permissions
    /\ SaveRole(r, x, [role[x] EXCEPT !.permissions = permissions])

\* PATCH /roles/{id}: the protected role stays active.
UpdateRole(r, x, name, active) ==
    /\ role[x].exists
    /\ x = Administrator => active
    /\ SaveRole(r, x, [role[x] EXCEPT !.name = name, !.active = active])

\* As for users; the name is unique.
CommitRole(r) ==
    LET x == request[r].of
        before == request[r].role
        after == request[r].toRole
        name == IF before.exists THEN Column(role[x].name, before.name, after.name)
                                 ELSE after.name
        succeeds == /\ before.exists => role[x].exists
                    /\ Fits(role[x].permissions, before.permissions, after.permissions)
                    /\ \A y \in Roles \ {x} : role[y].exists => role[y].name # name
    IN  /\ request[r].step = "saving role"
        /\ IF succeeds
           THEN /\ role' = [role EXCEPT ![x] =
                       [exists |-> TRUE, name |-> name,
                        active |-> Column(@.active, before.active, after.active),
                        permissions |-> Patched(@.permissions, before.permissions,
                                                after.permissions)]]
                /\ Finish(r)
                /\ UNCHANGED <<serving, user, path>>
           ELSE Fail(r)

\* DELETE /roles/{id}: not the protected one, and neither users nor permissions
\* were counted.
DeleteRole(r, x) ==
    /\ role[x].exists
    /\ x # Administrator
    /\ role[x].permissions = {}
    /\ \A u \in Users : x \notin user[u].roles
    /\ Call(r, [IdleRequest EXCEPT !.step = "deleting role", !.of = x])

\* Mutant: the associations with users are left behind.
CommitDeleteRoleAlone(r) ==
    /\ request[r].step = "deleting role"
    /\ role' = [role EXCEPT ![request[r].of] = NoRole]
    /\ Finish(r)
    /\ UNCHANGED <<serving, user, path>>

\* The associations go with the row, those that were made after the count too.
CommitDeleteRole(r) ==
    LET x == request[r].of IN
    /\ request[r].step = "deleting role"
    /\ role' = [role EXCEPT ![x] = NoRole]
    /\ user' = [u \in Users |-> [user[u] EXCEPT !.roles = @ \ {x}]]
    /\ Finish(r)
    /\ UNCHANGED <<serving, path>>

-----------------------------------------------------------------------------
(* Menus *)

\* Mutant: a path that the call leaves out is stored as missing.
UpdateMenuWithoutPath(m, p) ==
    /\ serving
    /\ \A n \in Menus : path[n] # p
    /\ path' = [path EXCEPT ![m] = Nobody]
    /\ UNCHANGED <<serving, user, role, request>>

\* PATCH /menus/{id}: the path is free, and unique in the table, so that the
\* check and the commit count as one step.
UpdateMenu(m, p) ==
    /\ serving
    /\ \A n \in Menus : path[n] # p
    /\ path' = [path EXCEPT ![m] = p]
    /\ UNCHANGED <<serving, user, role, request>>

-----------------------------------------------------------------------------
(* Starting the service *)

RequestDies(r) ==
    /\ request[r].step # "idle"
    /\ Fail(r)

\* Menus get their paths back one UPDATE after another, and each has to be free
\* at that moment.
PathsComeBack == \A m, n \in Menus : m < n => path[n] # SeededPath[m]

\* So has the name of the protected role.
NameComesBack ==
    \A x \in Roles \ {Administrator} : role[x].exists => role[x].name # AdministratorName

\* The service stops and is started again: compose runs the seed first and starts the
\* service only if it succeeds (depends_on).  The seed is one transaction.
Restart ==
    /\ request' = [r \in Requests |-> IdleRequest]
    /\ serving' = (PathsComeBack /\ NameComesBack)
    /\ IF serving'
       THEN /\ user' = [user EXCEPT ![Admin] =
                           [exists |-> @.exists, active |-> TRUE,
                            roles |-> @.roles \cup {Administrator}]]
            /\ role' = [role EXCEPT ![Administrator] =
                           [exists |-> TRUE, active |-> TRUE, name |-> AdministratorName,
                            permissions |-> Permissions]]
            /\ path' = SeededPath
       ELSE UNCHANGED <<user, role, path>>

Next ==
    \/ \E r \in Requests :
          \/ \E u \in Users :
                \/ \E roles \in SUBSET Roles :
                      \/ CreateUser(r, u, roles)
                      \/ \E active \in BOOLEAN : UpdateUser(r, u, active, roles)
                \/ DeleteUser(r, u)
          \/ \E x \in Roles :
                \/ \E permissions \in SUBSET Permissions :
                      \/ \E name \in Names : CreateRole(r, x, name, permissions)
                      \/ UpdateRolePermissions(r, x, permissions)
                \/ \E name \in Names, active \in BOOLEAN : UpdateRole(r, x, name, active)
                \/ DeleteRole(r, x)
          \/ CommitUser(r)
          \/ CommitDeleteUser(r)
          \/ CommitRole(r)
          \/ CommitDeleteRole(r)
          \/ RequestDies(r)
    \/ \E m \in Menus, p \in Paths : UpdateMenu(m, p)
    \/ Restart

Spec == Init /\ [][Next]_vars

-----------------------------------------------------------------------------
(* Properties *)

TypeOK ==
    /\ serving \in BOOLEAN
    /\ user \in [Users -> UserRows]
    /\ role \in [Roles -> RoleRows]
    /\ path \in [Menus -> Paths]
    /\ request \in [Requests ->
           [step : Steps, of : Users \cup Roles \cup {Nobody}, user : UserRows,
            toUser : UserRows, role : RoleRows, toRole : RoleRows]]

\* A user's permissions: those of its active roles (user_permission_codes).
PermissionsOf(u) == UNION {role[x].permissions : x \in user[u].roles \cap ActiveRoles}

\* Somebody can always recover access: however edits, deletions and restarts overlap,
\* an active account has all the recovery permissions.
SomebodyCanRecover == \E u \in Users : user[u].active /\ Recovery \subseteq PermissionsOf(u)

\* A role is never deleted under an assignment that survives it, whatever was
\* assigned between the count of the deletion and its commit.
AssignedRolesExist == \A u \in Users : \A x \in user[u].roles : role[x].exists
=============================================================================
