------------------------- MODULE AccessControlProofs -------------------------
(***************************************************************************)
(* Proofs about AccessControl, for any users, roles, permissions, menus    *)
(* and calls.                                                              *)
(*                                                                         *)
(* The argument: the protected account and role are what recovery rests    *)
(* on, every call in flight has promised not to touch that, and a commit   *)
(* that patches what is there now with the difference between two sets that*)
(* both hold the recovery permissions cannot take one away, whatever was   *)
(* committed in between.                                                   *)
(***************************************************************************)
EXTENDS AccessControl, TLAPS

\* The account and the role that recovery rests on.
ProtectedAreIntact ==
    /\ user[Admin].exists
    /\ user[Admin].active
    /\ Administrator \in user[Admin].roles
    /\ role[Administrator].exists
    /\ role[Administrator].active
    /\ Recovery \subseteq role[Administrator].permissions

\* What each call in flight is about.
CallsHaveSubjects ==
    \A r \in Requests :
        /\ request[r].step \in {"saving user", "deleting user"} => request[r].of \in Users
        /\ request[r].step \in {"saving role", "deleting role"} => request[r].of \in Roles

\* No call in flight is going to harm the protected account or role.
CallsSpareProtected ==
    \A r \in Requests :
        /\ request[r].step = "saving user" /\ request[r].of = Admin =>
              request[r].toUser.active /\ request[r].toUser.roles = request[r].user.roles
        /\ request[r].step = "deleting user" => request[r].of # Admin
        /\ request[r].step = "saving role" /\ request[r].of = Administrator =>
              request[r].toRole.active /\ Recovery \subseteq request[r].toRole.permissions
        /\ request[r].step = "deleting role" => request[r].of # Administrator

IInv ==
    /\ TypeOK
    /\ ProtectedAreIntact
    /\ CallsHaveSubjects
    /\ CallsSpareProtected
    /\ AssignedRolesExist

-----------------------------------------------------------------------------
(* The initial state *)

LEMMA InitEstablishesIInv == Init => IInv
<1> SUFFICES ASSUME Init PROVE IInv
  OBVIOUS
<1> USE AdminAssumption, RecoveryAssumption, NameAssumption, MenuAssumption
    DEF Init, NoUser, NoRole, IdleRequest, UserRows, RoleRows, Steps
<1>1. TypeOK
  BY DEF TypeOK
<1>2. ProtectedAreIntact /\ AssignedRolesExist
  BY DEF ProtectedAreIntact, AssignedRolesExist
<1>3. CallsHaveSubjects /\ CallsSpareProtected
  BY DEF CallsHaveSubjects, CallsSpareProtected
<1>4. QED
  BY <1>1, <1>2, <1>3 DEF IInv

-----------------------------------------------------------------------------
(* Steps that several actions share *)

\* A call that ends without effect keeps the invariant.
LEMMA FailKeepsIInv ==
  ASSUME IInv, NEW r \in Requests, Fail(r)
  PROVE  IInv'
<1> USE DEF IInv, Fail, Finish, IdleRequest, NoUser, NoRole
<1>1. TypeOK'
  BY NameAssumption DEF TypeOK, UserRows, RoleRows, Steps
<1>2. ProtectedAreIntact' /\ AssignedRolesExist'
  BY DEF ProtectedAreIntact, AssignedRolesExist
<1>3. CallsHaveSubjects' /\ CallsSpareProtected'
  BY DEF TypeOK, CallsHaveSubjects, CallsSpareProtected
<1>4. QED
  BY <1>1, <1>2, <1>3

\* The same for the half of the invariant that speaks of the calls.
LEMMA FinishKeepsCalls ==
  ASSUME IInv, NEW r \in Requests, Finish(r)
  PROVE  /\ request' \in [Requests ->
               [step : Steps, of : Users \cup Roles \cup {Nobody}, user : UserRows,
                toUser : UserRows, role : RoleRows, toRole : RoleRows]]
         /\ CallsHaveSubjects'
         /\ CallsSpareProtected'
<1> USE DEF IInv, Finish, IdleRequest, NoUser, NoRole
<1>1. IdleRequest \in [step : Steps, of : Users \cup Roles \cup {Nobody}, user : UserRows,
                       toUser : UserRows, role : RoleRows, toRole : RoleRows]
  BY NameAssumption DEF UserRows, RoleRows, Steps
<1>2. QED
  BY <1>1 DEF TypeOK, CallsHaveSubjects, CallsSpareProtected

\* A call that begins keeps the invariant when it has a subject and spares the
\* protected rows.
LEMMA CallKeepsIInv ==
  ASSUME IInv, NEW r \in Requests,
         NEW call \in [step : Steps, of : Users \cup Roles \cup {Nobody}, user : UserRows,
                       toUser : UserRows, role : RoleRows, toRole : RoleRows],
         Call(r, call),
         call.step \in {"saving user", "deleting user"} => call.of \in Users,
         call.step \in {"saving role", "deleting role"} => call.of \in Roles,
         call.step = "saving user" /\ call.of = Admin =>
             call.toUser.active /\ call.toUser.roles = call.user.roles,
         call.step = "deleting user" => call.of # Admin,
         call.step = "saving role" /\ call.of = Administrator =>
             call.toRole.active /\ Recovery \subseteq call.toRole.permissions,
         call.step = "deleting role" => call.of # Administrator
  PROVE  IInv'
<1> USE DEF IInv, Call
<1>1. TypeOK'
  BY DEF TypeOK
<1>2. ProtectedAreIntact' /\ AssignedRolesExist'
  BY DEF ProtectedAreIntact, AssignedRolesExist
<1>3. CallsHaveSubjects' /\ CallsSpareProtected'
  BY DEF TypeOK, CallsHaveSubjects, CallsSpareProtected
<1>4. QED
  BY <1>1, <1>2, <1>3

-----------------------------------------------------------------------------
(* The calls *)

LEMMA CreateUserKeepsIInv ==
  ASSUME IInv, NEW r \in Requests, NEW u \in Users, NEW roles \in SUBSET Roles,
         CreateUser(r, u, roles)
  PROVE  IInv'
<1> DEFINE to == [exists |-> TRUE, active |-> TRUE, roles |-> roles]
           call == [IdleRequest EXCEPT !.step = "saving user", !.of = u,
                                       !.user = user[u], !.toUser = to]
<1>1. call \in [step : Steps, of : Users \cup Roles \cup {Nobody}, user : UserRows,
                toUser : UserRows, role : RoleRows, toRole : RoleRows]
  BY NameAssumption DEF IInv, TypeOK, IdleRequest, NoUser, NoRole, UserRows, RoleRows, Steps
<1>2. Call(r, call)
  BY DEF CreateUser, SaveUser
<1>3. u # Admin
  BY DEF CreateUser, IInv, ProtectedAreIntact
<1>4. call.step = "saving user" /\ call.of = u
  BY DEF IdleRequest
<1>5. QED
  BY <1>1, <1>2, <1>3, <1>4, CallKeepsIInv

LEMMA UpdateUserKeepsIInv ==
  ASSUME IInv, NEW r \in Requests, NEW u \in Users, NEW active \in BOOLEAN,
         NEW roles \in SUBSET Roles, UpdateUser(r, u, active, roles)
  PROVE  IInv'
<1> DEFINE to == [user[u] EXCEPT !.active = active, !.roles = roles]
           call == [IdleRequest EXCEPT !.step = "saving user", !.of = u,
                                       !.user = user[u], !.toUser = to]
<1>1. user[u] \in UserRows /\ to \in UserRows
  BY ZenonT(60) DEF IInv, TypeOK, UserRows
<1>2. call \in [step : Steps, of : Users \cup Roles \cup {Nobody}, user : UserRows,
                toUser : UserRows, role : RoleRows, toRole : RoleRows]
  BY <1>1, NameAssumption DEF IdleRequest, NoUser, NoRole, UserRows, RoleRows, Steps
<1>3. Call(r, call)
  BY DEF UpdateUser, SaveUser
<1>4. call.step = "saving user" /\ call.of = u /\ call.toUser = to /\ call.user = user[u]
  BY DEF IdleRequest
<1>5. u = Admin => to.active /\ to.roles = user[u].roles
  BY <1>1 DEF UpdateUser, UserRows
<1>6. QED
  BY <1>2, <1>3, <1>4, <1>5, CallKeepsIInv, ZenonT(60)

LEMMA DeletionsKeepIInv ==
  ASSUME IInv, NEW r \in Requests, NEW s \in Users \cup Roles,
         \/ s \in Users /\ DeleteUser(r, s)
         \/ s \in Roles /\ DeleteRole(r, s)
  PROVE  IInv'
<1> DEFINE call(step) == [IdleRequest EXCEPT !.step = step, !.of = s]
<1>1. \A step \in Steps :
          /\ call(step) \in [step : Steps, of : Users \cup Roles \cup {Nobody},
                             user : UserRows, toUser : UserRows, role : RoleRows,
                             toRole : RoleRows]
          /\ call(step).step = step
          /\ call(step).of = s
  BY NameAssumption DEF IdleRequest, NoUser, NoRole, UserRows, RoleRows
<1>2. CASE s \in Users /\ DeleteUser(r, s)
  <2>1. Call(r, call("deleting user")) /\ s # Admin
    BY <1>2 DEF DeleteUser
  <2>2. QED
    BY <1>1, <1>2, <2>1, CallKeepsIInv DEF Steps
<1>3. CASE s \in Roles /\ DeleteRole(r, s)
  <2>1. Call(r, call("deleting role")) /\ s # Administrator
    BY <1>3 DEF DeleteRole
  <2>2. QED
    BY <1>1, <1>3, <2>1, CallKeepsIInv DEF Steps
<1>4. QED
  BY <1>2, <1>3

\* The calls that save a role.
LEMMA SaveRoleKeepsIInv ==
  ASSUME IInv, NEW r \in Requests, NEW x \in Roles, NEW to \in RoleRows,
         SaveRole(r, x, to),
         x = Administrator => to.active /\ Recovery \subseteq to.permissions
  PROVE  IInv'
<1> DEFINE call == [IdleRequest EXCEPT !.step = "saving role", !.of = x,
                                       !.role = role[x], !.toRole = to]
<1>1. call \in [step : Steps, of : Users \cup Roles \cup {Nobody}, user : UserRows,
                toUser : UserRows, role : RoleRows, toRole : RoleRows]
  BY DEF IInv, TypeOK, IdleRequest, NoUser, NoRole, UserRows, RoleRows, Steps
<1>2. Call(r, call)
  BY DEF SaveRole
<1>3. call.step = "saving role" /\ call.of = x /\ call.toRole = to
  BY DEF IdleRequest
<1>4. QED
  BY <1>1, <1>2, <1>3, CallKeepsIInv

LEMMA RoleCallsKeepIInv ==
  ASSUME IInv, NEW r \in Requests, NEW x \in Roles, NEW permissions \in SUBSET Permissions,
         NEW name \in Names, NEW active \in BOOLEAN,
         \/ CreateRole(r, x, name, permissions)
         \/ UpdateRolePermissions(r, x, permissions)
         \/ UpdateRole(r, x, name, active)
  PROVE  IInv'
<1>1. role[x] \in RoleRows
  BY DEF IInv, TypeOK
<1>2. CASE CreateRole(r, x, name, permissions)
  <2>1. [exists |-> TRUE, active |-> TRUE, name |-> name, permissions |-> permissions]
            \in RoleRows
    BY DEF RoleRows
  <2>2. x # Administrator
    BY <1>2 DEF CreateRole, IInv, ProtectedAreIntact
  <2>3. QED
    BY <1>2, <2>1, <2>2, SaveRoleKeepsIInv DEF CreateRole
<1>3. CASE UpdateRolePermissions(r, x, permissions)
  <2> DEFINE to == [role[x] EXCEPT !.permissions = permissions]
  <2>1. to \in RoleRows /\ to.permissions = permissions /\ to.active = role[x].active
    BY <1>1 DEF RoleRows
  <2>2. x = Administrator => to.active /\ Recovery \subseteq to.permissions
    BY <1>3, <2>1 DEF UpdateRolePermissions, IInv, ProtectedAreIntact
  <2>3. SaveRole(r, x, to)
    BY <1>3 DEF UpdateRolePermissions
  <2>4. QED
    BY <2>1, <2>2, <2>3, SaveRoleKeepsIInv
<1>4. CASE UpdateRole(r, x, name, active)
  <2> DEFINE to == [role[x] EXCEPT !.name = name, !.active = active]
  <2>1. to \in RoleRows /\ to.permissions = role[x].permissions /\ to.active = active
    BY <1>1 DEF RoleRows
  <2>2. x = Administrator => to.active /\ Recovery \subseteq to.permissions
    BY <1>4, <2>1 DEF UpdateRole, IInv, ProtectedAreIntact
  <2>3. SaveRole(r, x, to)
    BY <1>4 DEF UpdateRole
  <2>4. QED
    BY <2>1, <2>2, <2>3, SaveRoleKeepsIInv
<1>5. QED
  BY <1>2, <1>3, <1>4

-----------------------------------------------------------------------------
(* The commits *)

LEMMA CommitUserKeepsIInv ==
  ASSUME IInv, NEW r \in Requests, CommitUser(r)
  PROVE  IInv'
<1> DEFINE u == request[r].of
           before == request[r].user
           after == request[r].toUser
           succeeds == /\ before.exists => user[u].exists
                       /\ Fits(user[u].roles, before.roles, after.roles)
                       /\ \A x \in after.roles \ before.roles : role[x].exists
           new == [exists |-> TRUE,
                   active |-> Column(user[u].active, before.active, after.active),
                   roles |-> Patched(user[u].roles, before.roles, after.roles)]
<1>1. u \in Users /\ before \in UserRows /\ after \in UserRows /\ user[u] \in UserRows
  BY DEF CommitUser, IInv, TypeOK, CallsHaveSubjects
<1>2. CASE succeeds
  <2>1. /\ user' = [user EXCEPT ![u] = new]
        /\ Finish(r)
        /\ UNCHANGED <<serving, role, path>>
    BY <1>2, Zenon DEF CommitUser
  <2>2. new \in UserRows
    BY <1>1 DEF UserRows, Column, Patched
  <2>3. TypeOK'
    BY <1>1, <2>1, <2>2, FinishKeepsCalls DEF IInv, TypeOK
  <2>4. u = Admin => new.active /\ Administrator \in new.roles
    BY <1>1 DEF CommitUser, IInv, CallsSpareProtected, ProtectedAreIntact, Column, Patched
  <2>5. ProtectedAreIntact'
    BY <1>1, <2>1, <2>4, AdminAssumption DEF IInv, TypeOK, ProtectedAreIntact
  <2>6. \A x \in new.roles : role[x].exists
    BY <1>1, <1>2 DEF IInv, AssignedRolesExist, Patched
  <2>7. AssignedRolesExist'
    BY <1>1, <2>1, <2>6 DEF IInv, TypeOK, AssignedRolesExist
  <2>8. QED
    BY <2>1, <2>3, <2>5, <2>7, FinishKeepsCalls DEF IInv
<1>3. CASE ~succeeds
  BY <1>3, FailKeepsIInv, Zenon DEF CommitUser
<1>4. QED
  BY <1>2, <1>3

LEMMA CommitDeleteUserKeepsIInv ==
  ASSUME IInv, NEW r \in Requests, CommitDeleteUser(r)
  PROVE  IInv'
<1>1. request[r].of \in Users /\ request[r].of # Admin
  BY DEF CommitDeleteUser, IInv, CallsHaveSubjects, CallsSpareProtected
<1>2. TypeOK'
  BY <1>1, FinishKeepsCalls DEF CommitDeleteUser, IInv, TypeOK, NoUser, UserRows
<1>3. ProtectedAreIntact' /\ AssignedRolesExist'
  BY <1>1, AdminAssumption
     DEF CommitDeleteUser, IInv, TypeOK, NoUser, ProtectedAreIntact, AssignedRolesExist
<1>4. QED
  BY <1>2, <1>3, FinishKeepsCalls DEF CommitDeleteUser, IInv

LEMMA CommitRoleKeepsIInv ==
  ASSUME IInv, NEW r \in Requests, CommitRole(r)
  PROVE  IInv'
<1> DEFINE x == request[r].of
           before == request[r].role
           after == request[r].toRole
           name == IF before.exists THEN Column(role[x].name, before.name, after.name)
                                    ELSE after.name
           succeeds == /\ before.exists => role[x].exists
                       /\ Fits(role[x].permissions, before.permissions, after.permissions)
                       /\ \A y \in Roles \ {x} : role[y].exists => role[y].name # name
           new == [exists |-> TRUE, name |-> name,
                   active |-> Column(role[x].active, before.active, after.active),
                   permissions |-> Patched(role[x].permissions, before.permissions,
                                           after.permissions)]
<1>1. x \in Roles /\ before \in RoleRows /\ after \in RoleRows /\ role[x] \in RoleRows
  BY DEF CommitRole, IInv, TypeOK, CallsHaveSubjects
<1>2. CASE succeeds
  <2>1. /\ role' = [role EXCEPT ![x] = new]
        /\ Finish(r)
        /\ UNCHANGED <<serving, user, path>>
    BY <1>2, Zenon DEF CommitRole
  <2>2. new \in RoleRows
    BY <1>1 DEF RoleRows, Column, Patched
  <2>3. TypeOK'
    BY <1>1, <2>1, <2>2, FinishKeepsCalls DEF IInv, TypeOK
  <2>4. x = Administrator => new.active /\ Recovery \subseteq new.permissions
    BY <1>1 DEF CommitRole, IInv, CallsSpareProtected, ProtectedAreIntact, Column, Patched
  <2>5. ProtectedAreIntact'
    BY <1>1, <2>1, <2>4, AdminAssumption DEF IInv, TypeOK, ProtectedAreIntact
  <2>6. AssignedRolesExist'
    BY <1>1, <2>1 DEF IInv, TypeOK, AssignedRolesExist, UserRows
  <2>7. QED
    BY <2>1, <2>3, <2>5, <2>6, FinishKeepsCalls DEF IInv
<1>3. CASE ~succeeds
  BY <1>3, FailKeepsIInv, Zenon DEF CommitRole
<1>4. QED
  BY <1>2, <1>3

LEMMA CommitDeleteRoleKeepsIInv ==
  ASSUME IInv, NEW r \in Requests, CommitDeleteRole(r)
  PROVE  IInv'
<1> DEFINE x == request[r].of
<1>1. x \in Roles /\ x # Administrator
  BY DEF CommitDeleteRole, IInv, CallsHaveSubjects, CallsSpareProtected
<1>2. /\ role' = [role EXCEPT ![x] = NoRole]
      /\ user' = [u \in Users |-> [user[u] EXCEPT !.roles = @ \ {x}]]
      /\ Finish(r)
      /\ UNCHANGED <<serving, path>>
  BY DEF CommitDeleteRole
<1>3. \A u \in Users :
          /\ user'[u] \in UserRows
          /\ user'[u].roles = user[u].roles \ {x}
          /\ user'[u].active = user[u].active
          /\ user'[u].exists = user[u].exists
  BY <1>2 DEF IInv, TypeOK, UserRows
<1>4. TypeOK'
  BY <1>1, <1>2, <1>3, FinishKeepsCalls, NameAssumption
     DEF IInv, TypeOK, NoRole, RoleRows
<1>5. ProtectedAreIntact'
  BY <1>1, <1>2, <1>3, AdminAssumption DEF IInv, TypeOK, ProtectedAreIntact
<1>6. AssignedRolesExist'
  <2> SUFFICES ASSUME NEW u \in Users, NEW y \in user'[u].roles
               PROVE  role'[y].exists
    BY DEF AssignedRolesExist
  <2>1. y \in user[u].roles /\ y # x
    BY <1>3
  <2>2. y \in Roles /\ role[y].exists
    BY <2>1 DEF IInv, TypeOK, UserRows, AssignedRolesExist
  <2>3. QED
    BY <1>2, <2>1, <2>2 DEF IInv, TypeOK
<1>7. QED
  BY <1>2, <1>4, <1>5, <1>6, FinishKeepsCalls DEF IInv

LEMMA RestartKeepsIInv ==
  ASSUME IInv, Restart
  PROVE  IInv'
<1> USE AdminAssumption, RecoveryAssumption, NameAssumption, MenuAssumption
<1>1. request' \in [Requests ->
          [step : Steps, of : Users \cup Roles \cup {Nobody}, user : UserRows,
           toUser : UserRows, role : RoleRows, toRole : RoleRows]]
  BY DEF Restart, IdleRequest, NoUser, NoRole, UserRows, RoleRows, Steps
<1>2. CallsHaveSubjects' /\ CallsSpareProtected'
  BY DEF Restart, IdleRequest, CallsHaveSubjects, CallsSpareProtected
<1>3. serving' \in BOOLEAN
  BY DEF Restart, PathsComeBack, NameComesBack
<1>4. CASE serving'
  <2>1. user' = [user EXCEPT ![Admin] =
                    [exists |-> @.exists, active |-> TRUE,
                     roles |-> @.roles \cup {Administrator}]]
    BY <1>4 DEF Restart
  <2>2. \A u \in Users :
            /\ user'[u] \in UserRows
            /\ user'[u].exists = user[u].exists
            /\ user'[u].roles = IF u = Admin THEN user[u].roles \cup {Administrator}
                                             ELSE user[u].roles
            /\ user'[u].active = IF u = Admin THEN TRUE ELSE user[u].active
    <3> SUFFICES ASSUME NEW u \in Users
                 PROVE  /\ user'[u] \in UserRows
                        /\ user'[u].exists = user[u].exists
                        /\ user'[u].roles = IF u = Admin
                                             THEN user[u].roles \cup {Administrator}
                                             ELSE user[u].roles
                        /\ user'[u].active = IF u = Admin THEN TRUE ELSE user[u].active
      OBVIOUS
    <3>1. user[u] \in UserRows
      BY DEF IInv, TypeOK
    <3>2. CASE u # Admin
      <4>1. user'[u] = user[u]
        BY <2>1, <3>2 DEF IInv, TypeOK
      <4>2. QED
        BY <3>1, <3>2, <4>1
    <3>3. CASE u = Admin
      BY <2>1, <3>1, <3>3 DEF IInv, TypeOK, UserRows
    <3>4. QED
      BY <3>2, <3>3
  <2>3. role' = [role EXCEPT ![Administrator] =
                    [exists |-> TRUE, active |-> TRUE, name |-> AdministratorName,
                     permissions |-> Permissions]] /\ path' = SeededPath
    BY <1>4 DEF Restart
  <2>4. user' \in [Users -> UserRows]
    BY <2>1, <2>2 DEF IInv, TypeOK
  <2>5. role' \in [Roles -> RoleRows]
    BY <2>3 DEF IInv, TypeOK, RoleRows
  <2>6. TypeOK'
    BY <1>1, <1>3, <2>3, <2>4, <2>5 DEF TypeOK
  <2>7. \A y \in Roles \ {Administrator} : role'[y] = role[y]
    BY <2>3 DEF IInv, TypeOK
  <2>8. /\ role'[Administrator].exists
        /\ role'[Administrator].active
        /\ role'[Administrator].permissions = Permissions
    BY <2>3 DEF IInv, TypeOK
  <2>9. ProtectedAreIntact'
    BY <2>2, <2>8 DEF IInv, ProtectedAreIntact
  <2>10. AssignedRolesExist'
    <3> SUFFICES ASSUME NEW u \in Users, NEW y \in user'[u].roles
                 PROVE  role'[y].exists
      BY DEF AssignedRolesExist
    <3>1. CASE y = Administrator
      BY <2>8, <3>1
    <3>2. CASE y # Administrator
      <4>1. y \in user[u].roles
        BY <2>2, <3>2
      <4>2. y \in Roles /\ role[y].exists
        BY <4>1 DEF IInv, TypeOK, UserRows, AssignedRolesExist
      <4>3. QED
        BY <2>7, <3>2, <4>2
    <3>3. QED
      BY <3>1, <3>2
  <2>11. QED
    BY <1>2, <2>6, <2>9, <2>10 DEF IInv
<1>5. CASE ~serving'
  <2>1. UNCHANGED <<user, role, path>>
    BY <1>5 DEF Restart
  <2>2. QED
    BY <1>1, <1>2, <1>3, <2>1 DEF IInv, TypeOK, ProtectedAreIntact, AssignedRolesExist
<1>6. QED
  BY <1>4, <1>5

-----------------------------------------------------------------------------
(* Every step *)

LEMMA StepKeepsIInv == IInv /\ [Next]_vars => IInv'
<1> SUFFICES ASSUME IInv, [Next]_vars PROVE IInv'
  OBVIOUS
<1>1. ASSUME NEW r \in Requests, NEW u \in Users, NEW roles \in SUBSET Roles,
             \/ CreateUser(r, u, roles)
             \/ \E active \in BOOLEAN : UpdateUser(r, u, active, roles)
      PROVE  IInv'
  BY <1>1, CreateUserKeepsIInv, UpdateUserKeepsIInv
<1>2. ASSUME NEW r \in Requests,
             \/ \E u \in Users : DeleteUser(r, u)
             \/ \E x \in Roles : DeleteRole(r, x)
      PROVE  IInv'
  BY <1>2, DeletionsKeepIInv
<1>3. ASSUME NEW r \in Requests, NEW x \in Roles, NEW permissions \in SUBSET Permissions,
             \/ \E name \in Names : CreateRole(r, x, name, permissions)
             \/ UpdateRolePermissions(r, x, permissions)
      PROVE  IInv'
  BY <1>3, RoleCallsKeepIInv, NameAssumption
<1>4. ASSUME NEW r \in Requests, NEW x \in Roles, NEW name \in Names, NEW active \in BOOLEAN,
             UpdateRole(r, x, name, active)
      PROVE  IInv'
  BY <1>4, RoleCallsKeepIInv, RecoveryAssumption
<1>5. ASSUME NEW r \in Requests,
             CommitUser(r) \/ CommitDeleteUser(r) \/ CommitRole(r) \/ CommitDeleteRole(r)
      PROVE  IInv'
  BY <1>5, CommitUserKeepsIInv, CommitDeleteUserKeepsIInv, CommitRoleKeepsIInv,
     CommitDeleteRoleKeepsIInv
<1>6. ASSUME NEW r \in Requests, RequestDies(r) PROVE IInv'
  BY <1>6, FailKeepsIInv DEF RequestDies
<1>7. ASSUME NEW m \in Menus, NEW p \in Paths, UpdateMenu(m, p) PROVE IInv'
  BY <1>7 DEF UpdateMenu, IInv, TypeOK, ProtectedAreIntact, CallsHaveSubjects,
              CallsSpareProtected, AssignedRolesExist
<1>8. CASE Restart
  BY <1>8, RestartKeepsIInv
<1>9. CASE UNCHANGED vars
  BY <1>9 DEF vars, IInv, TypeOK, ProtectedAreIntact, CallsHaveSubjects,
              CallsSpareProtected, AssignedRolesExist
<1>10. QED
  BY <1>1, <1>2, <1>3, <1>4, <1>5, <1>6, <1>7, <1>8, <1>9 DEF Next

\* IInv holds in every reachable state.
THEOREM IInvAlways == Spec => []IInv
  BY InitEstablishesIInv, StepKeepsIInv, PTL DEF Spec

-----------------------------------------------------------------------------
(* What follows *)

\* The variables of AccessControl always have their types.
THEOREM TypeCorrect == Spec => []TypeOK
<1>1. IInv => TypeOK
  BY DEF IInv
<1>2. QED
  BY IInvAlways, <1>1, PTL

\* However many calls overlap, and whatever each of them had read, an active account
\* keeps all the recovery permissions (update_user, update_role_permissions,
\* update_role, the deletions and the seed together).
THEOREM RecoveryIsAlwaysPossible == Spec => []SomebodyCanRecover
<1>1. IInv => SomebodyCanRecover
  <2> SUFFICES ASSUME IInv PROVE SomebodyCanRecover
    OBVIOUS
  <2>1. Administrator \in user[Admin].roles \cap ActiveRoles
    BY AdminAssumption DEF IInv, ProtectedAreIntact, ActiveRoles
  <2>2. Recovery \subseteq PermissionsOf(Admin)
    BY <2>1 DEF IInv, ProtectedAreIntact, PermissionsOf
  <2>3. QED
    BY <2>2, AdminAssumption DEF IInv, ProtectedAreIntact, SomebodyCanRecover
<1>2. QED
  BY IInvAlways, <1>1, PTL

\* No assignment names a deleted role (delete_role against update_user).
THEOREM AssignmentsAreReal == Spec => []AssignedRolesExist
<1>1. IInv => AssignedRolesExist
  BY DEF IInv
<1>2. QED
  BY IInvAlways, <1>1, PTL
=============================================================================
