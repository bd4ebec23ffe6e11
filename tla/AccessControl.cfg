SPECIFICATION Spec
CONSTANTS
    usersPath = usersPath
    rolesPath = rolesPath
    Users = {admin, ana}
    Roles = {administrator, analyst}
    Admin = admin
    Administrator = administrator
    Permissions = {usersWrite, auditRead}
    Recovery = {usersWrite}
    Names = {administratorName, analystName}
    AdministratorName = administratorName
    Paths = {usersPath, rolesPath}
    Menus = {1}
    SeededPath <- MCSeededPath
    Requests = {r1, r2}
    Nobody = Nobody
SYMMETRY Symmetry
INVARIANTS
    TypeOK
    SomebodyCanRecover
    AssignedRolesExist
