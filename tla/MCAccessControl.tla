--------------------------- MODULE MCAccessControl ---------------------------
(* Small instances of AccessControl for TLC: the first menu is that of the users,
   a second one that of the roles. *)
EXTENDS AccessControl, TLC

CONSTANTS usersPath, rolesPath

MCSeededPath == [m \in Menus |-> IF m = 1 THEN usersPath ELSE rolesPath]

Symmetry == Permutations(Requests)
=============================================================================
