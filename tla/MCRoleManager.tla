---------------------------- MODULE MCRoleManager ----------------------------
(* Instances of RoleManager for TLC: the constants come from the .cfg files. *)
EXTENDS RoleManager, TLC

\* Threads of the API server are interchangeable, and so are roles that do not
\* differ in their credentials.
Symmetry == Permutations(Roles) \union Permutations(Callers)
=============================================================================
