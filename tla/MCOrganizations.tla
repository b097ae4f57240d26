---------------------------- MODULE MCOrganizations ----------------------------
(* Small instances of Organizations for TLC. *)
EXTENDS Organizations, TLC

\* Role forms over two permissions: none, one, both.
TwoPermissions == {{}, {"delete role"}, {"edit role", "delete role"}}
OnePermission == {{"remove user"}}

Symmetry == UNION {Permutations(User), Permutations(Name), Permutations(Request)}
=============================================================================
