---------------------------- MODULE MCAccountEmails ----------------------------
(* Small instances of AccountEmails for TLC. *)
EXTENDS AccountEmails, TLC

Symmetry == UNION {Permutations(Account), Permutations(Email), Permutations(Request)}
=============================================================================
