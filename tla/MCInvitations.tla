----------------------------- MODULE MCInvitations -----------------------------
(* A small instance of Invitations for TLC: one person with a primary and a *)
(* secondary address, a default and a custom role.                          *)
EXTENDS Invitations, TLC

CONSTANTS person, primary, secondary

Primaries == person :> primary
Verified == person :> {primary, secondary}

Symmetry == Permutations(Request)
=============================================================================
