-------------------------- MODULE MCSecureRemoval --------------------------
(* Instances of SecureRemoval: a member, a second one, the admin itself. *)
EXTENDS SecureRemoval, TLC

CONSTANTS r1, r2

Symmetry == Permutations(Run)

=============================================================================
