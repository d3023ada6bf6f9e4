-------------------------- MODULE MCDocPersistence --------------------------
(* Two edits of this device, one entry of another. *)
EXTENDS DocPersistence, TLC

\* A device with a disk and no vault, and one with a vault and no disk: the two
\* schedulers do not share a variable.
OneStore == {{"compact"}, {"vault"}}

Symmetry == Permutations(Own) \cup Permutations(Flight)

=============================================================================
