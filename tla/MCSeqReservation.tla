-------------------------- MODULE MCSeqReservation --------------------------
(* Model values for SeqReservation: two tabs with one call each.            *)
EXTENDS SeqReservation, TLC

CONSTANTS d1, d2, d3, t1, t2, w1, w2, u1, u2, u3

MCTabOf   == (w1 :> t1) @@ (w2 :> t2)
Symmetry  == Permutations(Device) \cup Permutations(Update)

=============================================================================
