---------------------------- MODULE MCInboxQueue ----------------------------
(* Instances of InboxQueue: a recipient with two devices, one of them       *)
(* possibly the sender, and a sender of another identity.                   *)
EXTENDS InboxQueue, TLC

CONSTANTS a, b, a1, b1, b2, m1, m2, e1, e2

MCDidOf    == (a1 :> a) @@ (b1 :> b) @@ (b2 :> b)
TwoDidOf   == (b1 :> b) @@ (b2 :> b)
Symmetry   == Permutations(Msg) \cup Permutations(Env) \cup Permutations(Device \ {a1})

=============================================================================
