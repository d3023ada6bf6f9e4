-------------------------- MODULE MCInboxReception --------------------------
(* An instance of InboxReception for TLC.                                    *)
EXTENDS InboxReception, TLC

CONSTANTS att, upd, bad, inv, rot1, rot2, far, fake

Generation == (inv :> 0) @@ (rot1 :> 1) @@ (rot2 :> 2) @@ (far :> 3) @@ (fake :> 1)

\* Messages for the host; one of them, and a rotation, that nobody may send;
\* an invite with a rotation; two rotations, of which another device handles
\* the later one, too; two rotations, the later of which has to wait.
SmallLoads == {{att, upd}, {bad, fake}, {inv, rot1}, {rot1, rot2}, {rot1, far}}

=============================================================================
