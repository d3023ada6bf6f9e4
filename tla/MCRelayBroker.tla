--------------------------- MODULE MCRelayBroker ---------------------------
(* Instances of RelayBroker: every frame type, and the management frames    *)
(* alone.                                                                   *)
EXTENDS RelayBroker, TLC

CONSTANTS a, b, x, y, s1, s2, k1, k2, h1, h2

Devices   == {"register", "space-register", "space-rotate", "present-space",
              "present-personal", "device-revoke"}
AllFrames == Devices \cup {"admin-add", "admin-remove", "log-entry"}

ReadWrite  == {{"read", "write"}}
Symmetry   == Permutations(Did) \cup Permutations(Device) \cup Permutations(Socket)
              \cup Permutations(Key) \cup Permutations(Content)

=============================================================================
