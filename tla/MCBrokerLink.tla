---------------------------- MODULE MCBrokerLink ----------------------------
(* Instances of BrokerLink: two sockets, two device identifiers. *)
EXTENDS BrokerLink

CONSTANTS s1, s2, d1, d2

=============================================================================
