---------------------------- MODULE MCMessaging ----------------------------
(* Instances of Messaging: two tabs, two brokers, a log message and another. *)
EXTENDS Messaging

CONSTANTS t1, t2, b1, b2, m1, log

\* The application sends in one tab; both flush.
FromFirst == [m \in Msg |-> t1]

=============================================================================
