---------------------------- MODULE ReliableSend ----------------------------
(***************************************************************************)
(* What OutboxMessagingAdapter.send promises its caller, without sockets,  *)
(* brokers, retries and tabs: a message that was accepted is delivered, or *)
(* dropped in the open; it never vanishes.  Delivered means that a broker  *)
(* holds it; a copy that was on its way may still arrive after a failure   *)
(* or a drop.                                                              *)
(***************************************************************************)
CONSTANT Msg

VARIABLES
    status,   \* what has become of each message
    told      \* what its caller was told

Status == {"new", "accepted", "delivered", "dropped", "failed"}
Told   == {"nothing", "delivered", "queued", "error"}

Init ==
    /\ status \in [Msg -> {"new", "accepted"}]
    /\ told = [m \in Msg |-> IF status[m] = "new" THEN "nothing" ELSE "queued"]

\* A broker has taken the messages.
Delivered(S) == status' = [m \in Msg |-> IF m \in S THEN "delivered" ELSE status[m]]

Deliver(S) == Delivered(S) /\ UNCHANGED told

\* The caller gets the broker's receipt.
Confirm(m) ==
    /\ told[m] = "nothing"
    /\ Delivered({m})
    /\ told' = [told EXCEPT ![m] = "delivered"]

\* The caller is told that the message is queued: from here on it is kept.
Accept(m) ==
    /\ told[m] = "nothing"
    /\ status' = [status EXCEPT ![m] = IF @ = "new" THEN "accepted" ELSE @]
    /\ told' = [told EXCEPT ![m] = "queued"]

\* An accepted message is given up after its retries.
Drop(m) ==
    /\ status[m] = "accepted"
    /\ status' = [status EXCEPT ![m] = "dropped"]
    /\ UNCHANGED told

\* send() throws, or the page is closed while it runs.
Fail(S) ==
    /\ \A m \in S : told[m] = "nothing"
    /\ status' = [m \in Msg |-> IF m \in S /\ status[m] = "new" THEN "failed" ELSE status[m]]
    /\ told' = [m \in Msg |-> IF m \in S THEN "error" ELSE told[m]]

Next ==
    \/ \E m \in Msg : Confirm(m) \/ Accept(m) \/ Drop(m)
    \/ \E S \in SUBSET Msg : Deliver(S) \/ Fail(S)

Spec == Init /\ [][Next]_<<status, told>>

=============================================================================
