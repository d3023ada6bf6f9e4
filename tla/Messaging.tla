------------------------------ MODULE Messaging ------------------------------
(***************************************************************************)
(* Sending through the outbox and the multiplexer: a message of the inbox  *)
(* family goes to every connected broker at once, is queued durably when   *)
(* none takes it, and is sent again when a connection comes up.  The log   *)
(* messages go to the primary broker only and are never queued.            *)
(*                                                                         *)
(* Code: wot-core/src/adapters/messaging/OutboxMessagingAdapter.ts, send   *)
(* and the aggregate state of MultiBrokerMessagingAdapter.ts, send of      *)
(* WebSocketMessagingAdapter.ts, broker-routing-policy.ts, and             *)
(* LocalOutboxStore.ts of the demo, a store that all tabs share.           *)
(*                                                                         *)
(* Abstractions.  BrokerLink models how a connection comes and goes.  The  *)
(* order in which a flush takes its entries is left open.  A send that is  *)
(* timed out by the socket or by the outbox ends in the same way.  Each    *)
(* message is sent by the application once.                                *)
(***************************************************************************)
EXTENDS Naturals, FiniteSets

CONSTANTS
    Tab,          \* the tabs of one browser; they share the outbox store
    Broker, Primary,
    Msg,
    Direct,       \* messages of a NEVER_QUEUE type
    From,         \* the tab that sends each message
    MaxRetries,   \* maxRetries
    MaxFaults,    \* bound: connections lost, tabs closed, frames refused or late
    None

ASSUME MessagingAssumption ==
    /\ Primary \in Broker /\ Direct \subseteq Msg
    /\ From \in [Msg -> Tab]
    /\ IsFiniteSet(Tab)
    /\ MaxRetries \in Nat /\ MaxFaults \in Nat
    /\ None \notin Nat /\ None \notin Msg

VARIABLES
    up,        \* each tab: the children in state 'connected'
    wire,      \* frames on a connection, as <<tab, broker, message>>
    held,      \* each broker: the messages it has stored
    outbox,    \* the durable store: the retry count of each queued message
    flush,     \* each tab: its run of flushOutbox
    call,      \* each message: the send() of the application
    dropped,   \* messages that were given up
    tries,     \* each message: how often a flush has sent it
    faults

vars == <<up, wire, held, outbox, flush, call, dropped, tries, faults>>
net  == <<up, wire, held>>

Frame == Tab \X Broker \X Msg
Flush == [pc : {"idle", "read", "next", "wait", "bump"},
          snap : SUBSET (Msg \X Nat), cur : Msg \cup {None}, seen : Nat]
Call  == {"new", "sending", "queueing", "delivered", "queued", "error"}

Idle == [pc |-> "idle", snap |-> {}, cur |-> None, seen |-> 0]

\* A log message that an older version of the client has queued.
Init ==
    /\ up = [t \in Tab |-> {}]
    /\ wire = {}
    /\ held = [b \in Broker |-> {}]
    /\ \E old \in SUBSET Direct :
         /\ outbox = [m \in Msg |-> IF m \in old THEN 0 ELSE None]
         /\ call = [m \in Msg |-> IF m \in old THEN "queued" ELSE "new"]
    /\ flush = [t \in Tab |-> Idle]
    /\ dropped = {} /\ tries = [m \in Msg |-> 0]
    /\ faults = 0

-----------------------------------------------------------------------------
(* The connections.                                                         *)

Fault == faults < MaxFaults /\ faults' = faults + 1

\* MultiBrokerMessagingAdapter.getState: connected through any broker.
Connected(t) == up[t] # {}

\* flushOutbox: a second run beside the first is not started.
Start(t) == IF flush[t].pc = "idle" THEN [flush EXCEPT ![t].pc = "read"] ELSE flush

\* A child comes up.  Only a change of the aggregate is reported to the outbox.
Up(t, b) ==
    /\ b \notin up[t]
    /\ up' = [up EXCEPT ![t] = @ \cup {b}]
    /\ flush' = IF Connected(t) THEN flush ELSE Start(t)
    /\ UNCHANGED <<wire, held, outbox, call, dropped, tries, faults>>

\* What is on the way arrives now or never: the client cannot tell when.
Down(t, b) ==
    /\ b \in up[t]
    /\ Fault
    /\ up' = [up EXCEPT ![t] = @ \ {b}]
    /\ wire' = {f \in wire : ~(f[1] = t /\ f[2] = b)}
    /\ \E arrived \in SUBSET {m \in Msg : <<t, b, m>> \in wire} :
         held' = [held EXCEPT ![b] = @ \cup arrived]
    /\ UNCHANGED <<outbox, flush, call, dropped, tries>>

\* The tab is closed, its connections first; its running calls and its flush
\* are gone.
Pending(m) == call[m] \in {"sending", "queueing"}

Close(t) ==
    /\ ~Connected(t)
    /\ flush' = [flush EXCEPT ![t] = Idle]
    /\ call' = [m \in Msg |-> IF Pending(m) /\ From[m] = t THEN "error" ELSE call[m]]
    /\ UNCHANGED <<net, outbox, dropped, tries, faults>>

-----------------------------------------------------------------------------
(* send().                                                                  *)

\* routeForEnvelope and the fan-out to the connected children.
\* Mutant: every message is fanned out.
TargetsAll(t, m) == up[t]
Targets(t, m) == IF m \in Direct THEN up[t] \cap {Primary} ELSE up[t]

Transmit(t, m) == wire' = wire \cup {<<t, b, m>> : b \in Targets(t, m)}

\* Without a target a log message throws and another one is queued.
Undelivered(m) == IF m \in Direct THEN "error" ELSE "queueing"

Send(m) ==
    /\ call[m] = "new"
    /\ LET t == From[m] IN
       /\ Transmit(t, m)
       /\ call' = [call EXCEPT ![m] = IF Targets(t, m) = {} THEN Undelivered(m) ELSE "sending"]
    /\ UNCHANGED <<up, held, outbox, flush, dropped, tries, faults>>

\* The broker stores the message, or has it already, and its receipt settles
\* the send() and the flush that wait for it.
Taken(t, b, m) ==
    /\ <<t, b, m>> \in wire
    /\ wire' = wire \ {<<t, b, m>>}
    /\ held' = [held EXCEPT ![b] = @ \cup {m}]

Receipt(t, b, m) ==
    /\ Taken(t, b, m)
    /\ call' = IF call[m] = "sending" /\ From[m] = t
               THEN [call EXCEPT ![m] = "delivered"] ELSE call
    /\ IF flush[t].pc = "wait" /\ flush[t].cur = m
       THEN /\ outbox' = [outbox EXCEPT ![m] = None]
            /\ flush' = [flush EXCEPT ![t].pc = "next", ![t].cur = None]
       ELSE UNCHANGED <<outbox, flush>>
    /\ UNCHANGED <<up, dropped, tries, faults>>

\* The receipt comes when nobody waits any more.
ReceiptLate(t, b, m) ==
    /\ Taken(t, b, m)
    /\ Fault
    /\ UNCHANGED <<up, outbox, flush, call, dropped, tries>>

\* Refused with an error that names no message: nobody is answered.
Refuse(t, b, m) ==
    /\ <<t, b, m>> \in wire
    /\ Fault
    /\ wire' = wire \ {<<t, b, m>>}
    /\ UNCHANGED <<up, held, outbox, flush, call, dropped, tries>>

\* A timeout counts as a fault while an answer is still possible.
Late(t, m) == \E b \in Broker : <<t, b, m>> \in wire
MaybeFault(t, m) == IF Late(t, m) THEN Fault ELSE UNCHANGED faults

SendTimeout(m) ==
    /\ call[m] = "sending"
    /\ call' = [call EXCEPT ![m] = Undelivered(m)]
    /\ MaybeFault(From[m], m)
    /\ UNCHANGED <<net, outbox, flush, dropped, tries>>

\* enqueue: idempotent, and the caller is answered when it is durable.
\* Mutant: the caller is answered, the write is left to itself.
EnqueueLater(m) ==
    /\ call[m] = "queueing"
    /\ call' = [call EXCEPT ![m] = "queued"]
    /\ \/ outbox' = [outbox EXCEPT ![m] = IF @ = None THEN 0 ELSE @]
       \/ UNCHANGED outbox
    /\ UNCHANGED <<net, flush, dropped, tries, faults>>
Enqueue(m) ==
    /\ call[m] = "queueing"
    /\ outbox' = [outbox EXCEPT ![m] = IF @ = None THEN 0 ELSE @]
    /\ call' = [call EXCEPT ![m] = "queued"]
    /\ UNCHANGED <<net, flush, dropped, tries, faults>>

-----------------------------------------------------------------------------
(* flushOutbox().                                                           *)

\* The page becomes visible, or the application asks for a flush.
ManualFlush(t) ==
    /\ flush[t].pc = "idle"
    /\ flush' = Start(t)
    /\ UNCHANGED <<net, outbox, call, dropped, tries, faults>>

\* getPending.
FlushRead(t) ==
    /\ flush[t].pc = "read"
    /\ flush' = [flush EXCEPT ![t].pc = "next",
                              ![t].snap = {<<m, outbox[m]>> : m \in {n \in Msg : outbox[n] # None}}]
    /\ UNCHANGED <<net, outbox, call, dropped, tries, faults>>

\* No entry is left, or the connection is gone.
FlushEnd(t) ==
    /\ flush[t].pc = "next"
    /\ flush[t].snap = {} \/ ~Connected(t)
    /\ flush' = [flush EXCEPT ![t] = Idle]
    /\ UNCHANGED <<net, outbox, call, dropped, tries, faults>>

\* The entry is never sent from here, or was sent often enough.
\* Mutant: the limit is compared with what the last attempt makes of it.
GivesUpEarly(m, n) == m \in Direct \/ n + 1 >= MaxRetries
GivesUp(m, n) == m \in Direct \/ n >= MaxRetries

FlushNext(t, e) ==
    /\ flush[t].pc = "next" /\ Connected(t)
    /\ e \in flush[t].snap
    /\ LET m == e[1]  rest == [flush[t] EXCEPT !.snap = @ \ {e}] IN
       IF GivesUp(m, e[2])
       THEN /\ outbox' = [outbox EXCEPT ![m] = None]
            /\ dropped' = dropped \cup {m}
            /\ flush' = [flush EXCEPT ![t] = rest]
            /\ UNCHANGED <<wire, tries>>
       ELSE /\ Transmit(t, m)
            /\ tries' = [tries EXCEPT ![m] = @ + 1]
            /\ flush' = [flush EXCEPT ![t] = [rest EXCEPT !.pc = "wait", !.cur = m]]
            /\ UNCHANGED <<outbox, dropped>>
    /\ UNCHANGED <<up, held, call, faults>>

\* incrementRetry: the entry is read, ...
\* Mutant: a flush waits for its receipt without a timer.
FlushWaits(t) == FALSE /\ UNCHANGED vars
FlushTimeout(t) ==
    /\ flush[t].pc = "wait"
    /\ LET m == flush[t].cur IN
       /\ MaybeFault(t, m)
       /\ flush' = [flush EXCEPT ![t] =
                      IF outbox[m] = None THEN [@ EXCEPT !.pc = "next", !.cur = None]
                      ELSE [@ EXCEPT !.pc = "bump", !.seen = outbox[m]]]
    /\ UNCHANGED <<net, outbox, call, dropped, tries>>

\* ... and written, whatever another tab has done to it in between.
Bump(t) ==
    /\ flush[t].pc = "bump"
    /\ outbox' = [outbox EXCEPT ![flush[t].cur] = flush[t].seen + 1]
    /\ flush' = [flush EXCEPT ![t] = [@ EXCEPT !.pc = "next", !.cur = None, !.seen = 0]]
    /\ UNCHANGED <<net, call, dropped, tries, faults>>

-----------------------------------------------------------------------------
FlushStep(t) ==
    \/ FlushRead(t) \/ FlushEnd(t) \/ Bump(t) \/ FlushTimeout(t)
    \/ \E e \in flush[t].snap : FlushNext(t, e)

Next ==
    \/ \E t \in Tab, b \in Broker : Up(t, b) \/ Down(t, b)
    \/ \E t \in Tab, b \in Broker, m \in Msg : Receipt(t, b, m) \/ ReceiptLate(t, b, m) \/ Refuse(t, b, m)
    \/ \E m \in Msg : Send(m) \/ SendTimeout(m) \/ Enqueue(m)
    \/ \E t \in Tab : Close(t) \/ ManualFlush(t) \/ FlushStep(t)

Spec == Init /\ [][Next]_vars

\* A tab that is open or opened again connects, brokers answer, timers fire.
Fairness ==
    /\ \A t \in Tab : WF_vars(FlushStep(t))
    /\ \A t \in Tab, b \in Broker : WF_vars(Up(t, b))
    /\ \A t \in Tab, b \in Broker, m \in Msg : WF_vars(Receipt(t, b, m))
    /\ \A m \in Msg : WF_vars(SendTimeout(m) \/ Enqueue(m))

FairSpec == Spec /\ Fairness

-----------------------------------------------------------------------------
(* What the caller sees: ReliableSend.                                      *)

Held(m) == \E b \in Broker : m \in held[b]

StatusOf(m) ==
    IF Held(m) THEN "delivered"
    ELSE IF m \in dropped THEN "dropped"
    ELSE IF outbox[m] # None THEN "accepted"
    ELSE IF call[m] = "error" THEN "failed"
    ELSE IF call[m] \in {"delivered", "queued"} THEN "lost"
    ELSE "new"

ToldOf(m) == IF call[m] \in {"delivered", "queued", "error"} THEN call[m] ELSE "nothing"

Statuses == [m \in Msg |-> StatusOf(m)]
Answers  == [m \in Msg |-> ToldOf(m)]

RS == INSTANCE ReliableSend WITH status <- Statuses, told <- Answers

-----------------------------------------------------------------------------
(* Type correctness.                                                        *)
TypeOK ==
    /\ up \in [Tab -> SUBSET Broker]
    /\ wire \subseteq Frame
    /\ held \in [Broker -> SUBSET Msg]
    /\ outbox \in [Msg -> Nat \cup {None}]
    /\ flush \in [Tab -> Flush]
    /\ \A t \in Tab : flush[t].cur # None <=> flush[t].pc \in {"wait", "bump"}
    /\ call \in [Msg -> Call]
    /\ dropped \subseteq Msg /\ tries \in [Msg -> Nat] /\ faults \in Nat

(* OutboxMessagingAdapter implements ReliableSend: what send() has answered  *)
(* with 'queued-in-outbox' or with a receipt stays true, over lost receipts, *)
(* late frames, closed tabs and two tabs that flush the same store.          *)
ImplementsReliableSend == RS!Spec

(* I-PRIMARY-STRICT and I-NQ: a log message never reaches a secondary        *)
(* broker, not even one that an older client left in the outbox.             *)
LogStaysHome ==
    \A m \in Direct : /\ \A b \in Broker \ {Primary} : m \notin held[b]
                      /\ tries[m] = 0

(* maxRetries: a message is given up only after that many attempts, however  *)
(* the flushes of several tabs read and write its count.                     *)
GivenUpLate == \A m \in dropped \ Direct : tries[m] >= MaxRetries

(* flushOutbox: a queued message leaves the outbox, unless every tab is      *)
(* connected and has flushed; then it waits for the next reconnect.          *)
Resting == \A t \in Tab : Connected(t) /\ flush[t].pc = "idle"
Drains == \A m \in Msg : outbox[m] # None ~> outbox[m] = None \/ Resting

=============================================================================
