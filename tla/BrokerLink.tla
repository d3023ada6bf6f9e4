----------------------------- MODULE BrokerLink -----------------------------
(***************************************************************************)
(* The link of a client to one broker: the socket, its registration, its   *)
(* heartbeat, and the timer above it that dials again.                     *)
(*                                                                         *)
(* Code: wot-core/src/adapters/messaging/WebSocketMessagingAdapter.ts      *)
(* (connect, disconnect, rebindDeviceId, the heartbeat), dialChild and the *)
(* reconnect loop of MultiBrokerMessagingAdapter.ts, connect and           *)
(* _startAutoReconnect of OutboxMessagingAdapter.ts.                       *)
(*                                                                         *)
(* Abstractions.  The client is single-threaded: a handler is one step,    *)
(* together with the continuations of the promises it settles.  A timer    *)
(* fires at any time while it is armed; one that fires although the broker *)
(* would have answered counts as a fault.  After close() a socket fires    *)
(* its close event and nothing else.  Two re-bindings do not overlap.  The *)
(* identity is fixed, so a connect() in state 'connected' is a no-op.      *)
(***************************************************************************)
EXTENDS Naturals

CONSTANTS
    Sock,            \* socket instances; one whose events are over is used again
    Device,          \* device identifiers
    MaxLinkFaults,   \* bound: broken connections, refusals, early timeouts, exits
    MaxRebinds,      \* bound: re-bindings of the deviceId
    Null

ASSUME LinkAssumption ==
    /\ MaxLinkFaults \in Nat /\ MaxRebinds \in Nat
    /\ Null \notin Sock /\ Null \notin Device
    /\ Null \notin [sock : Sock, by : STRING, timed : BOOLEAN, old : Device]

VARIABLES
    multi,      \* the multiplexer stands above the socket, else the outbox does
    state,      \* MessagingState
    ws,         \* this.ws
    sock,       \* each socket: handshake, transport, device of its register frame
    dial,       \* pendingConnect: the connect() promise that is not settled
    did,        \* connectedDid is set
    dev,        \* this.deviceId
    beat,       \* heartbeatInterval: the socket it is bound to
    ping,       \* heartbeatTimeout: the socket a pong is missing from
    auto,       \* the timer that dials again is armed
    breaks, rebinds

linkVars == <<multi, state, ws, sock, dial, did, dev, beat, ping, auto, breaks, rebinds>>

State == {"disconnected", "connecting", "connected", "error"}
Stage == {"unused", "dialing", "asked", "signing", "answered", "up", "refused"}
\* "mute": open, but nothing arrives any more.  "wedged": close() was called or
\* the platform closes, and the close event may take for ever.  "closing": it comes.
Net   == {"none", "alive", "mute", "wedged", "closing"}
\* Who called connect(): the application, the timer, or a re-binding.
Caller == {"app", "timer", "rebind"}
Socket == [stage : Stage, net : Net, reg : Device, same : BOOLEAN]
Dial   == [sock : Sock, by : Caller, timed : BOOLEAN, old : Device]

IsOpen(s) == sock[s].net \in {"alive", "mute"}    \* readyState = OPEN or CONNECTING
\* A new instance: nobody holds it, and its close event is over or never comes.
Free(s) == ws # s /\ sock[s].net \in {"none", "wedged"} /\ sock[s].stage # "signing"
Unused(d) == [stage |-> "unused", net |-> "none", reg |-> d, same |-> TRUE]

LinkInit ==
    /\ multi \in BOOLEAN
    /\ state = "disconnected" /\ ws = Null
    /\ \E d \in Device : dev = d /\ sock = [s \in Sock |-> Unused(d)]
    /\ dial = Null /\ did = FALSE
    /\ beat = Null /\ ping = Null
    /\ auto = FALSE
    /\ breaks = 0 /\ rebinds = 0

-----------------------------------------------------------------------------
(* What several handlers share.                                             *)

\* ws.close() on a socket; the browser's close handshake needs the peer.
CloseNet(n) == CASE n = "alive" -> "closing" [] n = "mute" -> "wedged" [] OTHER -> n

\* Mutant: the replaced socket is left to itself.
LeaveSocket == sock
CloseSocket == IF ws = Null THEN sock ELSE [sock EXCEPT ![ws].net = CloseNet(@)]

\* settle.resolve and settle.reject: the rest of the caller runs with them.  A
\* re-binding that failed goes back to the deviceId it came from.
Settled == dial' = Null
RolledBack == IF dial # Null /\ dial.by = "rebind" THEN dial.old ELSE dev
Rejected == Settled /\ dev' = RolledBack

\* stopHeartbeat
StopHeartbeat == beat' = Null /\ ping' = Null

LinkFault == breaks < MaxLinkFaults /\ breaks' = breaks + 1
NoLinkFault == UNCHANGED breaks

\* connect(): the socket before it is closed, the promise before it rejected.
\* Below the multiplexer the adapter's own timeout is switched off, and only
\* dialChild has one.
Dialing(s, by, sockets, d) ==
    /\ Free(s)
    /\ sock' = [sockets EXCEPT ![s] = [stage |-> "dialing", net |-> "alive",
                                       reg |-> d, same |-> TRUE]]
    /\ ws' = s
    /\ state' = "connecting"
    /\ dial' = [sock |-> s, by |-> by, timed |-> ~multi \/ by # "rebind", old |-> dev]

-----------------------------------------------------------------------------
(* The owner of the link.                                                   *)

\* MultiBrokerMessagingAdapter: this.connecting[i]
InFlight == dial # Null /\ dial.by # "rebind"

\* The application connects at its start, when the browser comes online or
\* visible.  The multiplexer's loop runs from then on; the outbox alone starts
\* its timer when connect() has succeeded.
Connect(s) ==
    /\ state # "connecting"
    /\ IF state = "connected" \/ (multi /\ InFlight)
       THEN auto' = (auto \/ multi \/ state = "connected")
            /\ UNCHANGED <<sock, ws, state, dial, dev>>
       ELSE /\ Dialing(s, "app", CloseSocket, RolledBack)
            /\ dev' = RolledBack
            /\ auto' = (auto \/ multi)
    /\ UNCHANGED <<multi, did, beat, ping, breaks, rebinds>>

\* startReconnectLoop, _startAutoReconnect: the interval.
LoopTick(s) ==
    /\ auto /\ state \in {"disconnected", "error"}
    /\ multi => ~InFlight
    /\ Dialing(s, "timer", CloseSocket, RolledBack)
    /\ dev' = RolledBack
    /\ UNCHANGED <<multi, did, beat, ping, auto, breaks, rebinds>>

\* WebSocketMessagingAdapter.disconnect
TearDown ==
    /\ StopHeartbeat
    /\ did' = FALSE
    /\ Rejected
    /\ sock' = CloseSocket
    /\ ws' = Null
    /\ state' = "disconnected"

\* The browser goes offline, or the application leaves: OutboxMessagingAdapter
\* and the multiplexer stop their timers.
Disconnect ==
    /\ auto \/ state # "disconnected"
    /\ TearDown
    /\ auto' = FALSE
    /\ UNCHANGED <<multi, breaks, rebinds>>

\* dialChild's timer and the adapter's own: both tear the dial down.  Only
\* dialChild's goes through disconnect() and forgets the identity.
\* Mutants: the timer rejects the promise and leaves the socket; the timer
\* closes the socket and leaves the promise to the close event.
GiveUp ==
    /\ dial # Null /\ dial.timed
    /\ Rejected
    /\ IF sock[dial.sock].net = "alive" THEN LinkFault ELSE NoLinkFault
    /\ UNCHANGED <<multi, state, ws, sock, did, beat, ping, auto, rebinds>>
CloseOnly ==
    /\ dial # Null /\ dial.timed
    /\ sock' = CloseSocket
    /\ IF sock[dial.sock].net = "alive" THEN LinkFault ELSE NoLinkFault
    /\ UNCHANGED <<multi, state, ws, dial, did, dev, beat, ping, auto, rebinds>>
DialTimeout ==
    /\ dial # Null /\ dial.timed
    /\ IF multi THEN TearDown
       ELSE /\ Rejected
            /\ IF ws = dial.sock
               THEN ws' = Null /\ sock' = CloseSocket /\ state' = "disconnected"
               ELSE UNCHANGED <<ws, sock, state>>
            /\ UNCHANGED <<did, beat, ping>>
    /\ IF sock[dial.sock].net = "alive" THEN LinkFault ELSE NoLinkFault
    /\ UNCHANGED <<multi, auto, rebinds>>

\* rebindDeviceId: without a connected identity the id is only exchanged.
Rebind(s, d) ==
    /\ rebinds < MaxRebinds /\ d # dev
    /\ dial # Null => dial.by # "rebind"
    /\ rebinds' = rebinds + 1
    /\ dev' = d
    /\ IF ~did THEN UNCHANGED <<state, ws, sock, dial, did, beat, ping>>
       ELSE /\ StopHeartbeat
            /\ did' = FALSE
            /\ Dialing(s, "rebind", CloseSocket, d)
    /\ UNCHANGED <<multi, auto, breaks>>

-----------------------------------------------------------------------------
(* The handlers of a socket.  Each returns when the adapter has moved on.   *)

Advance(s, stage) == sock' = [sock EXCEPT ![s].stage = stage]

\* onopen: the register frame names the deviceId of the moment.
OnOpen(s) ==
    /\ sock[s].stage = "dialing" /\ sock[s].net = "alive" /\ ws = s
    /\ sock' = [sock EXCEPT ![s].stage = "asked", ![s].reg = dev]
    /\ UNCHANGED <<multi, state, ws, dial, did, dev, beat, ping, auto, breaks, rebinds>>

\* The challenge is signed for the deviceId of the moment.
OnChallenge(s) ==
    /\ sock[s].stage = "asked" /\ sock[s].net = "alive" /\ ws = s
    /\ sock' = [sock EXCEPT ![s].stage = "signing", ![s].same = (sock[s].reg = dev)]
    /\ UNCHANGED <<multi, state, ws, dial, did, dev, beat, ping, auto, breaks, rebinds>>

\* The signature is there; its answer belongs to this socket only.
Signed(s) ==
    /\ sock[s].stage = "signing"
    /\ sock' = IF ws = s
               THEN [sock EXCEPT ![s].stage = "answered",
                                 ![s].same = (@ /\ sock[s].reg = dev)]
               ELSE [sock EXCEPT ![s].stage = "refused"]
    /\ UNCHANGED <<multi, state, ws, dial, did, dev, beat, ping, auto, breaks, rebinds>>

SigningFails(s) ==
    /\ sock[s].stage = "signing"
    /\ Advance(s, "refused")
    /\ IF ws = s THEN state' = "error" /\ Rejected ELSE UNCHANGED <<state, dial, dev>>
    /\ LinkFault
    /\ UNCHANGED <<multi, ws, did, beat, ping, auto, rebinds>>

\* Registered: the heartbeat starts and the promise resolves; the outbox that
\* called connect() starts its timer.
\* Mutant: the heartbeat is left to the next connection.
OnRegisteredUnwatched(s) ==
    /\ sock[s].stage = "answered" /\ sock[s].net = "alive" /\ sock[s].same /\ ws = s
    /\ Advance(s, "up")
    /\ did' = TRUE
    /\ state' = "connected"
    /\ Settled
    /\ auto' = (auto \/ (dial # Null /\ dial.by = "app"))
    /\ UNCHANGED <<multi, ws, dev, beat, ping, breaks, rebinds>>
OnRegistered(s) ==
    /\ sock[s].stage = "answered" /\ sock[s].net = "alive" /\ sock[s].same /\ ws = s
    /\ Advance(s, "up")
    /\ did' = TRUE
    /\ state' = "connected"
    /\ beat' = s /\ ping' = Null
    /\ Settled
    /\ auto' = (auto \/ (dial # Null /\ dial.by = "app"))
    /\ UNCHANGED <<multi, ws, dev, breaks, rebinds>>

\* The broker refuses: other device than registered, or a reason of its own.
OnRelayError(s) ==
    /\ sock[s].stage = "answered" /\ sock[s].net = "alive" /\ ws = s
    /\ IF sock[s].same THEN LinkFault ELSE NoLinkFault
    /\ Advance(s, "refused")
    /\ IF state = "connecting" THEN state' = "error" /\ Rejected
       ELSE UNCHANGED <<state, dial, dev>>
    /\ UNCHANGED <<multi, ws, did, beat, ping, auto, rebinds>>

\* onerror comes before the close event.
OnError(s) ==
    /\ IsOpen(s)
    /\ LinkFault
    /\ sock' = [sock EXCEPT ![s].net = "closing"]
    /\ IF ws = s /\ state = "connecting" THEN state' = "error" /\ Rejected
       ELSE UNCHANGED <<state, dial, dev>>
    /\ UNCHANGED <<multi, ws, did, beat, ping, auto, rebinds>>

\* The transport breaks: silently, with a close that does not end, or cleanly.
NetBreak(s) ==
    /\ sock[s].net = "alive"
    /\ LinkFault
    /\ \E n \in {"mute", "wedged", "closing"} : sock' = [sock EXCEPT ![s].net = n]
    /\ UNCHANGED <<multi, state, ws, dial, did, dev, beat, ping, auto, rebinds>>

\* A signature that is being made still comes.
AfterClose(s) == IF sock[s].stage = "signing" THEN [sock[s] EXCEPT !.net = "none"]
                 ELSE Unused(sock[s].reg)

\* onclose: the socket of the moment only.  this.ws keeps it, and a dial that
\* waits is not settled.
\* Mutant: the close of a replaced socket counts.
OnCloseAny(s) ==
    /\ sock[s].net \in {"closing", "wedged", "mute"}
    /\ sock' = [sock EXCEPT ![s] = AfterClose(s)]
    /\ StopHeartbeat /\ state' = "disconnected"
    /\ UNCHANGED <<multi, ws, dial, did, dev, auto, breaks, rebinds>>
OnClose(s) ==
    /\ sock[s].net \in {"closing", "wedged", "mute"}
    /\ sock' = [sock EXCEPT ![s] = AfterClose(s)]
    /\ IF ws = s THEN StopHeartbeat /\ state' = "disconnected"
       ELSE UNCHANGED <<state, beat, ping>>
    /\ UNCHANGED <<multi, ws, dial, did, dev, auto, breaks, rebinds>>

-----------------------------------------------------------------------------
(* The heartbeat.                                                           *)

\* killSocket: only the socket of the moment, without waiting for its close.
Kill(s) ==
    IF ws = s
    THEN StopHeartbeat /\ sock' = CloseSocket /\ ws' = Null /\ state' = "disconnected"
    ELSE UNCHANGED <<beat, ping, sock, ws, state>>

\* The interval: an orphaned one stops, a closing socket is dead, one ping at
\* a time is outstanding.
\* Mutant: a socket that is not open is skipped.
HeartbeatSkips ==
    /\ beat # Null
    /\ IF ws # beat \/ state # "connected"
       THEN StopHeartbeat /\ UNCHANGED <<sock, ws, state>>
       ELSE IsOpen(beat) /\ ping = Null /\ ping' = beat /\ UNCHANGED <<beat, sock, ws, state>>
    /\ UNCHANGED <<multi, dial, did, dev, auto, breaks, rebinds>>
Heartbeat ==
    /\ beat # Null
    /\ IF ws # beat \/ state # "connected"
       THEN StopHeartbeat /\ UNCHANGED <<sock, ws, state>>
       ELSE IF ~IsOpen(beat) THEN Kill(beat)
       ELSE ping = Null /\ ping' = beat /\ UNCHANGED <<beat, sock, ws, state>>
    /\ UNCHANGED <<multi, dial, did, dev, auto, breaks, rebinds>>

\* handlePong
OnPong(s) ==
    /\ ping # Null /\ sock[s].stage = "up" /\ sock[s].net = "alive" /\ ws = s
    /\ ping' = Null
    /\ UNCHANGED <<multi, state, ws, sock, dial, did, dev, beat, auto, breaks, rebinds>>

PongTimeout ==
    /\ ping # Null
    /\ Kill(ping)
    /\ IF sock[ping].net = "alive" THEN LinkFault ELSE NoLinkFault
    /\ UNCHANGED <<multi, dial, did, dev, auto, rebinds>>

-----------------------------------------------------------------------------
Handshake(s) == OnOpen(s) \/ OnChallenge(s) \/ Signed(s) \/ OnRegistered(s) \/ OnRelayError(s)

LinkNext ==
    \/ \E s \in Sock :
         \/ Connect(s) \/ LoopTick(s)
         \/ Handshake(s) \/ SigningFails(s)
         \/ OnError(s) \/ NetBreak(s) \/ OnClose(s) \/ OnPong(s)
    \/ \E s \in Sock, d \in Device : Rebind(s, d)
    \/ Disconnect \/ DialTimeout \/ Heartbeat \/ PongTimeout

LinkSpec == LinkInit /\ [][LinkNext]_linkVars

\* Timers fire, a broker that is reached answers, a clean close is reported.
\* Nothing is assumed of a socket that is mute or wedged.
LinkFairness ==
    /\ WF_linkVars(\E s \in Sock : LoopTick(s))
    /\ WF_linkVars(DialTimeout) /\ WF_linkVars(Heartbeat) /\ WF_linkVars(PongTimeout)
    /\ \A s \in Sock :
         /\ WF_linkVars(Handshake(s))
         /\ WF_linkVars(sock[s].net = "closing" /\ OnClose(s))

FairLinkSpec == LinkSpec /\ LinkFairness

-----------------------------------------------------------------------------
(* Type correctness.                                                        *)
LinkTypeOK ==
    /\ multi \in BOOLEAN
    /\ state \in State
    /\ ws \in Sock \cup {Null}
    /\ sock \in [Sock -> Socket]
    /\ dial \in Dial \cup {Null}
    /\ did \in BOOLEAN /\ dev \in Device
    /\ beat \in Sock \cup {Null} /\ ping \in Sock \cup {Null}
    /\ auto \in BOOLEAN
    /\ breaks \in Nat /\ rebinds \in Nat

(* setState: the state that the outbox, the multiplexer and the status line  *)
(* go by is 'connected' exactly while the socket of the moment is registered *)
(* and its close has not been seen; late events of other sockets never count.*)
ConnectedIsRegistered ==
    state = "connected" <=> ws # Null /\ sock[ws].stage = "up"

(* startHeartbeat and stopHeartbeat: every connection is supervised by a     *)
(* heartbeat of its own, and no timer outlives its socket.                   *)
Watched ==
    /\ state = "connected" => beat = ws
    /\ beat # Null => state = "connected" /\ ws = beat
    /\ ping # Null => ping = beat

(* connect: "close its socket so it cannot linger half-registered on the     *)
(* relay side"; whatever path is taken, no replaced socket stays open.       *)
OneOpenSocket == \A s \in Sock : IsOpen(s) => ws = s

(* pendingConnect: a connect() under a timer is settled in the end, also     *)
(* when its socket died without an event or was closed by somebody else.     *)
DialSettles ==
    \A s \in Sock : dial # Null /\ dial.sock = s /\ dial.timed
                   ~> dial = Null \/ dial.sock # s

(* The heartbeat: a transport that is dead, silent, wedged in CLOSING or     *)
(* closed, does not count as connected for ever.                             *)
DeadIsNoticed ==
    \A s \in Sock : ws = s /\ state = "connected" /\ sock[s].net # "alive"
                   ~> ws # s \/ state # "connected"

\* rebindDeviceId below the multiplexer: a dial that no timer watches.
Unattended == state = "connecting" /\ dial # Null /\ ~dial.timed

(* I-CHILD-RECONNECT: while the timer is armed the link comes up again,      *)
(* except behind an unattended dial.                                         *)
Reconnects == auto ~> ~auto \/ state = "connected" \/ Unattended

=============================================================================
