----------------------------- MODULE InboxQueue -----------------------------
(***************************************************************************)
(* The broker's durable inbox: a message is stored once and tracked per    *)
(* recipient device until every active device has acknowledged it, its     *)
(* time to live is over, or the device is revoked.                         *)
(*                                                                         *)
(* Code: wot-relay/src/queue.ts, the handlers handleSend,                  *)
(* handleInboxAckEnvelope, handleDeviceRevoke and completeRegistration of  *)
(* wot-relay/src/relay.ts, and computeBrokerInboxDeliveryTargets of        *)
(* wot-core.                                                               *)
(*                                                                         *)
(* Abstractions.  Time is counted in ticks; a device belongs to one DID    *)
(* for ever (RelayBroker shows that) and has one live socket: a second     *)
(* registration takes over from a half-open one.  Handlers of the inbox    *)
(* run without an await; two transactions of one handler are separated     *)
(* only by a crash of the relay.                                           *)
(***************************************************************************)
EXTENDS Integers

CONSTANTS
    Did, Device, Msg,
    Env,         \* envelope contents
    DidOf,       \* the identity each device belongs to
    Ttl,         \* DEFAULT_TTL_MS
    Inactive,    \* DEFAULT_INACTIVE_MS
    MaxTime,     \* bound on time
    MaxFaults,   \* bound on crashes and lost connections
    None

ASSUME InboxAssumption ==
    /\ DidOf \in [Device -> Did]
    /\ Ttl \in Nat /\ Inactive \in Nat /\ MaxTime \in Nat /\ MaxFaults \in Nat
    /\ None \notin [to : Did, env : Env, at : Nat]

VARIABLES
    now,        \* the clock
    seen,       \* devices.last_seen_at, -1 for an unknown device
    revoked,    \* devices with status 'revoked'
    row,        \* inbox_message: recipient, envelope, created_at
    entry,      \* inbox_entry.status of each (message, device)
    online,     \* devices with a registered socket
    sent,       \* messages written to the device's current socket
    processed,  \* (device, message) pairs a client has durably processed
    authored,   \* (device, message) pairs a client has sent itself
    faults

vars == <<now, seen, revoked, row, entry, online, sent, processed, authored, faults>>

Row    == [to : Did, env : Env, at : Nat]
Status == {"none", "pending", "acked", "sender-excluded"}

Stored == {m \in Msg : row[m] # None}

\* effectiveActiveDeviceIdsForDid: active and seen within the window.
EffectiveActive(d) == {x \in Device : DidOf[x] = d /\ x \notin revoked /\ seen[x] >= 0
                                      /\ seen[x] >= now - Inactive}

\* isFullyDelivered on a state of the entries and a set of active devices.
\* Mutant: an active device without an entry does not block completion.
FullyDeliveredIgnoringMissing(st, active) ==
    /\ \E x \in Device : st[x] = "acked"
    /\ \A x \in active : st[x] # "pending"

IsFullyDelivered(st, active) ==
    /\ \E x \in Device : st[x] = "acked"
    /\ \A x \in active : st[x] \in {"acked", "sender-excluded"}

NoEntries == [x \in Device |-> "none"]

Init ==
    /\ now = 0 /\ faults = 0
    /\ seen = [x \in Device |-> -1] /\ revoked = {}
    /\ row = [m \in Msg |-> None]
    /\ entry = [m \in Msg |-> NoEntries]
    /\ online = {} /\ sent = [x \in Device |-> {}]
    /\ processed = {} /\ authored = {}

-----------------------------------------------------------------------------
(* Registration: registerDevice, then deliverOnConnect.                     *)

\* The entries after the connecting device got one for every message to its
\* DID that had none.
\* Mutant: no entry is minted for messages stored before the device joined.
MintingNothing(x) == entry
Minted(x) ==
    [m \in Msg |->
        IF m \in Stored /\ row[m].to = DidOf[x] /\ entry[m][x] = "none"
        THEN [entry[m] EXCEPT ![x] = "pending"] ELSE entry[m]]

\* The messages written to the new socket.
Redelivered(x) == {m \in Stored : row[m].to = DidOf[x] /\ Minted(x)[m][x] = "pending"}

Register(x) ==
    /\ x \notin revoked
    /\ seen' = [seen EXCEPT ![x] = now]
    /\ entry' = Minted(x)
    /\ online' = online \cup {x}
    /\ sent' = [sent EXCEPT ![x] = Redelivered(x)]
    /\ UNCHANGED <<now, revoked, row, processed, authored, faults>>

\* Everything that lives in memory is gone.
Restart ==
    /\ faults < MaxFaults
    /\ faults' = faults + 1
    /\ online' = {} /\ sent' = [x \in Device |-> {}]
    /\ UNCHANGED <<now, row, entry, processed, authored>>

Crash == Restart /\ UNCHANGED <<seen, revoked>>

\* The relay crashes between the two transactions of a registration.
CrashInRegister(x) ==
    /\ x \notin revoked
    /\ Restart
    /\ seen' = [seen EXCEPT ![x] = now]
    /\ UNCHANGED revoked

Disconnect(x) ==
    /\ x \in online
    /\ faults < MaxFaults
    /\ faults' = faults + 1
    /\ online' = online \ {x}
    /\ sent' = [sent EXCEPT ![x] = {}]
    /\ UNCHANGED <<now, seen, revoked, row, entry, processed, authored>>

-----------------------------------------------------------------------------
(* handleSend: fan-out to the effective-active devices, then live delivery. *)

\* computeBrokerInboxDeliveryTargets: the sender's own device is no target.
Targets(x, d) == EffectiveActive(d) \ {x}

\* enqueueFanout keeps a status that exists.
FannedOut(m, x, d) ==
    [y \in Device |->
        IF entry[m][y] # "none" THEN entry[m][y]
        ELSE IF y \in Targets(x, d) THEN "pending"
        ELSE IF y = x /\ x \in EffectiveActive(d) THEN "sender-excluded"
        ELSE "none"]

\* A message that is stored with another recipient or payload is refused.
\* Mutant: nothing is written to the connected sockets.
SendStoreOnly(x, m, d, e) ==
    /\ x \in online /\ x \notin revoked
    /\ m \in Stored => row[m].to = d /\ row[m].env = e
    /\ row' = IF m \in Stored THEN row
              ELSE [row EXCEPT ![m] = [to |-> d, env |-> e, at |-> now]]
    /\ entry' = [entry EXCEPT ![m] = FannedOut(m, x, d)]
    /\ authored' = authored \cup {<<x, m>>}
    /\ UNCHANGED <<now, seen, revoked, online, sent, processed, faults>>

Send(x, m, d, e) ==
    /\ x \in online /\ x \notin revoked
    /\ m \in Stored => row[m].to = d /\ row[m].env = e
    /\ row' = IF m \in Stored THEN row
              ELSE [row EXCEPT ![m] = [to |-> d, env |-> e, at |-> now]]
    /\ entry' = [entry EXCEPT ![m] = FannedOut(m, x, d)]
    /\ sent' = [y \in Device |->
                  IF y \in online \cap Targets(x, d) THEN sent[y] \cup {m} ELSE sent[y]]
    /\ authored' = authored \cup {<<x, m>>}
    /\ UNCHANGED <<now, seen, revoked, online, processed, faults>>

-----------------------------------------------------------------------------
(* The client and its acknowledgement.                                      *)

\* The reception host has durably processed a delivered message (or knows it
\* already); a message that cannot be processed yet simply waits.
Process(x, m) ==
    /\ x \in online /\ m \in sent[x]
    /\ <<x, m>> \notin processed
    /\ processed' = processed \cup {<<x, m>>}
    /\ UNCHANGED <<now, seen, revoked, row, entry, online, sent, authored, faults>>

\* The entries of m, and its row, after status st: terminal messages go.
Settle(m, st, active) ==
    IF IsFullyDelivered(st, active)
    THEN row' = [row EXCEPT ![m] = None] /\ entry' = [entry EXCEPT ![m] = NoEntries]
    ELSE row' = row /\ entry' = [entry EXCEPT ![m] = st]

\* handleInboxAckEnvelope / ackDevice: the device's own pending entry is
\* acknowledged; every other ack changes nothing.
\* Mutant: a message is settled by the ack of its first device.
AckOfFirstDevice(x, m) ==
    /\ x \in online /\ <<x, m>> \in processed
    /\ m \in Stored /\ row[m].to = DidOf[x]
    /\ entry[m][x] = "pending" /\ \A y \in Device : entry[m][y] # "acked"
    /\ entry' = [entry EXCEPT ![m][x] = "acked"]
    /\ UNCHANGED <<now, seen, revoked, row, online, sent, processed, authored, faults>>

Ack(x, m) ==
    /\ x \in online /\ <<x, m>> \in processed
    /\ m \in Stored /\ row[m].to = DidOf[x]
    /\ entry[m][x] = "pending"
    /\ Settle(m, [entry[m] EXCEPT ![x] = "acked"], EffectiveActive(row[m].to))
    /\ UNCHANGED <<now, seen, revoked, online, sent, processed, authored, faults>>

-----------------------------------------------------------------------------
(* Revocation and retention.                                                *)

\* The entries after deleteForDevice dropped those of a device.
Without(x) == [m \in Msg |-> [entry[m] EXCEPT ![x] = "none"]]

\* revokeDevice, then deleteForDevice with its completion check.
Revoke(x) ==
    /\ revoked' = revoked \cup {x}
    /\ seen' = IF x \in revoked THEN seen ELSE [seen EXCEPT ![x] = now]
    /\ LET done == {m \in Stored : entry[m][x] # "none"
                       /\ IsFullyDelivered(Without(x)[m], EffectiveActive(row[m].to) \ {x})}
       IN /\ row' = [m \in Msg |-> IF m \in done THEN None ELSE row[m]]
          /\ entry' = [m \in Msg |-> IF m \in done THEN NoEntries ELSE Without(x)[m]]
    /\ UNCHANGED <<now, online, sent, processed, authored, faults>>

\* The relay crashes between the two transactions of a revocation.
CrashInRevoke(x) ==
    /\ Restart
    /\ revoked' = revoked \cup {x}
    /\ seen' = IF x \in revoked THEN seen ELSE [seen EXCEPT ![x] = now]

\* collectGarbage: fully delivered messages, expired messages, the entries of
\* devices that were not seen for too long.
\* Mutant: the backstop for fully delivered messages is missing.
CollectGarbageExpiredOnly ==
    LET gone == {m \in Stored : row[m].at < now - Ttl}
        idle == {x \in Device : seen[x] >= 0 /\ seen[x] < now - Inactive}
    IN /\ row' = [m \in Msg |-> IF m \in gone THEN None ELSE row[m]]
       /\ entry' = [m \in Msg |-> [x \in Device |->
                      IF m \in gone \/ x \in idle THEN "none" ELSE entry[m][x]]]
       /\ UNCHANGED <<now, seen, revoked, online, sent, processed, authored, faults>>

CollectGarbage ==
    LET gone == {m \in Stored : \/ IsFullyDelivered(entry[m], EffectiveActive(row[m].to))
                                \/ row[m].at < now - Ttl}
        idle == {x \in Device : seen[x] >= 0 /\ seen[x] < now - Inactive}
    IN /\ row' = [m \in Msg |-> IF m \in gone THEN None ELSE row[m]]
       /\ entry' = [m \in Msg |-> [x \in Device |->
                      IF m \in gone \/ x \in idle THEN "none" ELSE entry[m][x]]]
       /\ UNCHANGED <<now, seen, revoked, online, sent, processed, authored, faults>>

Tick ==
    /\ now < MaxTime
    /\ now' = now + 1
    /\ UNCHANGED <<seen, revoked, row, entry, online, sent, processed, authored, faults>>

-----------------------------------------------------------------------------
Next ==
    \/ \E x \in Device : \/ Register(x) \/ CrashInRegister(x) \/ Disconnect(x)
                         \/ Revoke(x) \/ CrashInRevoke(x)
    \/ \E x \in Device, m \in Msg, d \in Did, e \in Env : Send(x, m, d, e)
    \/ \E x \in Device, m \in Msg : Process(x, m) \/ Ack(x, m)
    \/ CollectGarbage \/ Crash \/ Tick

Spec == Init /\ [][Next]_vars

\* A device that is offline reconnects, a client processes what it was given
\* and acknowledges it, and the retention timer keeps firing.
Fairness ==
    /\ \A x \in Device : WF_vars(x \notin online /\ Register(x))
    /\ \A x \in Device, m \in Msg : WF_vars(Process(x, m)) /\ WF_vars(Ack(x, m))
    /\ WF_vars(CollectGarbage)

FairSpec == Spec /\ Fairness

-----------------------------------------------------------------------------
(* Type correctness; entries belong to stored messages.                     *)
TypeOK ==
    /\ now \in Nat /\ faults \in Nat
    /\ seen \in [Device -> Int] /\ revoked \subseteq Device
    /\ row \in [Msg -> Row \cup {None}]
    /\ entry \in [Msg -> [Device -> Status]]
    /\ \A m \in Msg \ Stored : entry[m] = NoEntries
    /\ online \subseteq Device
    /\ sent \in [Device -> SUBSET Msg]
    /\ processed \subseteq Device \X Msg
    /\ authored \subseteq Device \X Msg

(* queue.ts, isFullyDelivered and collectGarbage: before its time to live is *)
(* over a message leaves the broker only after a recipient device has        *)
(* processed it and no device of the recipient that is still active misses   *)
(* it; crashes, revocations, late joiners and idle devices included.         *)
NoSilentLoss ==
    [][\A m \in Stored, d \in Did : row[m].to = d /\ row'[m] = None =>
         \/ row[m].at < now - Ttl
         \/ /\ \E x \in Device : <<x, m>> \in processed
            /\ \A x \in EffectiveActive(d)' : <<x, m>> \in processed \cup authored]_vars

(* relay.ts, handleSend: the fan-out set is the completeness set: a          *)
(* connected active device has an entry for every stored message to its DID. *)
ActiveDevicesTracked ==
    \A m \in Stored : \A x \in online \cap EffectiveActive(row[m].to) : entry[m][x] # "none"

(* queue.ts, deliverOnConnect and handleSend together: what is pending for a *)
(* connected device was written to its socket, so the device needs no        *)
(* reconnect to see it.                                                      *)
PendingIsOffered ==
    \A m \in Stored, x \in online : entry[m][x] = "pending" => m \in sent[x]

(* Store and forward: a pending entry of a device is eventually resolved     *)
(* (acknowledged, expired, revoked), however often the device or the relay   *)
(* fails in between.                                                         *)
PendingIsResolved ==
    \A m \in Msg, x \in Device :
        entry[m][x] = "pending" ~> entry[m][x] # "pending" \/ x \in revoked

(* queue.ts, collectGarbage: the sweep is the backstop: a fully delivered    *)
(* message does not stay.                                                    *)
CompletedIsRemoved ==
    \A m \in Msg :
        (m \in Stored /\ IsFullyDelivered(entry[m], EffectiveActive(row[m].to)))
            ~> (m \notin Stored \/ ~IsFullyDelivered(entry[m], EffectiveActive(row[m].to)))

=============================================================================
