# Verification of the web-of-trust sync core

Web of trust keeps the documents of a user (personal document, shared spaces)
on every device as CRDTs. Changes travel as signed and encrypted *log entries*,
numbered per device, through a *broker* (the relay), which stores the log of
every document and pushes it to connected devices. Invitations, attestations and
key material travel through an *inbox* that the broker keeps per identity. This
directory holds TLA+ models of that core, TLC configurations, and TLAPS proofs.

Paths below are relative to `src/packages/`; `core` is `wot-core/src`, `relay`
is `wot-relay/src`.

## 1. The system

| part | state | operations | hard behaviour |
|---|---|---|---|
| Client log store (`core/adapters/storage/IndexedDBDocLogStore.ts`, `InMemoryDocLogStore.ts`, `SeqLock.ts`) | deviceId, entries with status, gap repairs, pending removals (IndexedDB, shared by all tabs) | `resolveConnectDeviceId`, `appendLocalEntry`, `recordRemote`, `markAcked`, head and gap queries | several tabs, crash between two transactions, eviction of a part of the storage; the AES-GCM nonce is a function of (deviceId, seq) |
| Log sync coordinator (`core/protocol/sync/log-sync-coordinator.ts`) | re-entrancy guard, active runs, waiters, key-blocked buffer, connection epoch, catch-up state, write pause | `writeLocalUpdate`, `resendPending`, `receiveLogEntry`, `catchUp`, `handleIncoming`, `replayBlockedByKey`, `resetForReconnect`, `ensurePublished` | asynchronous runs that survive a reconnect, late answers, holes, page limits |
| Restore clone (`core/adapters/messaging/logRestoreClone.ts`) | none of its own | mint, persist, re-register, bind a new deviceId | fails half way, meets calls that hold the old deviceId |
| Relay frames (`relay/relay.ts`, `relay/log-store.ts`) | devices, spaces, admins, personal owners, log (SQLite); sockets and capability scopes (memory) | register, device-revoke, space-register, space-rotate, admin-add/remove, present-capability, log-entry, sync-request | every handler waits for a signature or hash while others run |
| Relay inbox (`relay/queue.ts`) | messages and per-device entries (SQLite) | fan-out, delivery on connect, ack, revoke, garbage collection | late joiners, idle devices, crash between transactions, at-least-once delivery |
| Replication adapters (`adapter-yjs`, `adapter-automerge`), vault (`core/services/VaultPushScheduler.ts`, `wot-vault`) | CRDT documents, snapshots on disk and in the vault, edits kept while the log is out of reach | `transact`, `transactDurable`, flush of kept edits, push by timers, pull | edits during a push, failing pushes, overlapping flushes, log and snapshot out of step |
| Secure removal, group keys, rotation (`core/application/sync`) | staged removals, key generations, pending and future rotations | remove a member, confirm at the broker, promote the key | crash between steps, two tabs, reordered rotations |
| Messaging (`core/adapters/messaging`) | sockets, heartbeat, durable outbox shared by the tabs, broker list | connect, redial, rebind, send, queue, flush, fail over | events of replaced sockets, half-open transports, retry of what was delivered, two tabs that flush one store |
| Inbox reception (`apps/demo/src/services/InboxReceptionHost.ts`, `core/application/messaging/inbox-reception-workflow.ts`, inbox part of `adapter-yjs`) | ids already processed, messages held for a listener, rotations put aside, the keys of the space | decrypt, replay check, dispatch by type, record, acknowledge; invite, rotation, pass over what was put aside | handlers that interleave at every store access, listeners that come and go, a crash between effect, record and ack |
| Verification, attestations, identity, discovery, CLI, apps | mostly one record each | workflows over the parts above | little concurrency of their own |

How they interact: a local change goes store → coordinator → messaging → relay
`log-entry` → push to the other members' sockets → coordinator → store → CRDT. A
reconnect makes the adapter call `resetForReconnect` and `catchUp`, which asks
the relay with `sync-request` for everything above the replica's heads. A write
reject of the relay makes the coordinator call the restore-clone handler, which
rotates the deviceId in the store and registers it at the relay. A rotation or
revocation at the relay changes what the running handlers of other sockets may
do.

What correct means, per part:

* **store**: a (deviceId, seq) that was sent never carries a second content; the
  own log has no holes; pending entries are sent in the end;
* **relay**: a coordinate and a device have one owner, an entry of a generation
  that was rotated out is refused, revocation is final, generations move
  by one;
* **inbox**: a message is kept until every active device of the recipient has
  processed it, and not for ever;
* **coordinator**: one run per connection, a hole is recorded only if it is one,
  a skipped hole is not forgotten, "nothing outstanding" means complete, and
  every entry arrives in the end;
* **removal**: a removal is recorded, and its key used, only when the broker has
  installed exactly that key; a staged removal is not lost and ends; an admin
  that leaves has handed its rights back before it deletes its keys;
* **link**: what is called connected is a registered, supervised, single socket;
  a dead one is noticed and replaced;
* **messaging**: a message that was accepted is delivered or dropped in the open,
  not before its retries are used up; log entries go to the home broker only;
* **reception**: what is recorded as processed has had its effect or is put aside;
  the key of a generation and the right to write under it arrive together; a
  message is settled before it is too old;
* **documents**: no save and no edit is forgotten on its way to disk, vault and
  log, and no snapshot of another device is skipped unseen.

## 2. Modules

| module | models | proofs | instances |
|---|---|---|---|
| `SeqReservation` | deviceId, sequence reservation, send, resend, restore clone, crashes, storage loss | `SeqReservation_proofs` | `MCSeqReservation` |
| `RelayBroker` | the relay's frame handlers and registries for one document | `RelayBroker_proofs` | `MCRelayBroker` |
| `InboxQueue` | the relay's inbox with retention | `InboxQueue_proofs` | `MCInboxQueue` |
| `SyncHeads` | strict head, head above a hole, wire cursor as pure functions | `LogCatchUp_proofs` | `MCLogCatchUp` (with the loops of the code) |
| `LogCatchUp` | live entries, catch-up runs, gap repair, key buffer; EXTENDS `SyncHeads` | `LogCatchUp_proofs` | `MCLogCatchUp` |
| `SecureRemoval` | the two-phase removal of a member: device store, key store and broker | `SecureRemoval_proofs` | `MCSecureRemoval` |
| `BrokerLink` | socket, registration, heartbeat, redial | `Messaging_proofs` (last part) | `MCBrokerLink` |
| `ReliableSend` | abstract: what `send` promises its caller | | |
| `Messaging` | outbox, flush, fan-out over brokers; implements `ReliableSend` | `Messaging_proofs` | `MCMessaging` |
| `InboxReception` | the client's side of the inbox: host, invites, key rotations | `InboxReception_proofs` | `MCInboxReception` |
| `DocPersistence` | edits, push schedulers, kept edits, vault | `DocPersistence_proofs` | `MCDocPersistence` |

Definitions whose comment says *mutant* are altered forms of the
definition that follows them. They are used by nothing; replacing the definition
by one of them must break the property named in `PROJECT.json`.

### SeqReservation

`meta`, `log`, `acked` are the three things in IndexedDB; a tab is a JavaScript
context with a deviceId in memory (`session`); a writer is one
`writeLocalUpdate` call. Each IndexedDB transaction is one step; what happens
between two transactions (encrypting, signing) separates steps.

* Opening a tab is `resolveConnectDeviceId` with its four cases: `ResumeDevice`,
  `RotateDevice`, `RebindOrphan`, `ColdStart`. The fifth, an error, changes
  nothing.
* A call is `StartWrite` (the deviceId is read), `AcquireLock`, `ReserveSeq`,
  `PersistEntry` or `AddConflict` (retry up to `MaxRetries`), `SendEntry` or
  `SendFails`. With `WebLocks = FALSE` the lock excludes only calls of one tab:
  the in-process fallback of `SeqLock.ts`, the harder case.
* `RestoreClone` and `DeviceReRegister` start a handler of `logRestoreClone.ts`.
  The first closes the write-pause gate and does not run twice; the second
  does neither, so several may be under way (`rebind[t]` is a set).
  `RebindDone` hands over the new deviceId and opens the gate in one step.
* `CloseTab` is a crash at any point; `LoseMeta` and `LoseLog` are eviction.

Left out: first publication (the order of the entries of a new document at the
broker), several documents (they share only the deviceId), the
pending-removal records.

### RelayBroker

One document. A handler is a `Start…` action (all checks before the await, with
the values it reads, kept in `job`) and a `Finish…` action (the rest, which is
synchronous JavaScript and synchronous SQLite). A frame that the first half
refuses changes nothing. `CloseSocket` drops what the close handler drops, and
not the suspended handler. `ExpireScope` is the expiry test of `checkScope`.
Signatures are sound, and a capability that does not verify is an error reply, so
only verifying ones are presented. One frame per socket is in flight; two
frames of one client race as frames of two sockets do. Challenge nonces are
left out.

### InboxQueue

The handlers of the inbox have no await, so each is one action, except that the
relay may crash between its two transactions (`CrashInRegister`,
`CrashInRevoke`). `sent` is what was written to the device's present socket,
`processed` what the client has durably handled; the client acknowledges only
that (`AckDisposition`). Time is a counter, compared as in the SQL: strictly
older than the time to live, strictly older than the inactivity window. A
device belongs to one DID: `RelayBroker` proves that an owner never changes. The
one-shot migration of the old queue is left out.

### SyncHeads

The code walks over a sorted list; the module says what the result is.
`MCLogCatchUp` holds the loops, as folds, and TLC compares the two for every set
of stored numbers and hole starts up to 5 (`HeadsAreTheLoops`, an assumption that TLC
evaluates before every catch-up run).

### LogCatchUp

One document at one replica. The broker's log is a set of (device, seq) that
authors fill in any order, perhaps never completely. A run goes through the
phases `repair` (one gap after another), `present`, `ask`, `wait`, `page`,
`gaps`, `report`; between them everything else may happen. `cur` are the runs
that `withCatchUpReporting` still counts, i.e. that began after the last
reconnect; older ones go on until they end, as promises do.

* `Apply` is `processRemoteEntry` for a batch: duplicates and foreign entries
  are skipped, entries without key are buffered, the rest is stored and closes
  gaps (`autoResolveGaps`).
* `ReceiveLive` is a push, `LatePage` an answer whose waiter has timed out,
  `ImportKey` the replay of the buffer, `Reconnect` is `resetForReconnect` and
  the catch-up after it, `Restart` a new process on the same store.
* `due` says that somebody has called `catchUp()`; `Coalesce` is its early
  return.
* `BrokerPage` is `getSinceWithTruncation`: everything above the cursor in index
  order, cut at the limit.

Abstractions: a repair that is not due, or has used up its pages, behaves like
one whose request times out; a repair request and its answer are one step; the
store reads after a page are one step (`Conclude`); the key replay is one step;
the reason of an outstanding state is not told apart; epochs are counted
modulo `Epochs`; the minute of the soft skip is a flag set by `AgeGaps`. The
replica's own entries, and with them the restore-clone check and first
publication, are not part of this module.

### SecureRemoval

One space, its home broker and the device of one admin. A run is one call of
`driveRemovalToCompletion`; two of them meet when two tabs, or a recovery pass
and a user, work on the same database. Each store transaction, each frame and
each write to the key store is a step of its own, and a run may end after any
of them.

* `store` is the pending-removal record with its phase; `Stage`, `Put`,
  `Replace`, `Bind`, `Mark`, `Confirm`, `Complete`, `Delete` are the methods of
  `IndexedDBDocLogStore` with their compare-and-set conditions. Init also has
  records of the older format, without identity and binding.
* The broker's side is `RotateAnswered` and `AdminAnswered`: the whole of
  `handleSpaceRotate` and `handleAdminRemove` as `RelayBroker` has them, in one
  step. `RotateLost` and `AdminLost` lose the frame or its answer.
* `SaveKey`, `SaveCap` are the two writes of the activation, `Committed` and
  `EffectsDone` the event in the log and the distribution of the key, `Cleanup`
  the deletion of a space that was left.
* Around it: `ForeignRotate` (another admin takes the generation),
  `ReceiveRotation` (its key arrives), `SelfLeave`, `ReInvite`.
* `Gap` and `Taken` are the two refusals of the broker that lead to a new
  staging. The catch-up inside `handleGenerationGap` brings rotations of other
  admins, which `ReceiveRotation` may do at any time before `Gap`.

Key material and staging identities are numbers (`minted` counts them); equal
numbers are equal fingerprints. Left out: abandoning a space locally, more than
one home broker (which the code refuses).

### BrokerLink

One `WebSocketMessagingAdapter` with what stands above it: the multiplexer
(`multi`), whose loop redials every child, or the outbox with its auto-reconnect.
A socket has a stage of the handshake and a transport: `alive`, `mute` (open, but
nothing arrives), `wedged` (the close event may never come), `closing`. `dial` is
the promise of `connect()` with its caller and whether a timer watches it. An
event handler is one step, with the continuations of the promise it settles. The
identity check on `this.ws` in the handlers is what keeps events of replaced
sockets out, so those events stay possible as long as the socket has any.
Its specification is `LinkSpec`; where `Messaging` has the same word its names
carry `Link`, so that `Messaging_proofs` can speak of both. `Connect` has the guard
of the handlers for `online` and visibility (`AdapterContext.tsx:607`). The two
connects at the start of the application (`293`, `694`) do not have it; that the
second one meets a dial that is under way, and joins or replaces it, is left out.

### ReliableSend and Messaging

`ReliableSend` has a status and an answer per message: `Accept`, `Confirm`,
`Deliver`, `Drop`, `Fail`. In `Messaging` tabs with connections to several brokers
share one outbox. A send goes to every connected broker, or, for a log message
(`Direct`), to the primary one; the first receipt answers the caller, and
without any the message is queued (`Enqueue`) or, for a log message, the call
fails. `FlushRead`, `FlushNext`, `FlushTimeout`, `Bump`, `FlushEnd` are
`flushOutbox`; `FlushTimeout` and `Bump` are the read and the write of
`incrementRetry`, between which another tab may remove the entry. `ReceiptLate`
is a receipt nobody waits for any more. Init has log messages that an older
client left in the outbox.

The refinement mapping: a message is `delivered` when a broker holds it, else
`dropped`, else `accepted` when it is in the outbox, else `failed` when the
caller was told so. If none of these holds although the caller was told that the
message is queued or delivered, the mapping gives `lost`, which `ReliableSend`
does not have.

### DocPersistence

One document on one device. An update is a value and a document the set of its
updates, which is what a CRDT guarantees. `sched` has one `VaultPushScheduler`
for each configured store; the push to disk encodes the document when it begins,
the push to the vault after it has waited for the key.

* `Edit` is `transact`: the observer starts a write to the log (`writes`) and the
  schedulers are asked. `EditDurable` is `transactDurable`, which awaits the write.
* `WriteAppends`, `WriteFails`, `AppendFails`: `writeLocalUpdateViaLog`. A write
  fails when the first publication does; `stale` are writes that wait for the
  publication of a connection that is gone. A failed edit is kept in memory
  (`unlogged`) and on disk (`kept`).
* `CatchUpCompletes`, `FlushWritten`, `FlushFails`: `flushUnloggedUpdate`, of which
  several may overlap.
* `Receive` and `Record`: an entry of another device is applied, then recorded.
* `PullInfo`, `PullGets`, `PullApplies`, `PullUnreadable`, `PullFails`:
  `_pullFromVault`; `ForeignPut` is the push of another device under a number it
  picked itself.
* `Restart` reads disk and kept edits back.

`owed`, `lost` and `missed` are history: what a scheduler was asked to save and
has not saved; edits that a reported failure or a restart kept from the log;
that a download failed after its number was noted, or that two snapshots share a
number. The exceptions in the properties are exactly these, and section 4
describes them. Left out: `destroy` of a scheduler, the second vault, the cache of unknown
documents, and a space without a content key: `writeLocalUpdate`
(`log-sync-coordinator.ts:959`) then returns null, its caller
(`YjsReplicationAdapter.ts:3851`) ignores that, and the edit is neither logged nor
kept. `EditOnItsWay` says nothing about that path.

### InboxReception

The other end of `InboxQueue`: one client, the messages its broker has for it
(`queue`, of which `sent` went over the present connection) and one space. A
handler is asynchronous and suspends at every store access and every listener;
`at[w].pc` is where worker `w` is suspended and `at[w].msg` its message. A task is
one call of a handler, or a flush of the host; `Pass` is the one run of
`processPendingForSpace` that its guard admits.

* The frame (`receiveInboxMessage`, `concludeByDisposition`): `Reject` for a message
  that is more than a day old, `Replay` for a known id, `Refuse` for a body that is
  refused for good, `Record`, `Ack`. A refusal is recorded and not acknowledged; its
  next delivery is a replay and is. The age is checked first
  (`inbox-reception-workflow.ts:114-141`), and a message that is too old is neither
  recorded nor acknowledged. The history keeps an id for 24 hours and 5 minutes, so
  it forgets only ids of messages that the age check refuses; that is why it needs no
  expiry in the model, although the broker offers a message for 30 days.
* The host: `Hold` without a listener, `Deliver` and `Apply` with one, `Subscribe`
  and `Flush` for what was held, `Unsubscribe` when the application is torn down.
* The personal document: `doc` is what it says in memory, `saved` on disk. `Apply`,
  `Persist` and `Merge` change the first, `Save` is a push that succeeds; a crash goes
  back to the second. The databases of keys, ids and early rotations are written when
  their await returns. (Its own log may bring the document back what the disk
  lacks; that is left out, so the model forgets more than the code.)
* A rotation: `Rotate`, `Classify` (refused, duplicate, next, or too early),
  `SaveKey`, `SaveCapability`, `ImportDuplicate`, `SavePending`, `Erase`.
* The pass: `PassNext`, `PassDelete`, then the steps of a rotation, `PassEnd`.
* An invite: `Accept`, `SaveKey`, `SaveCapability`, `Join`, `Persist`.
* `RestorePending` reads the records back at the start. `RestoreSpace`, `ImportKey`,
  `ImportSeed` and `RequestSync` are the awaits of `restoreSpacesFromMetadata` and of
  a synchronisation, which may overlap with each other and with every handler; the
  first and the last start the pass. The keys and seeds they import are those that
  another device of the member has put into the personal document, for the messages
  in `Elsewhere`: one at a time, in any order, and with gaps, because only an
  applied rotation and the generation of an invite get there. What this device puts
  there it has stored before.
* `Fail`, `PassFail`: a listener or a store rejects at any suspension. `Crash`,
  `Reconnect`, `LoseAck`.

`loose` is history: messages whose trace was lost on one of the four paths of
section 4. Left out: messages that do not decrypt or verify (they change nothing),
member updates (signals for the user interface), more than one space; that the list
of admins, by which a rotation is accepted (`YjsReplicationAdapter.ts:4447`), may
change between two messages; and that two carriers of one generation bring different
material (`key-rotation-workflow.ts:162,173`).

## 3. Runs

All passing runs explore the full state space of their instance.

| run | instance | shows |
|---|---|---|
| `seq_two_tabs` | 2 tabs, 1 call each at a time, 3 deviceIds, 3 updates, 3 openings, 2 re-bindings, no Web Locks | `NonceUnique`, `OwnLogContiguous` |
| `relay` | 2 sockets, 2 DIDs, 1 device, 2 keys, 2 contents, generations 0 and 1, every frame | `OneEntryPerCoordinate`, `AuthorOwnsDevice`, `NoStaleIngest`, `RotationIsMaterialBound`, `OwnerDecidesPromotion`, `RevocationIsFinal` |
| `inbox` | 1 DID, 2 devices, 1 message with 2 possible contents, time 0 to 3, 2 faults | `NoSilentLoss`, `ActiveDevicesTracked`, `PendingIsOffered`, `PendingIsResolved`, `CompletedIsRemoved` |
| `catchup_runs` | 2 runs, pages of one entry, a hole, a second device that is crowded out and whose entry the engine cannot apply, 1 late answer | `OneRunPerConnection`, `AllClearIsComplete`, `HolesAreConfirmed`, `NoFinalSkip` |
| `catchup_live` | 1 run, pages of one, a hole, a tail, a late key | `Converges` |
| `catchup_restarts` | as `catchup_live`, restarts instead of reconnects | **violation** of `Converges` |
| `removal` | 2 runs, a member and the admin itself, generations 0 to 2, 5 materials, 1 closed tab, 1 foreign rotation | `RecordedIsEnforced`, `ConfirmedIsInstalled`, `LeftIsHandedBack`, `NoRemovalForgotten` |
| `removal_live` | 1 run, generations 0 to 3, 5 materials, 1 closed tab, 1 foreign rotation, 1 re-invite | `RemovalEnds` |
| `link` | 2 sockets, 2 deviceIds, 2 faults, 1 re-binding, below the multiplexer and below the outbox | `ConnectedIsRegistered`, `Watched`, `OneOpenSocket`, `DialSettles`, `DeadIsNoticed`, `Reconnects` |
| `messaging` | 2 tabs, 2 brokers, 1 message and 1 log message, 1 retry, 1 fault | `ImplementsReliableSend`, `LogStaysHome`, `GivenUpLate`, `Drains` |
| `docs` | 2 own edits, 1 of another device, disk or vault, 2 flushes, 1 fault, 1 foreign snapshot | `NothingOverlooked`, `EditOnItsWay`, `SkippedIsKnown`, `KeptUntilLogged` |
| `reception` | 2 tasks and the pass; an attestation, a profile update and a refused message, or an invite with a rotation, also one nobody may send, two rotations, the later of which, like the invite, another device may handle first, or two with a generation missing between them; 1 fault, be it a late message | `RecordedIsKept`, `CanWrite`, `Settles` |

The type invariants of the modules with proofs are theorems (section 5).

Why the bounds are enough to be interesting. Two tabs, two sockets or two runs
are what a race needs, and every race of the hazard list is between two. Three
openings and three deviceIds let a session be lost, rotated and resumed while
another tab is open. Two epochs with `MinEpochs = 2` make the soft skip happen;
the code's threshold is three. A page of one entry crowds out the second device
and puts the tail beyond a permanent hole out of reach, which a larger
page only does with more entries. In `inbox` a time to live of 1 and a window
of 2 bring expiry and inactivity inside four ticks, in either order. In `removal`
two generations above the first let a removal lose its generation to
another admin and be staged again; `removal_live` has one more, for the
generations that a re-invite takes without the broker. A run that needs a material
or a generation beyond the bounds stands still there, and `RemovalEnds` excepts
exactly that (`AtBound`). A retry limit of one in `messaging` makes the last retry race
with the other tab at once; the theorem is for every limit. In `docs` the two
stores are taken one at a time: the two schedulers share no variable but the
document, and the vault push differs from the disk push only in its extra stages.
In `reception` two tasks and the pass are the three that can meet in one space; two
rotations are what makes one of them too early; in one pair the key of the later
one, when another device shares it, leaves a gap below it, in the other nobody does
and the later one may never be applied. A single fault can already hit
every suspension.
The theorems of section 5 do not depend on any of these bounds. Symmetry is used
only in runs without liveness, over sets whose members the model treats alike.
`CHECK_DEADLOCK FALSE` stands where bounds on openings, faults, materials or
sequence numbers end the behaviour, which is a stop of the clients and not of the
code, and in `reception`, which ends when everything is settled; the catch-up, link, messaging and document runs check deadlock.

### Fairness

`inbox`: a device that is offline registers again (the client's reconnect
loop), a client processes and acknowledges what its socket was given (the
reception host runs on every message), and the retention timer fires
(`setInterval` in the relay). Time need not pass and devices need not be
revoked. Faults are bounded.

`catchup_live`: the code of a run and of the trigger goes on (weak fairness on its
steps). A request that is made again and again is answered some time (strong
fairness on the request and its answer, in each of the epochs told apart; the
timeout stays possible). The missing key and the minute of the soft skip come.
Connections are lost again and again, but from some time on only between two
runs (`Reconnect /\ Quiet`), and restarts end. Without repeated reconnects a
permanent hole is not skipped: that is the design of the soft skip. No answer is
late in this run (`MaxLate = 0`), so that a late page is not what saves it.

`catchup_restarts` has the same fairness with restart in the place of reconnect.

`removal_live`: the local steps of a run go on (weak fairness; tabs are closed a
bounded number of times). A frame that is sent again and again is answered some
time, and a recovery pass comes with every start and every reconnect (strong
fairness, per member). The key of another admin's rotation arrives. `RemovalEnds`
excepts a removal that is `Wedged`; section 4 says how that happens.

`link`: timers fire (redial loop, dial timeout, heartbeat, pong timeout), a broker
that is reached goes on with the handshake, a clean close is reported. Nothing is
assumed of a mute or wedged socket: those are what the timers are for.
`Reconnects` excepts a dial that no timer watches (`Unattended`).

`messaging`: a tab that is open or opened again connects, a broker that has a
frame answers or the connection ends, the timeouts of send and flush fire.
`Drains` excepts the state in which every tab is connected and has finished its
flush (`Resting`): the next flush comes with the next connection or from the user.

`reception`: handlers and the pass go on. A connection ends some time and the next
one brings what was not acknowledged. The application subscribes when it is mounted.
Nothing is assumed of the personal document: neither that it is saved, nor that it
changes and so brings a synchronisation, nor that `start()` restores anything;
`Settles` does not need it. Too old a message is one of the bounded faults, and the
only kind that `Settles` allows to stay at the broker.

`docs` has no fairness. That pushes and writes come to an end is a matter of disk
and network; `NothingOverlooked` and `EditOnItsWay` say that, as long as they
do, nothing is left behind.

## 4. Where code and comments disagree

`catchup_restarts` is a run that TLC refutes; `PROJECT.json` quotes the comment.

* **Restart instead of reconnect** (`log-sync-coordinator.ts:637`). The epoch
  begins at 0 in every process, the epochs a gap was observed in are durable
  and deduplicated. A client that is closed and opened, and never reconnects, does
  not reach the threshold and never fetches what lies beyond one page above a
  permanent hole.

The following are reachable in the models too. They are not runs: the properties
name them as exceptions, or promise less.

Log and relay:

* **Stranded entries** (`IndexedDBDocLogStore.ts:200` against `205-206`). A second
  tab that opens before the first has stored its first entry finds a deviceId
  without log and rotates it. What the first tab writes stays pending under a
  deviceId that no later session uses.
* **Stale scope** (`relay.ts:1746`). A capability is verified against the space
  as read before the await, and cached after it. If the space rotates in between,
  the scope escapes the invalidation. Stale *entries* are still refused
  (`NoStaleIngest`); what remains is reading.
* **Forgotten hole** (`log-sync-coordinator.ts:1312`). A live entry that lands
  above a hole after the run has looked for gaps and before it releases the
  guard triggers nothing, and the run reports nothing outstanding. The hole is
  found at the next catch-up (`Converges`).
* A personal claim verified while the document becomes a space
  binds an owner to a space (`relay.ts:1800` against `log-store.ts:621-624`;
  `relay.ts:1797-1799` calls the stray claim inert). An entry that has passed the
  revocation check is stored after the revocation (`relay.ts:2404` against
  `2242-2245`). A handler that resumes after its socket closed puts it back into
  the maps (`relay.ts:941` against `641-643`). A reconnect starts a second pass
  while the old one still applies its page (`log-sync-coordinator.ts:721` against
  `1490`). A run whose page only buffered entries reports nothing outstanding
  (`1655` against `500-503`). An entry the engine cannot apply is recorded as
  missing at the broker (`1866` against `1826-1830`).

Removal:

* **Wedged removal** (`group-key-workflow.ts:321` against
  `YjsReplicationAdapter.ts:2557-2559`). The broker has enforced a removal, the
  tab ends before the event is recorded, and the removal of a second member moves
  the generation on. Recovery refuses the first record for ever, because its
  generation is no longer the current one. The same happens when a re-invite comes
  between the reading and the writing of an activation: key and capability of one
  generation are then of different materials.
* **A re-invite does not tell the broker** (`YjsReplicationAdapter.ts:1975`). It
  rotates the key on the device; the next removal asks the broker for a generation
  that is not the successor of the broker's and is answered with a gap, again and
  again.

Messaging:

* **A dial without timer** (`WebSocketMessagingAdapter.ts:451` against `92-96`).
  Below the multiplexer the children have no timeout of their own, because the
  multiplexer has one for its dials. `rebindDeviceId` dials past it: a socket that
  neither opens nor fails keeps the state at `connecting`, and the loop does not
  redial a connecting child.
* **Started offline** (`OutboxMessagingAdapter.ts:139-142`). Auto-reconnect starts
  only after the first connect has succeeded; until then the application has to
  try again (`AdapterContext.tsx:718`).

Reception:

* **Delivered to nobody** (`InboxReceptionHost.ts:184` against `132-138`). An
  attestation or a receipt that was held is flushed one after the other; when the
  listener goes away during the flush, `dispatch` meets an empty set and reports
  success, and the message is recorded and acknowledged. Profile updates had the
  same flaw and were repaired (`232-237`); for them `RecordedIsKept` has no
  exception.
* **Applied, recorded, not on disk** (`YjsPersonalDocManager.ts:859-878` and `490-498`
  against `InboxReceptionHost.ts:369-371`: a listener that returns has applied the
  message, "durabel via Storage des Konsumenten"). What a listener stores changes the personal document in memory; the push
  to disk is not awaited and its errors are swallowed. A crash after the record of the
  id, in a database of its own, loses the effect unless the log of the personal
  document brings it back; the message is not processed again.
* **Deleted before applied** (`YjsReplicationAdapter.ts:4738` against `1074-1075`). The
  pass deletes the durable record of a rotation that was acknowledged long ago and
  only then applies it. A crash or a failing store in between loses it; the content
  key may still come through the personal document, the capability may not.
* **Space without metadata** (`YjsReplicationAdapter.ts:4234`). An invite creates the
  space in memory, then writes its metadata. When that fails, or while it is under
  way, the same invite finds the space, writes nothing and is acknowledged; after a
  restart the space is gone. A later write of the same metadata does not repair
  it: `lastSavedMetadata` was set before the one that failed (`4935-4938`).

These are the four paths that make a message `loose`. Three more hold without being
an exception:

* **Behind a gap** (`YjsReplicationAdapter.ts:4489-4500`). A rotation whose generation
  is below the current one counts as a duplicate and is recorded and acknowledged,
  also when its key is not there because another device has shared a later one only.
  `RecordedIsKept` therefore allows the key of a rotation to be missing below one of
  another device, and only there; entries of the missing generation stay unreadable on this device unless
  the key comes through the personal document.
* **Too old to conclude** (`inbox-reception-workflow.ts:114-131` against
  `wot-relay/src/queue.ts:40`). A message that is offered a day after it was made is
  rejected without record or acknowledgement; the broker offers it on every
  connection until its 30 days are over. That also meets messages that were processed
  and whose acknowledgement was lost.
* **Waiting for the next occasion** (`YjsReplicationAdapter.ts:4716`). A rotation that
  is put aside during a pass is not in its snapshot, and the rotation that would
  release it finds the pass running. It is recorded and on disk, but waits for another
  rotation, a restart or a change of the personal document
  (`AdapterContext.tsx:633-635`); no property says that one comes.

Documents:

* **A rejected durable edit stays** (`YjsReplicationAdapter.ts:2660` against
  `2636-2639`). `transactDurable` changes the document, then awaits the append; when
  that fails the update stays in the document, is not scheduled and not kept.
* **Kept edits in the hands of a flush** (`YjsReplicationAdapter.ts:3879` against
  `811-815`). While a flush holds the kept edits, another edit that fails replaces
  the durable record by itself. A crash before the flush ends loses the held edits
  from the log.
* **Edit on disk, not in the log** (`YjsReplicationAdapter.ts:3851`). A process that
  ends between the two leaves an edit that is shown and never replicated; no start
  compares the two. The other way round (`2145`), a received entry is recorded at
  once and the snapshot is written later: a crash in between keeps the head, loses
  the content, and no catch-up asks for it again.
* **Vault numbers** (`YjsReplicationAdapter.ts:3242-3245`). A number counts as seen
  before the download, and two devices may pick the same one; either way the
  snapshot is skipped later. The counter is in memory and starts again with the
  process, while `DualVaultClient.ts:48-53,86` chooses between two vaults by it.

## 5. Proofs

Every theorem holds for all values of the constants that satisfy the named
assumption of the module (`SeqAssumption`, `RelayAssumption`, `InboxAssumption`,
`CatchUpAssumption`, `MessagingAssumption`, `LinkAssumption`, `RemovalAssumption`,
`BoundsAssumption`, `ReceptionAssumption`), which say little
more than that bounds are numbers and `None` is none of the values;
`MessagingAssumption` also makes the set of tabs finite, because retries are
counted over it, and `RemovalAssumption` allows a generation after the first, which
a pending record in Init needs. Each safety proof is an inductive invariant `IInv`
(`LinkInv` for the link): it holds initially, every action keeps it, and it implies
the property.

**SeqReservation_proofs**: `TypeCorrect`, `NonceNeverReused`, `OwnLogHasNoHoles`.
`NonceUnique` speaks of the wire and is not inductive: an entry is sent from the
store, and the store may be lost. `IInv` adds that the stored log has unique keys
(`LogKeysUnique`); that an entry on the wire is still stored, or that its device is
retired, which means that no tab, call or stored entry uses it (a stored deviceId
without log is rotated before its next use; `WireStoredOrRetired`); that whatever is used was minted, so that a fresh
deviceId is new (`UsedWasMinted`); that calls run only in open tabs
(`CallsRunInTabs`), which is why loss of storage meets no call; persist before
send (`SendIsStored`); and for the second property that everything below a
reserved number is stored (`BelowReserved`, `HasMaxSeq`). The lock is
not used: the theorem holds for either value of `WebLocks`, because the unique
key of the store decides.

**RelayBroker_proofs**: `TypeCorrect`, `LogBindsCoordinates`,
`AuthorBindingHolds`, `StaleEntriesAreRefused`, `RotationsAreMaterialBound`,
`RevocationWins`, `PromotionIsTheOwners`. The invariant has to say what a
suspended handler may rely on when it resumes: the author it checked still owns
the device (`SuspendedAuthorOwns`), which holds because an owner is never
replaced; and a rotation that waits still finds a space (`RotationNeedsSpace`).

**InboxQueue_proofs**: `TypeCorrect`, `ActiveDevicesAreTracked`,
`PendingIsAlwaysOffered`, `NothingIsLostSilently`. Added: an acknowledged entry
was processed, an excluded one was authored, and entries belong to devices of the
recipient.

**LogCatchUp_proofs**: `StrictHeadIs`, `CursorPassesOnlySkippedHoles`,
`TypeCorrect`, `OneRun`, `SkipsAreNotFinal`, `HolesAreReal`,
`AllClearMeansComplete`. The first two are about the functions of `SyncHeads`: the
wire cursor lies between strict and known head, and a missing number below it lies
in a hole that was skipped, so no number is hidden from the broker by mistake.
`IInv` is type correctness, one run per
connection, and `MemInv`: what a suspended run remembers (its page is the one the
broker cut for its cursor from a log that has only grown since; its cursor is not
above what is stored; after the apply all of the page is stored, buffered
or foreign). A page cut by an ordered index with a limit has no holes below its
last entry of a device (`CutHasNoHoles`), which is why a number missing on the
page was missing at the broker; an uncut page is complete
(`LastPageIsComplete`), and with `CursorPassesOnlySkippedHoles` an all-clear is
complete.

**Messaging_proofs**: `TypeCorrect`, `LogIsPrimaryOnly`, `RetriesAreMade`,
`Refines`. For the refinement `Evidence` is added: a message that a caller was told
is queued, or that a running flush remembers, is in the outbox, held by a broker or
dropped. Without the second half the write of `incrementRetry` could not be
mapped: it brings an entry back only for a message of which that is true. With it
every step is a step of `ReliableSend` or leaves it alone. For the log
messages `Routed` says that no frame of one is on a connection to a secondary
broker. For the retries `Counted` bounds the count in the outbox together with the
number of tabs that have an attempt under way by the attempts made.

Its last part is about `BrokerLink`: `LinkTypeCorrect`, `ConnectedMeansRegistered`,
`EveryConnectionIsWatched`, `NoLingeringSocket`. `LinkInv` is the conjunction of the
types, the three properties and `SettledWhenConnected` (no `connect()` is pending in
a connected link), because each of them needs the others: that an event of a
replaced socket changes nothing rests on that socket being neither registered nor
watched. `HandlerKeeps` is the common argument: the handler of the present socket
may take the link out of `connected`, and every other one touches its own socket only.

**SecureRemoval_proofs**: `TypeCorrect`, `IdentityIsMaterial`,
`RemovalsAreEnforced`, `ConfirmationsAreBound`, `LeavingIsHandedBack`,
`DeletionIsEarned`. None of the properties is inductive: a run works on the copy of the record that it has read, while other runs
replace, confirm or delete the stored one. `IInv` adds three things. `RecordOK` is
what a record is worth, stored or read long ago: with an identity and confirmed, its
material is installed for its generation; beyond `broker-confirmed`, it is confirmed
and its removal is in the log; a record without identity has not passed the
enforcement gate; an acknowledged admin removal means that the broker has taken the
authority. `JobOK` is what a run knows at the point where it is suspended, e.g. at
`mark` that the broker has installed what was sent, at `delete` that the removal is
recorded or fulfilled. `OneMaterial` says that two records with the same identity
have one generation, material and kind; it is why comparing identities, which is all
that `Matches` does, is enough to let a phase or a deletion apply to the stored
record. All of this survives the steps of the others because what it rests on only
grows (`Grows`: generations are installed once, events are not taken back, the
authority does not return). So the lemma about a step of a run has to look at its own
record only (`RunStep`), and a step of the other admin or of the space at no record
at all (`OtherStep`). `DeletionIsEarned` is an action property; that only
`Delete` takes a record out of the store is `LocalKeeps`.

**DocPersistence_proofs**: `TypeCorrect`, `NoSaveOverlooked`, `NoEditForgotten`,
`SkippedSnapshotIsKnown`, `KeptIsLogged`. `Scheduling` says of each scheduler that
what it owes is in the document and not among the heads it has pushed (so that
the comparison of heads in `schedulePush` cannot stop a push that is owed), and that
the heads at the start of a push are covered by what it writes. `Copies` extends
the promise about edits to every copy that may become the document again: disk,
vault and download; that the way to the log never loses an edit is a lemma of its
own (`WayGrows`). `Records`: what is kept on disk is in memory, held by a flush, or
in the log. `Numbers`: also the number that a landed push or a finished download
is about to note stands for a snapshot that is known.

**InboxReception_proofs**: `TypeCorrect`, `RecordedLeavesTrace`,
`KeyAndCapability`. `RecordedIsKept` and `CanWrite` speak of the history; the proof
has to know what a handler can rely on before it records. `Fits` says which messages
come to which place of a handler, and `Reached` what has been stored when it gets
there: at `erase` and `pass` the capability, and a current generation that is not
below the message's; at `record` that the message is accounted for. `Grows` is what
every step but a crash leaves standing: capabilities and metadata stay, the current
generation does not fall, and a message that is accounted for stays so. A record on
disk goes away only with its effect (`Erase`) or into the hands of the pass
(`PassDelete`), which is why the pass, and only it, counts among the holders of a
message. `Topped` says that the keys have a largest generation and that a gap below
it lies below a key of another device (`Gapless`): a rotation is only
applied when the generation before it has been reached, and an invite fills
all below its own. This is how "not above the current generation", all that a
duplicate knows (`Traced`), gives what `Kept` asks. For the flush, `Lists` keeps that only messages for the host are flushed.
A crash has a lemma of its own: no handler survives it, and what was accounted for by
the document in memory alone is what it marks `loose`.

Only model-checked: the liveness properties (`PendingIsResolved`,
`CompletedIsRemoved`, `Converges`, `RemovalEnds`, `DialSettles`, `DeadIsNoticed`,
`Reconnects`, `Drains`, `Settles`), which are out of the prover's reach, as is
that the loops of `MCLogCatchUp` compute the heads (induction over a list). Every
other property of a passing run, all invariants among them, is a theorem.

## 6. What is not modelled, and the plan

Not modelled, and not planned: cryptography and encodings (pure functions on
bytes, no control state), the CRDT libraries, metrics and dashboards, the user
interfaces and their translations, the command line client, `apps/wot-v3`
(another carrier protocol), the identity seed vault (one record). They make up
most of the repository's lines, and what they have is layout, wording or
arithmetic on bytes: a model of them would check itself. The Automerge adapter and
its personal document are the twin of the Yjs one, with the same coordinator,
scheduler and outbox; the models follow the Yjs adapter, which is the one the
demo uses.

Planned, in this order:

1. **Publication**: `ensurePublished`, the restore-clone check on the heads of a
   page, the correlation of rejects; `SeqReservation` with a broker that
   remembers. Property: a clone never overwrites, pending entries reach the log.
2. **Challenge nonces** of the relay: pending, consumed, expired.
3. **InboxReception** composed with `InboxQueue`, whose client side it is.
4. **Personal documents**: the order of vault, disk and log at the start.
5. Verification challenges, attestation delivery, offline-first publication of
   profiles.
6. More abstract specifications: an append-only log per device that `RelayBroker`
   and `SeqReservation` implement together; an at-least-once mailbox for
   `InboxQueue`; a set that only grows and converges for `LogCatchUp`.
