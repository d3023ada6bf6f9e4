--------------------------- MODULE InboxReception ---------------------------
(***************************************************************************)
(* What a client does with the messages its broker keeps for it until they *)
(* are acknowledged.  Every message goes through the same frame: decrypt,  *)
(* verify, look it up among the ids already processed, hand it on, and     *)
(* when the outcome is conclusive record its id and acknowledge it.        *)
(* Attestations, receipts and profile updates are handed to the listeners  *)
(* of the application; space invites and key rotations change the keys of  *)
(* a space, and a rotation that comes too early is put aside on disk.      *)
(*                                                                         *)
(* Code: inbox-reception-workflow.ts, InboxReceptionHost.ts, the inbox     *)
(* part of YjsReplicationAdapter.ts, key-rotation-workflow.ts,             *)
(* invite-workflow.ts and IndexedDBMessageIdHistory.ts.                    *)
(*                                                                         *)
(* A handler is an asynchronous function that suspends at every access to  *)
(* a store and at every listener; a step goes from one suspension to the   *)
(* next.  Task is the set of handlers (and flushes of the host) that may   *)
(* be suspended together, Pass the one pass over the messages put aside.   *)
(*                                                                         *)
(* Two stores answer differently.  Content keys, capabilities, the ids     *)
(* and the records of early rotations are in databases: a write is durable *)
(* when its await returns.  What a listener stores, the metadata of the    *)
(* space go into the personal document: it changes in memory, the disk     *)
(* follows when a push succeeds, and nobody waits for it or learns that it *)
(* failed.  The keys and capability seeds in that document are those other *)
(* devices of the member have put there (what this device puts there it    *)
(* has stored before), any generations and at any time.                    *)
(*                                                                         *)
(* Abstractions.  One space.  Messages that cannot be decrypted or         *)
(* verified are left out: they change nothing.  A message is refused for   *)
(* its age before its id is looked up, and an id leaves the history only   *)
(* when its message is that old; so the history needs no expiry.  All      *)
(* carriers of a generation bring the same key and capability, and who may *)
(* rotate does not change, so no import conflicts.  Synchronisations       *)
(* overlap as they like: each of their awaits is a step that may happen    *)
(* whenever one may be running.  Deleting a record on disk succeeds.       *)
(* Receipts behave like attestations.  Member updates are signals for the  *)
(* user interface; they and the removal of spaces are left out.            *)
(***************************************************************************)
EXTENDS Integers, FiniteSets

CONSTANTS
    Delivery,   \* attestations and receipts
    Update,     \* profile updates
    Invite, Rotation,
    Gen,        \* the key generation an invite or a rotation brings
    Invalid,    \* messages whose content is refused
    Loads,      \* the sets of messages the broker may hold
    Elsewhere,  \* the messages another device of the member handles, too
    Task, Pass, None,
    MaxFaults   \* bound: crashes, failed accesses, late messages, lost acks,
                \* unsubscriptions

Host == Delivery \cup Update
Keyed == Invite \cup Rotation
Msg == Host \cup Keyed
Worker == Task \cup {Pass}

ASSUME ReceptionAssumption ==
    /\ Gen \in [Keyed -> Nat] /\ \A m \in Rotation : Gen[m] > 0
    /\ Delivery \cap Update = {} /\ Invite \cap Rotation = {} /\ Host \cap Keyed = {}
    /\ Loads \subseteq SUBSET Msg /\ Invalid \subseteq Msg
    /\ Elsewhere \subseteq Keyed
    /\ Pass \notin Task /\ None \notin Msg /\ MaxFaults \in Nat

VARIABLES
    queue,      \* the messages the broker has
    sent,       \* those it has sent on the present connection
    old,        \* those that came when they were more than a day old
    history,    \* IndexedDBMessageIdHistory
    doc, saved, \* the personal document in memory and on disk
    held,       \* pendingDeliveries and pendingProfileUpdates
    listening,  \* the kinds of messages that have a listener
    keys, caps, \* generations whose content key, capability is stored
    space,      \* spaces.has
    mem, disk,  \* pendingMessages, and their records in the compact store
    up,         \* start() has read the records of early rotations
    at,         \* where a worker is suspended, and with which message
    todo,       \* what a flush or the pass still has to go through
    loose,      \* messages whose trace one of the paths below has lost
    faults

wire == <<queue, sent, old>>
personal == <<doc, saved>>
host == <<held, listening>>
store == <<keys, caps>>
vars == <<wire, history, personal, host, store, space, mem, disk, up, at, todo, loose, faults>>

Places == {"idle", "dispatch", "flush", "classify", "key", "cap", "dup", "join", "persist",
           "save", "erase", "pass", "next", "delete", "record", "note", "ack"}

\* What the personal document says of these messages and this space.
Document == [applied : SUBSET Host, meta : BOOLEAN]

TypeOK ==
    /\ queue \subseteq Msg /\ sent \subseteq queue /\ old \subseteq Msg
    /\ history \subseteq Msg /\ loose \subseteq Msg
    /\ doc \in Document /\ saved \in Document
    /\ held \subseteq Host /\ listening \subseteq {"delivery", "update"}
    /\ keys \subseteq Nat /\ caps \subseteq Nat /\ space \in BOOLEAN
    /\ mem \subseteq Rotation /\ disk \subseteq Rotation /\ up \in BOOLEAN
    /\ at \in [Worker -> [pc : Places, msg : Msg \cup {None}]] /\ todo \in [Worker -> SUBSET Msg]
    /\ faults \in 0 .. MaxFaults

\* getCurrentGeneration: the largest generation with a key, -1 without any.
Cur == CHOOSE g \in keys \cup {-1} : \A k \in keys : k <= g

Kind(m) == IF m \in Delivery THEN "delivery" ELSE "update"

-----------------------------------------------------------------------------
(* The frame: receiveInboxMessage, concludeByDisposition, sendInboxAck.      *)

\* A worker at p with message m; between two messages it has none.
Place(p, m) == [pc |-> p, msg |-> IF p \in {"idle", "next", "flush"} THEN None ELSE m]

At(w, p) == at[w].pc = p
msg(w) == at[w].msg
Enter(w, p, m) == at' = [at EXCEPT ![w] = Place(p, m)]
Goto(w, p) == Enter(w, p, msg(w))

\* A handler ends; a flush goes on with its next message.
Done(t) == Goto(t, IF todo[t] = {} THEN "idle" ELSE "flush")

Fault == faults < MaxFaults /\ faults' = faults + 1

\* The broker sends a message once on every connection.
Arrives(m) == m \in queue \ (sent \cup old) /\ sent' = sent \cup {m}

\* A message that is more than a day old is rejected: not recorded, not
\* acknowledged.  (When it comes again nothing else happens.)
Reject(m) ==
    /\ Arrives(m) /\ old' = old \cup {m} /\ Fault
    /\ UNCHANGED <<queue, history, personal, host, store, space, mem, disk, up, at, todo, loose>>

\* It passes verifyInboxInnerJws and is taken up by an idle task that will
\* first be at p.
Take(t, m, p) ==
    /\ At(t, "idle") /\ Arrives(m) /\ Enter(t, p, m)

\* The id is known: nothing is done again, only acknowledged.
\* Mutant: a known message is dropped.
ReplaySilently(t, m) ==
    /\ m \in history /\ At(t, "idle") /\ Arrives(m)
    /\ UNCHANGED <<queue, old, history, personal, host, store, space, mem, disk, up, at, todo,
                   loose, faults>>
Replay(t, m) ==
    /\ m \in history /\ Take(t, m, "ack")
    /\ UNCHANGED <<queue, old, history, personal, host, store, space, mem, disk, up, todo,
                   loose, faults>>

\* The message is refused for good.  (A rotation is judged later.)
Refuse(t, m) ==
    /\ m \in Invalid \ (history \cup Rotation) /\ Take(t, m, "note")
    /\ UNCHANGED <<queue, old, history, personal, host, store, space, mem, disk, up, todo,
                   loose, faults>>

\* The outcome is conclusive; only one that is not a refusal is acknowledged.
Record(t) ==
    /\ at[t].pc \in {"record", "note"}
    /\ history' = history \cup {msg(t)}
    /\ IF At(t, "record") THEN Goto(t, "ack") ELSE Done(t)
    /\ UNCHANGED <<wire, personal, host, store, space, mem, disk, up, todo, loose, faults>>

Ack(t) ==
    /\ At(t, "ack") /\ Done(t)
    /\ queue' = queue \ {msg(t)} /\ sent' = sent \ {msg(t)}
    /\ UNCHANGED <<old, history, personal, host, store, space, mem, disk, up, todo, loose, faults>>

-----------------------------------------------------------------------------
(* The reception host.                                                       *)

\* Without a listener the message is held in memory, neither recorded nor
\* acknowledged.
Hold(m) ==
    /\ m \in Host \ (history \cup Invalid) /\ Kind(m) \notin listening
    /\ Arrives(m)
    /\ held' = held \cup {m}
    /\ UNCHANGED <<queue, old, history, personal, listening, store, space, mem, disk, up, at,
                   todo, loose, faults>>

Deliver(t, m) ==
    /\ m \in Host \ (history \cup Invalid) /\ Kind(m) \in listening
    /\ Take(t, m, "dispatch")
    /\ UNCHANGED <<queue, old, history, personal, host, store, space, mem, disk, up, todo,
                   loose, faults>>

\* The listeners have put the message into the personal document.
Apply(t) ==
    /\ At(t, "dispatch") /\ Goto(t, "record")
    /\ doc' = [doc EXCEPT !.applied = @ \cup {msg(t)}]
    /\ UNCHANGED <<wire, history, saved, host, store, space, mem, disk, up, todo, loose, faults>>

\* onAttestation, onProfileUpdate: what is held goes to the new listener.
\* (One that no message is going to meet is left out.)
Subscribe(t, k) ==
    /\ k \in {Kind(m) : m \in queue \cap Host} \ listening /\ At(t, "idle")
    /\ listening' = listening \cup {k}
    /\ LET flushed == {m \in held : Kind(m) = k}
       IN /\ held' = held \ flushed
          /\ todo' = [todo EXCEPT ![t] = flushed]
          /\ Goto(t, IF flushed = {} THEN "idle" ELSE "flush")
    /\ UNCHANGED <<wire, history, personal, store, space, mem, disk, up, loose, faults>>

\* The next message of a flush.  The listener may be gone: a profile update
\* is then held again, an attestation counts as delivered (to nobody).
\* Mutant: a profile update counts as delivered, too.
FlushToNobody(t) ==
    /\ At(t, "flush")
    /\ \E m \in todo[t] :
          /\ todo' = [todo EXCEPT ![t] = @ \ {m}]
          /\ Enter(t, IF Kind(m) \in listening THEN "dispatch" ELSE "record", m)
    /\ UNCHANGED <<wire, history, personal, host, store, space, mem, disk, up, loose, faults>>
Flush(t) ==
    /\ At(t, "flush")
    /\ \E m \in todo[t] :
          /\ todo' = [todo EXCEPT ![t] = @ \ {m}]
          /\ \/ Kind(m) \in listening /\ Enter(t, "dispatch", m) /\ UNCHANGED <<held, loose>>
             \/ /\ Kind(m) \notin listening /\ m \in Delivery
                /\ loose' = loose \cup {m} /\ Enter(t, "record", m) /\ UNCHANGED held
             \/ /\ Kind(m) \notin listening /\ m \in Update
                /\ held' = held \cup {m} /\ UNCHANGED loose
                /\ Goto(t, IF todo[t] = {m} THEN "idle" ELSE "flush")
    /\ UNCHANGED <<wire, history, personal, listening, store, space, mem, disk, up, faults>>

\* pushToCompactStore has written the personal document.  Nobody waits for it,
\* and when it fails only the next change of the document leads to another.
Save ==
    /\ saved /= doc /\ saved' = doc
    /\ UNCHANGED <<wire, history, doc, host, store, space, mem, disk, up, at, todo, loose, faults>>

-----------------------------------------------------------------------------
(* Key rotations.  The same steps are taken by a task and by the pass; where *)
(* a task concludes, the pass goes to its next message.                      *)

Conclude(w, p) == IF w = Pass THEN "next" ELSE p

\* handleKeyRotation begins: without the space nobody can tell whether the
\* sender may rotate, and the message is put aside.
Begin(w, m) ==
    /\ Enter(w, IF space THEN "classify" ELSE "save", m)
    /\ mem' = IF space THEN mem ELSE mem \cup {m}

Rotate(t, m) ==
    /\ m \in Rotation \ history /\ At(t, "idle") /\ Arrives(m) /\ Begin(t, m)
    /\ UNCHANGED <<queue, old, history, personal, host, store, space, disk, up, todo,
                   loose, faults>>

\* applyKeyRotationBody: authority, then the generation against the current
\* one.  A rotation too far ahead is put aside; one that is behind counts as
\* a duplicate, whether or not its key is there.
\* Mutant: a rotation too far ahead is applied at once.
ApplyAhead(w) ==
    /\ At(w, "classify")
    /\ Goto(w, IF msg(w) \in Invalid THEN Conclude(w, "note")
               ELSE IF Gen[msg(w)] <= Cur THEN "dup" ELSE "key")
    /\ UNCHANGED <<wire, history, personal, host, store, space, mem, disk, up, todo, loose, faults>>
Classify(w) ==
    /\ At(w, "classify")
    /\ LET m == msg(w) IN
       /\ Goto(w, IF m \in Invalid THEN Conclude(w, "note")
                  ELSE IF Gen[m] <= Cur THEN "dup"
                  ELSE IF Gen[m] = Cur + 1 THEN "key" ELSE "save")
       /\ mem' = IF m \notin Invalid /\ Gen[m] > Cur + 1 THEN mem \cup {m} ELSE mem
    /\ UNCHANGED <<wire, history, personal, host, store, space, disk, up, todo, loose, faults>>

\* bufferPendingSpaceMessage has written the record.
SavePending(w) ==
    /\ At(w, "save") /\ disk' = disk \cup {msg(w)} /\ loose' = loose \ {msg(w)}
    /\ Goto(w, Conclude(w, "record"))
    /\ UNCHANGED <<wire, history, personal, host, store, space, mem, up, todo, faults>>

\* An invite brings every generation up to its own, a rotation one.
SaveKey(w) ==
    /\ At(w, "key") /\ Goto(w, "cap")
    /\ keys' = keys \cup (IF msg(w) \in Invite THEN 0 .. Gen[msg(w)] ELSE {Gen[msg(w)]})
    /\ UNCHANGED <<wire, history, personal, host, caps, space, mem, disk, up, todo, loose, faults>>

SaveCapability(w) ==
    /\ At(w, "cap") /\ caps' = caps \cup {Gen[msg(w)]}
    /\ Goto(w, IF msg(w) \in Invite THEN "join" ELSE "erase")
    /\ UNCHANGED <<wire, history, personal, host, keys, space, mem, disk, up, todo, loose, faults>>

\* importDuplicateCapabilityMaterial: the key was there before the rotation
\* came, the capability may not be.
\* Mutant: a duplicate brings nothing.
IgnoreDuplicate(w) ==
    /\ At(w, "dup") /\ Goto(w, Conclude(w, "record"))
    /\ UNCHANGED <<wire, history, personal, host, store, space, mem, disk, up, todo, loose, faults>>
ImportDuplicate(w) ==
    /\ At(w, "dup") /\ Goto(w, Conclude(w, "record"))
    /\ caps' = IF Gen[msg(w)] = Cur THEN caps \cup {Cur} ELSE caps
    /\ UNCHANGED <<wire, history, personal, host, keys, space, mem, disk, up, todo, loose, faults>>

-----------------------------------------------------------------------------
(* The pass over what was put aside: processPendingForSpace.                 *)

\* A caller starts it, unless it runs already or there is nothing to do.
Starts(aside) == At(Pass, "idle") /\ aside /= {}
PassTodo(aside) == todo' = IF Starts(aside) THEN [todo EXCEPT ![Pass] = aside] ELSE todo
\* Task t waits for the pass it started.
StartPass(t, aside) ==
    /\ PassTodo(aside)
    /\ at' = [at EXCEPT ![t] = Place(IF Starts(aside) THEN "pass" ELSE "record", msg(t)),
                        ![Pass] = IF Starts(aside) THEN Place("next", None) ELSE @]
\* A caller that is no handler.
StartLonePass(aside) ==
    /\ PassTodo(aside)
    /\ at' = [at EXCEPT ![Pass] = IF Starts(aside) THEN Place("next", None) ELSE @]

\* The rotation is applied: it is no longer pending, and others may fit now.
Erase(w) ==
    /\ At(w, "erase")
    /\ mem' = mem \ {msg(w)} /\ disk' = disk \ {msg(w)}
    /\ IF w = Pass THEN Goto(w, "next") /\ UNCHANGED todo ELSE StartPass(w, mem')
    /\ UNCHANGED <<wire, history, personal, host, store, space, up, loose, faults>>

\* In ascending order; a message that is pending no more is passed over.
PassNext ==
    /\ At(Pass, "next")
    /\ \E m \in todo[Pass] :
          /\ \A n \in todo[Pass] : Gen[m] <= Gen[n]
          /\ todo' = [todo EXCEPT ![Pass] = @ \ {m}]
          /\ IF m \in mem THEN mem' = mem \ {m} /\ Enter(Pass, "delete", m)
             ELSE UNCHANGED <<mem, at>>
    /\ UNCHANGED <<wire, history, personal, host, store, space, disk, up, loose, faults>>

\* The record is deleted first, then the message is handled.
PassDelete ==
    /\ At(Pass, "delete")
    /\ disk' = disk \ {msg(Pass)}
    /\ Begin(Pass, msg(Pass))
    /\ UNCHANGED <<wire, history, personal, host, store, space, up, todo, loose, faults>>

\* The message whose record the pass has deleted and which it has not yet
\* put into effect.
InPass == {m \in Rotation : msg(Pass) = m /\ at[Pass].pc \notin {"delete", "erase"}}

PassEnd ==
    /\ At(Pass, "next") /\ todo[Pass] = {}
    /\ at' = [w \in Worker |-> IF w = Pass THEN Place("idle", None)
                               ELSE IF At(w, "pass") THEN Place("record", msg(w)) ELSE at[w]]
    /\ UNCHANGED <<wire, history, personal, host, store, space, mem, disk, up, todo, loose, faults>>

-----------------------------------------------------------------------------
(* Space invites: handleSpaceInvite.                                         *)

Accept(t, m) ==
    /\ m \in Invite \ (history \cup Invalid) /\ Take(t, m, "key")
    /\ UNCHANGED <<queue, old, history, personal, host, store, space, mem, disk, up, todo,
                   loose, faults>>

\* The space may be there already; then its metadata are not written, even
\* if the handler that created it has not come that far or has failed.
Join(t) ==
    /\ At(t, "join") /\ space' = TRUE
    /\ Goto(t, IF space THEN "record" ELSE "persist")
    /\ loose' = IF space /\ ~doc.meta THEN loose \cup {msg(t)} ELSE loose
    /\ UNCHANGED <<wire, history, personal, host, store, mem, disk, up, todo, faults>>

Persist(t) ==
    /\ At(t, "persist")
    /\ doc' = [doc EXCEPT !.meta = TRUE]
    /\ StartPass(t, mem)
    /\ UNCHANGED <<wire, history, saved, host, store, space, mem, disk, up, loose, faults>>

-----------------------------------------------------------------------------
(* Start, and the synchronisation that every change of the personal document *)
(* asks for: restoreSpacesFromMetadata, requestSync('__all__').              *)

RestorePending ==
    /\ ~up /\ up' = TRUE /\ mem' = mem \cup disk
    /\ UNCHANGED <<wire, history, personal, host, store, space, disk, at, todo, loose, faults>>

\* What another device has put into the personal document for message m.
Shared(m) == m \in (Elsewhere \cap (queue \cup history)) \ Invalid

\* The other device has joined the space: the metadata arrive.
Merge(m) ==
    /\ Shared(m) /\ m \in Invite
    /\ doc' = [doc EXCEPT !.meta = TRUE]
    /\ UNCHANGED <<wire, history, saved, host, store, space, mem, disk, up, at, todo,
                   loose, faults>>

\* _reloadGroupKeys awaits one import after the other; the document need not
\* hold the generations before or between its keys.
ImportKey(m) ==
    /\ up /\ (space \/ doc.meta) /\ Shared(m) /\ Gen[m] \notin keys
    /\ keys' = keys \cup {Gen[m]}
    /\ UNCHANGED <<wire, history, personal, host, caps, space, mem, disk, up, at, todo,
                   loose, faults>>

\* _reloadCapabilitySeeds: only with the key, never over another.
ImportSeed(m) ==
    /\ up /\ (space \/ doc.meta) /\ Shared(m) /\ Gen[m] \in keys \ caps
    /\ caps' = caps \cup {Gen[m]}
    /\ UNCHANGED <<wire, history, personal, host, keys, space, mem, disk, up, at, todo,
                   loose, faults>>

RestoreSpace ==
    /\ up /\ doc.meta /\ ~space /\ space' = TRUE
    /\ StartLonePass(mem)
    /\ UNCHANGED <<wire, history, personal, host, store, mem, disk, up, loose, faults>>

RequestSync ==
    /\ up /\ space /\ StartLonePass(mem)
    /\ UNCHANGED <<wire, history, personal, host, store, space, mem, disk, up, loose, faults>>

-----------------------------------------------------------------------------
(* What goes wrong.                                                          *)

\* A listener or a store rejects in a handler: the message is not concluded.
\* Only a flush whose listener has thrown goes on.
Fail(t) ==
    /\ at[t].pc \notin {"idle", "flush", "pass", "ack"} /\ Fault
    /\ IF At(t, "dispatch") THEN Done(t) /\ UNCHANGED todo
       ELSE Goto(t, "idle") /\ todo' = [todo EXCEPT ![t] = {}]
    /\ UNCHANGED <<wire, history, personal, host, store, space, mem, disk, up, loose>>

\* A store rejects in the pass.  A record that cannot be written is caught;
\* otherwise the pass ends, and with it the handler that waits for it.  The
\* message has no record any more.
PassFail ==
    /\ at[Pass].pc \notin {"idle", "next", "delete"} /\ Fault
    /\ IF At(Pass, "save") THEN Goto(Pass, "next") /\ UNCHANGED todo
       ELSE /\ todo' = [todo EXCEPT ![Pass] = {}]
            /\ at' = [w \in Worker |-> IF w = Pass \/ At(w, "pass") THEN Place("idle", None)
                                       ELSE at[w]]
    /\ loose' = loose \cup InPass
    /\ UNCHANGED <<wire, history, personal, host, store, space, mem, disk, up>>

\* The connection is renewed and everything is sent again.  While a handler
\* is suspended this counts as a fault.
Reconnect ==
    /\ sent /= {} /\ sent' = {}
    /\ IF \A t \in Task : At(t, "idle") THEN UNCHANGED faults ELSE Fault
    /\ UNCHANGED <<queue, old, history, personal, host, store, space, mem, disk, up, at, todo,
                   loose>>

LoseAck(t) ==
    /\ At(t, "ack") /\ Fault /\ Done(t)
    /\ UNCHANGED <<wire, history, personal, host, store, space, mem, disk, up, todo, loose>>

\* The effect of the application is torn down; stop() also forgets what is held.
Unsubscribe ==
    /\ listening /= {} /\ listening' = {} /\ held' \in {held, {}} /\ Fault
    /\ UNCHANGED <<wire, history, personal, store, space, mem, disk, up, at, todo, loose>>

\* What the document in memory has before the disk is gone, and the message
\* the pass is working on.
Crash ==
    /\ Fault
    /\ at' = [w \in Worker |-> Place("idle", None)] /\ todo' = [w \in Worker |-> {}]
    /\ held' = {} /\ listening' = {} /\ mem' = {} /\ space' = FALSE /\ up' = FALSE
    /\ sent' = {} /\ doc' = saved
    /\ loose' = loose \cup InPass
                \cup {m \in history : m \in doc.applied \ saved.applied
                                      \/ (m \in Invite /\ doc.meta /\ ~saved.meta)}
    /\ UNCHANGED <<queue, old, history, saved, store, disk>>

-----------------------------------------------------------------------------
\* A member that is not about to be invited has joined the space before.
Init ==
    /\ queue \in Loads /\ sent = {} /\ old = {} /\ history = {}
    /\ LET member == queue \cap Invite = {}
       IN /\ keys = (IF member THEN {0} ELSE {}) /\ caps = keys
          /\ doc = [applied |-> {}, meta |-> member]
    /\ saved = doc /\ held = {} /\ listening = {}
    /\ space = FALSE /\ mem = {} /\ disk = {} /\ up = FALSE
    /\ at = [w \in Worker |-> Place("idle", None)]
    /\ todo = [w \in Worker |-> {}]
    /\ loose = {} /\ faults = 0

Receive(t, m) ==
    \/ Replay(t, m) \/ Refuse(t, m) \/ Deliver(t, m) \/ Rotate(t, m) \/ Accept(t, m)

Step(w) ==
    \/ Classify(w) \/ SavePending(w) \/ SaveKey(w) \/ SaveCapability(w)
    \/ ImportDuplicate(w) \/ Erase(w)

TaskStep(t) ==
    Step(t) \/ Record(t) \/ Ack(t) \/ Apply(t) \/ Flush(t) \/ Join(t) \/ Persist(t)

PassStep == Step(Pass) \/ PassNext \/ PassDelete \/ PassEnd

Synchronise ==
    \/ RestoreSpace \/ RequestSync
    \/ \E m \in Elsewhere : ImportKey(m) \/ ImportSeed(m)

Next ==
    \/ \E t \in Task : \/ \E m \in Msg : Receive(t, m)
                       \/ TaskStep(t) \/ Fail(t) \/ LoseAck(t)
                       \/ \E k \in {"delivery", "update"} : Subscribe(t, k)
    \/ \E m \in Msg : Hold(m) \/ Reject(m) \/ Merge(m)
    \/ PassStep \/ PassFail
    \/ RestorePending \/ Synchronise \/ Save
    \/ Unsubscribe \/ Reconnect \/ Crash

Spec == Init /\ [][Next]_vars

\* Handlers and the pass go on; the broker offers what is not acknowledged
\* again; the application subscribes when it is mounted.  Nothing makes the
\* personal document change, so no synchronisation is sure to come.
Fairness ==
    /\ \A t \in Task : WF_vars(TaskStep(t))
    /\ WF_vars(PassStep)
    /\ WF_vars(\E t \in Task, m \in Msg : Receive(t, m)) /\ WF_vars(Reconnect)
    /\ WF_vars(\E t \in Task, k \in {"delivery", "update"} : Subscribe(t, k))

LiveSpec == Spec /\ Fairness

-----------------------------------------------------------------------------
(* Properties.                                                               *)

\* The key of generation g is stored, or one above it that another device had.
Passed(g) == g \in keys \/ \E n \in Elsewhere : Gen[n] \in keys /\ g < Gen[n]

\* What the message is for is done, or is sure to be done again.
Kept(m) ==
    \/ m \in doc.applied
    \/ m \in Invite /\ doc.meta
    \/ m \in Rotation /\ (m \in disk \cup InPass \/ Passed(Gen[m]))

(* A message whose id is recorded will never be processed again: the next    *)
(* time it comes it is acknowledged as a replay.  Its effect can be lost on  *)
(* four paths only, which mark it loose: a crash before the personal         *)
(* document is on disk; a crash or a failing store while the pass has a      *)
(* message whose record it has deleted; a flush whose listener is gone (but  *)
(* no profile update); an invite that meets a space without metadata.  And   *)
(* the key of a rotation may be missing only when the personal document has  *)
(* brought a later one: this device never applies one that leaves a gap.     *)
(* Whatever else happens and in whatever order, what was recorded is kept.   *)
RecordedIsKept == \A m \in history \ (Invalid \cup loose) : Kept(m)

(* When the rotation to the current generation has been concluded, the       *)
(* device can also write under it, although a crash may separate key and     *)
(* capability, and the content key may come first from another device.       *)
CanWrite ==
    \A m \in (history \cap Keyed) \ (Invalid \cup disk \cup InPass \cup loose) :
        Gen[m] = Cur => Cur \in caps

(* Once nothing fails any more, every message leaves the broker before it is *)
(* a day old, or stays there as one the client will never take: no handler   *)
(* waits for ever, for the pass, for a listener or for another handler.      *)
Settles == <>[](queue \subseteq old)

=============================================================================
