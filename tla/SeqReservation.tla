--------------------------- MODULE SeqReservation ---------------------------
(***************************************************************************)
(* The durable client log of one document as several browser tabs use it:  *)
(* appendLocalEntry reserves a sequence number, builds the encrypted and   *)
(* signed entry, inserts it and only then sends it; the nonce of an entry  *)
(* is a function of (deviceId, seq) alone, so a pair that is ever sent     *)
(* must stay bound to one content.                                         *)
(*                                                                         *)
(* Code: wot-core/src/adapters/storage/IndexedDBDocLogStore.ts, SeqLock.ts,*)
(* the write path of protocol/sync/log-sync-coordinator.ts and             *)
(* adapters/messaging/logRestoreClone.ts.                                  *)
(*                                                                         *)
(* Abstractions.  One document; an entry's JWS is the triple it commits to *)
(* (device, seq, update).  Every IndexedDB transaction is one step, the    *)
(* asynchronous crypto between two transactions separates steps.  The      *)
(* broker is only the set of entries that reached the wire.  Storage loss  *)
(* (eviction) is an environment step that strikes while no tab is open.    *)
(***************************************************************************)
EXTENDS Integers, FiniteSets

CONSTANTS
    Device,      \* the deviceIds mintDeviceId() can return
    Tab,         \* browser tabs (JS contexts) sharing the database
    Writer,      \* concurrent writeLocalUpdate() calls
    TabOf,       \* the tab each writer runs in
    Update,      \* local updates; each is written by one call
    WebLocks,    \* TRUE: navigator.locks exists; FALSE: in-process fallback
    None,        \* "no deviceId stored", "tab not open", "no update"
    MaxRetries,  \* MAX_SEQ_RETRIES
    MaxOpens,    \* bound on tab openings
    MaxRebinds   \* bound on rejected deviceIds

ASSUME SeqAssumption ==
    /\ None \notin Device \cup Update
    /\ TabOf \in [Writer -> Tab]
    /\ WebLocks \in BOOLEAN
    /\ MaxRetries \in Nat \ {0}
    /\ MaxOpens \in Nat /\ MaxRebinds \in Nat

VARIABLES
    meta,      \* META_STORE[deviceId], None when absent
    log,       \* ENTRIES_STORE: the entries of the document
    acked,     \* the entries of log whose status is 'acked'
    session,   \* deviceId each open tab authors under, None when closed
    rebind,    \* deviceIds the reject handlers of a tab are binding
    gate,      \* those whose restoreClone holds the write-pause gate
    pc,        \* control state of each writer
    wdev,      \* deviceId snapshot of each writer
    wseq,      \* the seq the writer has reserved
    wupd,      \* the update it writes
    tries,     \* failed db.add() attempts of the current call
    wire,      \* every entry ever handed to the transport
    minted,    \* every deviceId ever minted
    written,   \* updates some call has taken up
    opens,     \* number of tab openings so far
    rebinds    \* number of rejected deviceIds so far

durable == <<meta, log, acked>>
tabs    == <<session, rebind, gate, opens, rebinds>>
writers == <<pc, wdev, wseq, wupd, tries, written>>
vars    == <<durable, tabs, writers, wire, minted>>

Entry == [dev : Device, seq : Nat, upd : Update]

Pending == log \ acked

EntriesOf(d) == {e \in log : e.dev = d}

\* readMaxSeq: the largest stored seq of a device, -1 for an empty log.
MaxSeq(d) ==
    IF EntriesOf(d) = {} THEN -1
    ELSE CHOOSE n \in {e.seq : e \in EntriesOf(d)} : \A e \in EntriesOf(d) : e.seq <= n

\* The entry a writer has built for the seq it reserved.
Built(w) == [dev |-> wdev[w], seq |-> wseq[w], upd |-> wupd[w]]

\* Two calls exclude each other when they use the same lock name in the same
\* lock manager: origin-wide with Web Locks, per tab otherwise.
SameLock(v, w) == wdev[v] = wdev[w] /\ (WebLocks \/ TabOf[v] = TabOf[w])

Critical == {"reserve", "build"}

\* The write-pause gate of a tab is closed.
Paused(t) == rebind[t] \cap gate # {}

NoWrite(w) == \* the writer's call returns or throws
    /\ pc' = [pc EXCEPT ![w] = "idle"]
    /\ UNCHANGED <<wdev, wseq, wupd, written>>
    /\ tries' = [tries EXCEPT ![w] = 0]

Init ==
    /\ meta = None /\ log = {} /\ acked = {}
    /\ session = [t \in Tab |-> None]
    /\ rebind = [t \in Tab |-> {}]
    /\ gate = {}
    /\ pc = [w \in Writer |-> "idle"]
    /\ wdev = [w \in Writer |-> None]
    /\ wseq = [w \in Writer |-> 0]
    /\ wupd = [w \in Writer |-> None]
    /\ tries = [w \in Writer |-> 0]
    /\ wire = {} /\ minted = {} /\ written = {}
    /\ opens = 0 /\ rebinds = 0

-----------------------------------------------------------------------------
(* Start of a session: resolveConnectDeviceId, one readwrite transaction.   *)

Connect(t, d) ==
    /\ session[t] = None
    /\ opens < MaxOpens
    /\ opens' = opens + 1
    /\ meta' = d
    /\ session' = [session EXCEPT ![t] = d]
    /\ UNCHANGED <<log, acked, rebind, gate, rebinds, writers, wire>>

\* deviceId present and it has authored entries: resume.
ResumeDevice(t) ==
    /\ meta # None
    /\ EntriesOf(meta) # {}
    /\ Connect(t, meta)
    /\ UNCHANGED minted

\* deviceId present, its log gone: rotate to a fresh namespace.
RotateDevice(t, d) ==
    /\ meta # None
    /\ EntriesOf(meta) = {}
    /\ d \notin minted
    /\ Connect(t, d)
    /\ minted' = minted \cup {d}

\* deviceId absent, pending entries of exactly one device: re-bind to it.
\* (Pending entries of several devices throw OrphanedLogRepairError: the tab
\* does not open and nothing changes.)
RebindOrphan(t) ==
    /\ meta = None
    /\ \E e \in Pending :
         /\ \A f \in Pending : f.dev = e.dev
         /\ Connect(t, e.dev)
    /\ UNCHANGED minted

\* deviceId absent, nothing pending: cold start.
ColdStart(t, d) ==
    /\ meta = None
    /\ Pending = {}
    /\ d \notin minted
    /\ Connect(t, d)
    /\ minted' = minted \cup {d}

-----------------------------------------------------------------------------
(* writeLocalUpdate / appendLocalEntry.                                     *)

\* The deviceId is snapshotted once per call.
StartWrite(w, u) ==
    /\ pc[w] = "idle"
    /\ session[TabOf[w]] # None
    /\ u \notin written
    /\ written' = written \cup {u}
    /\ pc' = [pc EXCEPT ![w] = "wait"]
    /\ wdev' = [wdev EXCEPT ![w] = session[TabOf[w]]]
    /\ wupd' = [wupd EXCEPT ![w] = u]
    /\ UNCHANGED <<durable, tabs, wseq, tries, wire, minted>>

AcquireLock(w) ==
    /\ pc[w] = "wait"
    /\ \A v \in Writer \ {w} : SameLock(v, w) => pc[v] \notin Critical
    /\ pc' = [pc EXCEPT ![w] = "reserve"]
    /\ UNCHANGED <<durable, tabs, wdev, wseq, wupd, tries, written, wire, minted>>

\* First transaction: read the largest stored seq; the crypto follows.
\* Mutant: a seq is burnt on every reservation.
ReserveSeqSkipping(w) ==
    /\ pc[w] = "reserve"
    /\ wseq' = [wseq EXCEPT ![w] = MaxSeq(wdev[w]) + 2]
    /\ pc' = [pc EXCEPT ![w] = "build"]
    /\ UNCHANGED <<durable, tabs, wdev, wupd, tries, written, wire, minted>>

ReserveSeq(w) ==
    /\ pc[w] = "reserve"
    /\ wseq' = [wseq EXCEPT ![w] = MaxSeq(wdev[w]) + 1]
    /\ pc' = [pc EXCEPT ![w] = "build"]
    /\ UNCHANGED <<durable, tabs, wdev, wupd, tries, written, wire, minted>>

\* build() rejects: nothing was stored, the seq stays free.
BuildFails(w) ==
    /\ pc[w] = "build"
    /\ NoWrite(w)
    /\ UNCHANGED <<durable, tabs, wire, minted>>

\* Second transaction: db.add() succeeds, the lock is released.
\* Mutant: put() instead of add() overwrites the entry of another tab.
PersistEntryByPut(w) ==
    /\ pc[w] = "build"
    /\ log' = {e \in log : e.dev # wdev[w] \/ e.seq # wseq[w]} \cup {Built(w)}
    /\ pc' = [pc EXCEPT ![w] = "send"]
    /\ UNCHANGED <<meta, acked, tabs, wdev, wseq, wupd, tries, written, wire, minted>>

PersistEntry(w) ==
    /\ pc[w] = "build"
    /\ \A e \in log : ~(e.dev = wdev[w] /\ e.seq = wseq[w])
    /\ log' = log \cup {Built(w)}
    /\ pc' = [pc EXCEPT ![w] = "send"]
    /\ UNCHANGED <<meta, acked, tabs, wdev, wseq, wupd, tries, written, wire, minted>>

\* db.add() raises ConstraintError: retry from the read, or give up.
AddConflict(w) ==
    /\ pc[w] = "build"
    /\ \E e \in log : e.dev = wdev[w] /\ e.seq = wseq[w]
    /\ \/ /\ tries[w] + 1 < MaxRetries
          /\ tries' = [tries EXCEPT ![w] = tries[w] + 1]
          /\ pc' = [pc EXCEPT ![w] = "reserve"]
          /\ UNCHANGED <<wdev, wseq, wupd, written>>
       \/ tries[w] + 1 >= MaxRetries /\ NoWrite(w)
    /\ UNCHANGED <<durable, tabs, wire, minted>>

\* sendLogEntryEnvelope: waits for the write-pause gate, then the stored bytes
\* go out.
SendEntry(w) ==
    /\ pc[w] = "send"
    /\ ~Paused(TabOf[w])
    /\ wire' = wire \cup {Built(w)}
    /\ NoWrite(w)
    /\ UNCHANGED <<durable, tabs, minted>>

\* The transport throws: the entry stays pending.
SendFails(w) ==
    /\ pc[w] = "send"
    /\ ~Paused(TabOf[w])
    /\ NoWrite(w)
    /\ UNCHANGED <<durable, tabs, wire, minted>>

\* resendPending: the stored entry of the current deviceId is sent again.
ResendPending(t, e) ==
    /\ session[t] # None
    /\ ~Paused(t)
    /\ e.dev = session[t]
    /\ wire' = wire \cup {e}
    /\ UNCHANGED <<durable, tabs, writers, minted>>

\* A broker receipt reaches an open tab: markAcked.
ReceiveReceipt(t, e) ==
    /\ session[t] # None
    /\ e \in wire
    /\ acked' = acked \cup {e}
    /\ UNCHANGED <<meta, log, tabs, writers, wire, minted>>

-----------------------------------------------------------------------------
(* A rejected device: the handler of logRestoreClone.ts mints a new          *)
(* deviceId, persists it, re-registers it on a fresh socket and only then    *)
(* hands it to the coordinator.                                              *)

MintForRebind(t, d) ==
    /\ session[t] # None
    /\ rebinds < MaxRebinds
    /\ rebinds' = rebinds + 1
    /\ d \notin minted
    /\ minted' = minted \cup {d}
    /\ meta' = d
    /\ rebind' = [rebind EXCEPT ![t] = rebind[t] \cup {d}]
    /\ UNCHANGED <<log, acked, session, opens, writers, wire>>

\* restoreClone: one at a time; sends are paused until the new deviceId is
\* bound and published.
RestoreClone(t, d) == ~Paused(t) /\ MintForRebind(t, d) /\ gate' = gate \cup {d}

\* deviceReRegister after DEVICE_ID_CONFLICT: no guard and no pause.
DeviceReRegister(t, d) == MintForRebind(t, d) /\ UNCHANGED gate

RebindDone(t, d) ==
    /\ d \in rebind[t]
    /\ session' = [session EXCEPT ![t] = d]
    /\ rebind' = [rebind EXCEPT ![t] = rebind[t] \ {d}]
    /\ gate' = gate \ {d}
    /\ UNCHANGED <<durable, opens, rebinds, writers, wire, minted>>

\* The re-registration fails: the handler throws and the deviceId in use
\* stays; the new one has been persisted.
RebindFails(t, d) ==
    /\ d \in rebind[t]
    /\ rebind' = [rebind EXCEPT ![t] = rebind[t] \ {d}]
    /\ gate' = gate \ {d}
    /\ UNCHANGED <<durable, session, opens, rebinds, writers, wire, minted>>

-----------------------------------------------------------------------------
(* Environment: crashes and storage loss.                                    *)

\* A tab is closed or crashes at any point of its writers' calls.
CloseTab(t) ==
    /\ session[t] # None
    /\ session' = [session EXCEPT ![t] = None]
    /\ rebind' = [rebind EXCEPT ![t] = {}]
    /\ gate' = gate \ rebind[t]
    /\ pc' = [w \in Writer |-> IF TabOf[w] = t THEN "idle" ELSE pc[w]]
    /\ tries' = [w \in Writer |-> IF TabOf[w] = t THEN 0 ELSE tries[w]]
    /\ UNCHANGED <<durable, opens, rebinds, wdev, wseq, wupd, written, wire, minted>>

AllClosed == \A t \in Tab : session[t] = None

\* The deviceId is lost, the log survives.
LoseMeta ==
    /\ AllClosed
    /\ meta # None
    /\ meta' = None
    /\ UNCHANGED <<log, acked, tabs, writers, wire, minted>>

\* The log is lost, the deviceId survives or is lost with it.
LoseLog ==
    /\ AllClosed
    /\ log # {}
    /\ log' = {} /\ acked' = {}
    /\ meta' \in {meta, None}
    /\ UNCHANGED <<tabs, writers, wire, minted>>

-----------------------------------------------------------------------------
OpenTab(t) ==
    \/ ResumeDevice(t)
    \/ RebindOrphan(t)
    \/ \E d \in Device : RotateDevice(t, d) \/ ColdStart(t, d)

WriterStep(w) ==
    \/ AcquireLock(w) \/ ReserveSeq(w) \/ PersistEntry(w) \/ AddConflict(w)
    \/ SendEntry(w)

Next ==
    \/ \E t \in Tab : OpenTab(t) \/ CloseTab(t)
    \/ \E t \in Tab, d \in Device : \/ RestoreClone(t, d) \/ DeviceReRegister(t, d)
                                   \/ RebindDone(t, d) \/ RebindFails(t, d)
    \/ \E t \in Tab, e \in Pending : ResendPending(t, e) \/ ReceiveReceipt(t, e)
    \/ \E w \in Writer, u \in Update : StartWrite(w, u)
    \/ \E w \in Writer : WriterStep(w) \/ BuildFails(w) \/ SendFails(w)
    \/ LoseMeta \/ LoseLog

Spec == Init /\ [][Next]_vars

-----------------------------------------------------------------------------
(* Type correctness of the store, the tabs and the calls.                    *)
TypeOK ==
    /\ meta \in Device \cup {None}
    /\ log \subseteq Entry
    /\ acked \subseteq log
    /\ session \in [Tab -> Device \cup {None}]
    /\ rebind \in [Tab -> SUBSET Device]
    /\ gate \subseteq Device
    /\ pc \in [Writer -> {"idle", "wait", "reserve", "build", "send"}]
    /\ wdev \in [Writer -> Device \cup {None}]
    /\ wseq \in [Writer -> Nat]
    /\ wupd \in [Writer -> Update \cup {None}]
    /\ tries \in [Writer -> Nat]
    /\ wire \subseteq Entry
    /\ minted \subseteq Device
    /\ written \subseteq Update
    /\ opens \in Nat /\ rebinds \in Nat

\* Two entries that agree on the key of a nonce are the same entry.
UniqueKeys(S) == \A e, f \in S : e.dev = f.dev /\ e.seq = f.seq => e = f

(* Sync 002: a (deviceId, seq) that reached the wire is never sent again     *)
(* with different content, whatever tabs crash, lose the lock or lose        *)
(* their storage (IndexedDBDocLogStore.ts, appendLocalEntry and              *)
(* resolveConnectDeviceId).                                                  *)
NonceUnique == UniqueKeys(wire)

(* The log of every device that authors here has no holes: the store's       *)
(* claim that strict head and max head of the own device coincide            *)
(* (DocLogStore.ts, getKnownHeads).                                          *)
OwnLogContiguous ==
    \A e \in log : \A n \in 0 .. e.seq : \E f \in log : f.dev = e.dev /\ f.seq = n

=============================================================================
