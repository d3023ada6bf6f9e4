--------------------------- MODULE DocPersistence ---------------------------
(***************************************************************************)
(* How one device of a space keeps its CRDT document: the Yjs replica in   *)
(* memory, its snapshot in the CompactStore, its snapshot in the vault and *)
(* the log through which an edit reaches the others.  The parts that race: *)
(*   - VaultPushScheduler, once for the disk and once for the vault, each  *)
(*     with a debounce timer, one push in flight and one queued behind it; *)
(*   - the writer of the log, which keeps an edit that could not be        *)
(*     appended (offline, first publication not possible) in memory and in *)
(*     the CompactStore and writes it after the next complete catch-up;    *)
(*   - the vault, one snapshot under a number that every device picks for  *)
(*     itself, and the pull that skips a number it has seen.               *)
(* An update is a model value and a document the set of the updates it     *)
(* holds: Yjs merges them in any order.  The broker, the delivery of what  *)
(* the log holds and the other devices' replicas are modelled elsewhere;   *)
(* here they are the entries that come in and the snapshots they put.      *)
(***************************************************************************)
EXTENDS Naturals

CONSTANTS Own,           \* the updates made on this device
          Remote,        \* the updates of others, in the broker's log
          Setups,        \* which of the stores a device may be configured with
          Flight,        \* the runs of flushUnloggedUpdate that may overlap
          MaxFaults,     \* restarts and failures of disk, vault and store
          MaxForeign,    \* snapshots put by other devices
          MaxForeignSeq  \* the numbers they may carry

ASSUME BoundsAssumption ==
    /\ MaxFaults \in Nat /\ MaxForeign \in Nat /\ MaxForeignSeq \in Nat
    /\ Own \cap Remote = {}
    /\ Setups \subseteq SUBSET {"compact", "vault"}

Op == Own \cup Remote

VARIABLES doc,        \* the Y.Doc in memory
          disk,       \* the snapshot in the CompactStore
          log,        \* durable log entries: appended here or recorded
          writes,     \* edits whose writeLocalUpdateViaLog runs
          awaited,    \* edits whose transactDurable is awaited
          stale,      \* edits whose first publication began on an earlier connection
          arrived,    \* remote entries applied but not yet recorded
          unlogged,   \* unloggedUpdates, in memory
          kept,       \* the same record in the CompactStore
          flush,      \* what each running flushUnloggedUpdate holds
          sched,      \* a VaultPushScheduler for each configured store
          vault,      \* the snapshot of the vault and its number
          vaultSeq,   \* vaultSeqs: the number this device believes in
          pull,       \* the running _pullFromVault
          online,     \* the broker is reachable
          published,  \* the coordinator's published flag
          faults,     \* failures so far
          foreign,    \* snapshots of other devices so far
          owed,       \* history: updates each scheduler was asked to save
          lost,       \* history: edits a failure or a restart kept from the log
          missed      \* history: a pull failed, or two snapshots share a number

docVars   == <<doc, disk>>
logVars   == <<log, writes, awaited, stale, arrived, unlogged, kept, flush>>
vaultVars == <<vault, vaultSeq, pull, foreign, missed>>
netVars   == <<online, published>>
pastVars  == <<owed, lost>>
vars == <<doc, disk, log, writes, awaited, stale, arrived, unlogged, kept, flush, sched,
          vault, vaultSeq, pull, online, published, faults, foreign, owed,
          lost, missed>>

Stores == DOMAIN sched

\* A scheduler as ensureSchedulers creates it: nothing pushed yet.
NewScheduler ==
    [timer |-> FALSE, stage |-> "idle", again |-> FALSE, last |-> {},
     start |-> {}, data |-> {}, seq |-> 0]

NoPull == [stage |-> "idle", ops |-> {}, seq |-> 0]

Init ==
    /\ doc = {} /\ disk = {}
    /\ log = {} /\ writes = {} /\ awaited = {} /\ stale = {} /\ arrived = {}
    /\ unlogged = {} /\ kept = {} /\ flush = [f \in Flight |-> {}]
    /\ \E S \in Setups : /\ sched = [s \in S |-> NewScheduler]
                         /\ owed = [s \in S |-> {}]
    /\ vault = [ops |-> {}, seq |-> 0] /\ vaultSeq = 0 /\ pull = NoPull
    /\ online = FALSE /\ published = FALSE
    /\ faults = 0 /\ foreign = 0
    /\ lost = {} /\ missed = FALSE

-----------------------------------------------------------------------------
(* VaultPushScheduler.  The push of the disk encodes the document when it  *)
(* begins; the push of the vault first waits for the key.                  *)

\* schedulePush: d is the document the scheduler sees.
Scheduled(s, c, d) ==
    IF c.stage # "idle" THEN [c EXCEPT !.again = TRUE]
    ELSE IF d = c.last THEN c
    ELSE [c EXCEPT !.start = d, !.data = d,
                   !.stage = IF s = "compact" THEN "put" ELSE "key"]

\* pushImmediate and pushDebounced.
Immediately(s, c, d) == Scheduled(s, [c EXCEPT !.timer = FALSE], d)
Debounced(c) == [c EXCEPT !.timer = TRUE]

\* The debounce timer runs out, or the page is hidden or unloaded (flush).
TimerFires(s) ==
    /\ sched[s].timer
    /\ sched' = [sched EXCEPT ![s] = Scheduled(s, [@ EXCEPT !.timer = FALSE], doc)]
    /\ UNCHANGED <<docVars, logVars, vaultVars, netVars, pastVars, faults>>

\* _pushSnapshotToVault: the key is there, the document is encoded and
\* encrypted, and the number is one above the last this device knows.
VaultPushReads ==
    /\ "vault" \in Stores /\ sched["vault"].stage = "key"
    /\ sched' = [sched EXCEPT !["vault"].stage = "put", !["vault"].data = doc,
                              !["vault"].seq = vaultSeq + 1]
    /\ UNCHANGED <<docVars, logVars, vaultVars, netVars, pastVars, faults>>

\* putSnapshot of the vault: whatever the number, it replaces the snapshot.
VaultPushLands ==
    /\ "vault" \in Stores /\ sched["vault"].stage = "put"
    /\ vault' = [ops |-> sched["vault"].data, seq |-> sched["vault"].seq]
    /\ sched' = [sched EXCEPT !["vault"].stage = "landed"]
    /\ UNCHANGED <<docVars, logVars, vaultSeq, pull, foreign, missed, netVars, pastVars,
                   faults>>

\* .finally of schedulePush: the queued push, if any, begins.
Finished(s, c, d) ==
    LET idle == [c EXCEPT !.stage = "idle", !.again = FALSE, !.start = {}, !.data = {},
                          !.seq = 0]
    IN IF c.again THEN Scheduled(s, idle, d) ELSE idle

\* A mutant: the heads after the push count as pushed.
PushedAtEnd(s, c, d) == Finished(s, [c EXCEPT !.last = d], d)

\* .then of schedulePush: the heads from before the push count as pushed.
Pushed(s, c, d) == Finished(s, [c EXCEPT !.last = c.start], d)

PushDone(s) ==
    LET c == sched[s] IN
    /\ c.stage = (IF s = "compact" THEN "put" ELSE "landed")
    /\ IF s = "compact" THEN disk' = c.data /\ UNCHANGED vaultSeq
                        ELSE vaultSeq' = c.seq /\ UNCHANGED disk
    /\ sched' = [sched EXCEPT ![s] = Pushed(s, c, doc)]
    /\ owed' = [owed EXCEPT ![s] = @ \ c.data]
    /\ UNCHANGED <<doc, logVars, vault, pull, foreign, missed, netVars, lost, faults>>

\* .catch of schedulePush: nothing retries it but the push queued behind it,
\* a running timer, or the next edit.
PushFails(s) ==
    LET c == sched[s]  owes == c.again \/ c.timer IN
    /\ faults < MaxFaults
    /\ faults' = faults + 1
    /\ c.stage # "idle"
    /\ sched' = [sched EXCEPT ![s] = Finished(s, c, doc)]
    /\ owed' = [owed EXCEPT ![s] = IF owes THEN @ ELSE {}]
    /\ UNCHANGED <<docVars, logVars, vaultVars, netVars, lost>>

-----------------------------------------------------------------------------
(* Edits.  The observer of the document starts the write to the log; the   *)
(* handle schedules both snapshots.                                        *)

\* (An update that was pushed already, with another edit, is not owed.)
Asked(o) == [s \in Stores |-> owed[s] \cup ({o} \ sched[s].last)]
Held == UNION {flush[f] : f \in Flight}
Unused == Own \ (doc \cup disk \cup log \cup lost \cup kept \cup unlogged \cup Held)

\* transact, with or without options.stream.
Edit(o, stream) ==
    /\ o \in Unused
    /\ doc' = doc \cup {o}
    /\ writes' = writes \cup {o}
    /\ sched' = [s \in Stores |-> IF stream THEN Debounced(sched[s])
                                 ELSE Immediately(s, sched[s], doc')]
    /\ owed' = Asked(o)
    /\ UNCHANGED <<disk, log, awaited, arrived, stale, unlogged, kept, flush, vaultVars,
                   netVars, lost, faults>>

\* transactDurable: the document changes first, the append is awaited.
EditDurable(o) ==
    /\ o \in Unused
    /\ doc' = doc \cup {o}
    /\ awaited' = awaited \cup {o}
    /\ UNCHANGED <<disk, log, writes, arrived, stale, unlogged, kept, flush, sched, vaultVars,
                   netVars, owed, lost, faults>>

\* ensurePublished: it succeeds on a published connection or publishes on the
\* current one; it fails offline, and also when the publication it waits for
\* was begun on a connection that is gone, however late that fails.
CanPublish == published \/ online
CannotPublish(o) == (~published /\ ~online) \/ o \in stale

WriteAppends(o) ==
    /\ o \in writes /\ CanPublish
    /\ log' = log \cup {o}
    /\ writes' = writes \ {o}
    /\ stale' = stale \ {o}
    /\ published' = TRUE
    /\ UNCHANGED <<docVars, awaited, arrived, unlogged, kept, flush, sched, vaultVars,
                   online, pastVars, faults>>

\* transactDurable goes on: only now are the snapshots scheduled.
AwaitedAppends(o) ==
    /\ o \in awaited /\ CanPublish
    /\ log' = log \cup {o}
    /\ awaited' = awaited \ {o}
    /\ stale' = stale \ {o}
    /\ published' = TRUE
    /\ sched' = [s \in Stores |-> Immediately(s, sched[s], doc)]
    /\ owed' = Asked(o)
    /\ UNCHANGED <<docVars, writes, arrived, unlogged, kept, flush, vaultVars, online,
                   lost, faults>>

\* Without a CompactStore nothing is kept.
Durable(ops) == IF "compact" \in Stores THEN ops ELSE {}

\* A mutant: the record is replaced without the merge.
RememberLast(ops) ==
    /\ unlogged' = ops
    /\ kept' = Durable(ops)
    /\ UNCHANGED faults

\* rememberUnloggedUpdate: merged with what is in memory, and the merge
\* replaces the durable record.  The save may fail: then in memory only.
Remember(ops) ==
    /\ unlogged' = unlogged \cup ops
    /\ \/ kept' = Durable(unlogged') /\ UNCHANGED faults
       \/ /\ faults < MaxFaults
          /\ faults' = faults + 1
          /\ UNCHANGED kept

WriteFails(o) ==
    /\ o \in writes /\ CannotPublish(o)
    /\ writes' = writes \ {o}
    /\ stale' = stale \ {o}
    /\ Remember({o})
    /\ UNCHANGED <<docVars, log, awaited, arrived, flush, sched, vaultVars, netVars,
                   pastVars>>

\* LocalAppendFailedError: reported, and kept nowhere.
AppendFails(o) ==
    /\ o \in writes /\ CanPublish
    /\ faults < MaxFaults
    /\ faults' = faults + 1
    /\ writes' = writes \ {o}
    /\ stale' = stale \ {o}
    /\ lost' = lost \cup {o}
    /\ published' = TRUE
    /\ UNCHANGED <<docVars, log, awaited, arrived, unlogged, kept, flush, sched, vaultVars,
                   online, owed>>

\* transactDurable rejects; the update stays in the document.
AwaitedFails(o) ==
    /\ o \in awaited /\ CannotPublish(o)
    /\ awaited' = awaited \ {o}
    /\ stale' = stale \ {o}
    /\ lost' = lost \cup {o}
    /\ UNCHANGED <<docVars, log, writes, arrived, unlogged, kept, flush, sched, vaultVars,
                   netVars, owed, faults>>

-----------------------------------------------------------------------------
(* Catch-up, the flush of kept edits, entries of others.                   *)

Disconnect ==
    /\ online
    /\ online' = FALSE
    /\ UNCHANGED <<docVars, logVars, sched, vaultVars, published, pastVars, faults>>

\* A new connection: resetForReconnect, then a catch-up.
Reconnect ==
    /\ ~online
    /\ online' = TRUE
    /\ published' = FALSE
    /\ stale' = IF published THEN stale ELSE stale \cup writes \cup awaited \cup Held
    /\ UNCHANGED <<docVars, log, writes, awaited, arrived, unlogged, kept, flush, sched, vaultVars, pastVars, faults>>

\* catchUpTrackingCapabilityBlock after a complete catch-up, which may be that of
\* a reconnect, of a start or one asked for: flushUnloggedUpdate takes the kept
\* edits out of memory and starts to write them.
CatchUpCompletes(f) ==
    /\ online
    /\ unlogged # {} /\ flush[f] = {}
    /\ flush' = [flush EXCEPT ![f] = unlogged]
    /\ unlogged' = {}
    /\ UNCHANGED <<docVars, log, writes, awaited, stale, arrived, kept, sched, vaultVars,
                   online, published, pastVars, faults>>

\* A mutant: the record goes, whatever failed meanwhile.
SettledBlindly == kept' = {}

\* Written: the durable record becomes what failed meanwhile, or goes.
Settled == kept' = Durable(unlogged)

FlushWritten(f) ==
    /\ flush[f] # {} /\ CanPublish
    /\ log' = log \cup flush[f]
    /\ flush' = [flush EXCEPT ![f] = {}]
    /\ stale' = stale \ flush[f]
    /\ published' = TRUE
    /\ Settled
    /\ UNCHANGED <<docVars, writes, awaited, arrived, unlogged, sched, vaultVars, online,
                   pastVars, faults>>

\* Not written: merged back with anything that failed meanwhile.
FlushFails(f) ==
    /\ \E o \in flush[f] : CannotPublish(o)
    /\ flush' = [flush EXCEPT ![f] = {}]
    /\ stale' = stale \ flush[f]
    /\ Remember(flush[f])
    /\ UNCHANGED <<docVars, log, writes, awaited, arrived, sched, vaultVars, netVars,
                   pastVars>>

\* processRemoteEntry: an entry not durably known is applied; the disk is
\* scheduled, the vault is not.
Receive(o) ==
    /\ online /\ o \in Remote \ (log \cup arrived)
    /\ doc' = doc \cup {o}
    /\ arrived' = arrived \cup {o}
    /\ sched' = [s \in Stores |-> IF s = "compact" THEN Debounced(sched[s]) ELSE sched[s]]
    /\ owed' = [s \in Stores |-> IF s = "compact" THEN Asked(o)[s] ELSE owed[s]]
    /\ UNCHANGED <<disk, log, writes, awaited, stale, unlogged, kept, flush, vaultVars, netVars,
                   lost, faults>>

\* recordRemoteApplied.
Record(o) ==
    /\ o \in arrived
    /\ log' = log \cup {o}
    /\ arrived' = arrived \ {o}
    /\ UNCHANGED <<docVars, writes, awaited, stale, unlogged, kept, flush, sched, vaultVars,
                   netVars, pastVars, faults>>

-----------------------------------------------------------------------------
(* The vault.                                                              *)

\* Another device puts its snapshot, under a number of its own.
ForeignPut(ops, n) ==
    /\ "vault" \in Stores /\ foreign < MaxForeign
    /\ foreign' = foreign + 1
    /\ vault' = [ops |-> ops, seq |-> n]
    /\ missed' = (missed \/ n \in {vaultSeq, sched["vault"].seq, pull.seq})
    /\ UNCHANGED <<docVars, logVars, sched, vaultSeq, pull, netVars, pastVars, faults>>

\* _pullFromVault: a number that was seen is skipped; a new one counts as
\* seen from here on.
PullInfo ==
    /\ pull.stage = "idle" /\ vault.seq # 0 /\ vault.seq # vaultSeq
    /\ vaultSeq' = vault.seq
    /\ pull' = [NoPull EXCEPT !.stage = "info"]
    /\ UNCHANGED <<docVars, logVars, sched, vault, foreign, missed, netVars, pastVars, faults>>

\* getChanges answers.
PullGets ==
    /\ pull.stage = "info"
    /\ pull' = [stage |-> "got", ops |-> vault.ops, seq |-> vault.seq]
    /\ UNCHANGED <<docVars, logVars, sched, vault, vaultSeq, foreign, missed, netVars,
                   pastVars, faults>>

\* The snapshot is decrypted and merged; no save is scheduled for it.
PullApplies ==
    /\ pull.stage = "got"
    /\ doc' = doc \cup pull.ops
    /\ vaultSeq' = pull.seq
    /\ pull' = NoPull
    /\ UNCHANGED <<disk, logVars, sched, vault, foreign, missed, netVars, owed, lost, faults>>

\* A mutant: the number stays.
UnreadableSeen == UNCHANGED vaultSeq

\* It cannot be decrypted: the number is forgotten, so that the next pull
\* downloads it again.
Unreadable == vaultSeq' = 0

PullUnreadable ==
    /\ pull.stage = "got"
    /\ faults < MaxFaults
    /\ faults' = faults + 1
    /\ Unreadable
    /\ pull' = NoPull
    /\ UNCHANGED <<docVars, logVars, sched, vault, foreign, missed, netVars, pastVars>>

\* getChanges throws: the number stays marked as seen.
PullFails ==
    /\ pull.stage = "info"
    /\ faults < MaxFaults
    /\ faults' = faults + 1
    /\ pull' = NoPull
    /\ missed' = TRUE
    /\ UNCHANGED <<docVars, logVars, sched, vault, vaultSeq, foreign, netVars, pastVars>>

-----------------------------------------------------------------------------
(* The process ends and start() runs: restoreUnloggedUpdates, then         *)
(* restoreSpacesFromMetadata, with new schedulers and a new coordinator.   *)
Restart ==
    /\ faults < MaxFaults
    /\ faults' = faults + 1
    /\ doc' = disk
    /\ unlogged' = kept
    /\ writes' = {} /\ awaited' = {} /\ stale' = {} /\ arrived' = {}
    /\ flush' = [f \in Flight |-> {}]
    /\ sched' = [s \in Stores |-> NewScheduler]
    /\ vaultSeq' = 0 /\ pull' = NoPull
    /\ published' = FALSE
    /\ owed' = [s \in Stores |-> {}]
    /\ lost' = lost \cup ((writes \cup awaited \cup unlogged \cup Held) \ (kept \cup log))
    /\ missed' = FALSE
    /\ UNCHANGED <<disk, log, kept, vault, online, foreign>>

-----------------------------------------------------------------------------
Next ==
    \/ \E s \in Stores : TimerFires(s) \/ PushDone(s) \/ PushFails(s)
    \/ VaultPushReads \/ VaultPushLands
    \/ \E o \in Own : \/ \E stream \in BOOLEAN : Edit(o, stream)
                      \/ EditDurable(o)
                      \/ WriteAppends(o) \/ AwaitedAppends(o)
                      \/ WriteFails(o) \/ AppendFails(o) \/ AwaitedFails(o)
    \/ Disconnect \/ Reconnect
    \/ \E f \in Flight : CatchUpCompletes(f) \/ FlushWritten(f) \/ FlushFails(f)
    \/ \E o \in Remote : Receive(o) \/ Record(o)
    \/ \E ops \in SUBSET (Remote \cup (log \cap Own)), n \in 1 .. MaxForeignSeq :
           ops # {} /\ ForeignPut(ops, n)
    \/ PullInfo \/ PullGets \/ PullApplies \/ PullUnreadable \/ PullFails
    \/ Restart

Spec == Init /\ [][Next]_vars

-----------------------------------------------------------------------------
Scheduler == [timer : BOOLEAN, stage : {"idle", "key", "put", "landed"},
              again : BOOLEAN, last : SUBSET Op, start : SUBSET Op,
              data : SUBSET Op, seq : Nat]

(* Every variable has its type, and only one of the two schedulers numbers *)
(* what it pushes (VaultPushScheduler, unloggedUpdates, vaultSeqs).        *)
TypeOK ==
    /\ doc \in SUBSET Op /\ disk \in SUBSET Op /\ log \in SUBSET Op
    /\ writes \in SUBSET Own /\ awaited \in SUBSET Own
    /\ stale \in SUBSET (writes \cup awaited \cup Held) /\ arrived \in SUBSET Remote
    /\ unlogged \in SUBSET Own /\ kept \in SUBSET Own
    /\ flush \in [Flight -> SUBSET Own]
    /\ Stores \in Setups /\ sched \in [Stores -> Scheduler]
    /\ "compact" \in Stores => /\ sched["compact"].seq = 0
                               /\ sched["compact"].stage \in {"idle", "put"}
    /\ vault \in [ops : SUBSET Op, seq : Nat] /\ vaultSeq \in Nat
    /\ pull \in [stage : {"idle", "info", "got"}, ops : SUBSET Op, seq : Nat]
    /\ online \in BOOLEAN /\ published \in BOOLEAN
    /\ faults \in 0 .. MaxFaults /\ foreign \in 0 .. MaxForeign
    /\ owed \in [Stores -> SUBSET Op]
    /\ lost \in SUBSET Own /\ missed \in BOOLEAN

(* An update a scheduler was asked to save is never overlooked: until a    *)
(* push with it has succeeded, the timer runs, or a follow-up is queued,   *)
(* or the running push holds it or has not read the document yet.  This is *)
(* what the in-flight flag, the queued flag and the comparison of heads of *)
(* VaultPushScheduler.schedulePush have to keep between them.              *)
NothingOverlooked ==
    \A s \in Stores : \A o \in owed[s] :
        \/ sched[s].timer
        \/ sched[s].again
        \/ sched[s].stage = "key"
        \/ sched[s].stage # "idle" /\ o \in sched[s].data

(* When no pull runs and the number of the vault's snapshot is the one the *)
(* device believes in, so that _pullFromVault will skip it, the document   *)
(* has all of it: unless a download failed after the number was noted, or  *)
(* another device took the same number.                                    *)
SkippedIsKnown ==
    (pull.stage = "idle" /\ vault.seq = vaultSeq /\ ~missed) => vault.ops \subseteq doc

(* A kept edit leaves the durable record only for the log, or while a      *)
(* flushUnloggedUpdate holds it; the edits that fail while it runs do not  *)
(* disappear with the record it settles.                                   *)
KeptUntilLogged ==
    [][\A o \in kept \ log :
            o \in kept' \cup log' \/ \E f \in Flight : o \in flush[f]]_vars

(* No edit of the document is forgotten on its way to the log, however    *)
(* edits, broken connections, failing writes and flushes interleave: it is *)
(* in the log, being written, kept, or held by a flush; unless the append  *)
(* itself failed, transactDurable reported the failure, or the process     *)
(* ended while the edit was nowhere but in memory.                         *)
EditOnItsWay ==
    doc \cap Own \subseteq log \cup writes \cup awaited \cup unlogged \cup Held \cup lost

=============================================================================
