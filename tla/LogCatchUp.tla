----------------------------- MODULE LogCatchUp -----------------------------
(***************************************************************************)
(* How a replica fetches the log of one document from the broker: live     *)
(* pushes applied out of order, paginated catch-up runs, entries that wait *)
(* for a key, the durable registry of gaps with its soft skip, and the     *)
(* catch-up state shown to the application.                                *)
(*                                                                         *)
(* Code: wot-core/src/protocol/sync/log-sync-coordinator.ts, the gap and   *)
(* head methods of IndexedDBDocLogStore.ts, and on the broker              *)
(* handleSyncRequest / getSinceWithTruncation.                             *)
(*                                                                         *)
(* A run is an asynchronous function: it suspends for the answer of the    *)
(* broker, while it verifies and decrypts a page, and while it reads the   *)
(* store.  A reconnect does not cancel it.  Run is the set of runs that    *)
(* may be alive together.                                                  *)
(*                                                                         *)
(* Abstractions.  Entries are (device, seq) pairs; the log of the broker   *)
(* may have holes (an author sends out of order, or never).  One key is    *)
(* missing until ImportKey.  The 60 seconds of the soft skip are the flag  *)
(* old.  Every gap repair is due; one that is not behaves like one whose   *)
(* request times out.  Epochs are counted modulo Epochs.  The own device's *)
(* entries, hence the restore-clone check, are left to SeqReservation.     *)
(***************************************************************************)
EXTENDS SyncHeads, FiniteSets

CONSTANTS
    Device,
    Rank,       \* the order of devices in the broker's index
    Entry,      \* the entries authors publish: pairs <<device, seq>>
    Locked,     \* entries under a key generation that is imported later
    Foreign,    \* entries the CRDT engine cannot apply
    Run,
    Limit,      \* catchUpPageSize
    MinEpochs,  \* GAP_SOFT_SKIP_MIN_EPOCHS
    Epochs,     \* number of connection epochs told apart
    MaxLate,    \* bound: answers under way to nobody
    MaxSeq,     \* bound: the largest sequence number
    None

ASSUME CatchUpAssumption ==
    /\ Rank \in [Device -> Nat] /\ \A d, e \in Device : Rank[d] = Rank[e] => d = e
    /\ MaxSeq \in Nat /\ Entry \subseteq Device \X (0 .. MaxSeq) /\ IsFiniteSet(Entry)
    /\ Locked \subseteq Entry /\ Foreign \subseteq Entry \ Locked
    /\ None \notin Run
    /\ Limit \in Nat \ {0} /\ MinEpochs \in Nat \ {0} /\ Epochs \in Nat \ {0}
    /\ MaxLate \in Nat

VARIABLES
    broker,     \* doc_log: the entries the broker holds
    push,       \* entries on their way to the replica's socket
    have,       \* ENTRIES_STORE: the entries recorded as applied
    keyed,      \* the missing key has been imported
    blocked,    \* blockedByKey: the buffer of entries without a key
    gaps,       \* GAP_REPAIRS_STORE
    epoch,      \* connectionEpoch
    catchingUp, \* the guard
    inFlight,   \* catchUpInFlight: the run that owns the guard
    active,     \* activeCatchUps
    phase,      \* where each run is suspended
    cur,        \* the runs of the present connection
    waiting,    \* pendingSyncRequests: the runs whose waiter is registered
    mem,        \* the local variables of each run
    late,       \* answers whose request has timed out
    due,        \* somebody has called catchUp()
    busy, out   \* catchUpState: inFlight and outstanding

store  == <<have, blocked, gaps>>
guards == <<catchingUp, inFlight, active, busy, out>>
runs   == <<phase, cur, waiting, mem>>
vars   == <<broker, push, store, keyed, epoch, guards, runs, late, due>>

Heads == [Device -> -1 .. MaxSeq]
Page  == [entries : SUBSET Entry, truncated : BOOLEAN, at : SUBSET Entry]
Gap   == [dev : Device, first : 0 .. MaxSeq + 1, epochs : SUBSET (0 .. Epochs - 1),
          old : BOOLEAN, skipped : BOOLEAN]
Mem   == [todo : SUBSET (Device \X (0 .. MaxSeq + 1)), base : Heads, cursor : Heads,
          page : Page, result : BOOLEAN]
Phase == {"idle", "repair", "present", "ask", "wait", "page", "gaps", "report"}

Seqs(es, d) == {n \in 0 .. MaxSeq : <<d, n>> \in es}

Skips(gs, d) == {g.first : g \in {h \in gs : h.dev = d /\ h.skipped}}

KnownHeads(es)  == [d \in Device |-> KnownHead(Seqs(es, d))]
StrictHeads(es) == [d \in Device |-> StrictHead(Seqs(es, d))]

\* Mutant: the largest known number is put on the wire.
WireHeadsByMax(es, gs)  == KnownHeads(es)
WireHeads(es, gs)  == [d \in Device |-> WireHead(Seqs(es, d), Skips(gs, d))]

\* headsAdvanced
Advanced(h, k) == \E d \in Device : k[d] > h[d]

\* openGaps: devices that store something above their wire cursor.
OpenGaps(es, gs) == {d \in Device : WireHeads(es, gs)[d] < KnownHeads(es)[d]}

\* getSinceWithTruncation: the entries above the cursor in index order, cut
\* at the limit.
Before(e, f) == Rank[e[1]] < Rank[f[1]] \/ (e[1] = f[1] /\ e[2] < f[2])

Cut(log, cursor) ==
    LET missing == {e \in log : e[2] > cursor[e[1]]}
    IN [entries   |-> {e \in missing : Cardinality({f \in missing : Before(f, e)}) < Limit},
        truncated |-> Cardinality(missing) > Limit,
        at        |-> log]

BrokerPage(cursor) == Cut(broker, cursor)

-----------------------------------------------------------------------------
(* The read path: processRemoteEntry and the store.                          *)

NoKey(es) == IF keyed THEN {} ELSE es \cap Locked

Fresh(es) == (es \ have) \ (Foreign \cup NoKey(es))

\* The strict head has reached the gap: the missing entry is stored and
\* nothing is missing below it.
Filled(g, es) == <<g.dev, g.first>> \in es /\ \A n \in 0 .. g.first - 1 : <<g.dev, n>> \in es

\* autoResolveGaps for the devices of the recorded entries.
Resolved(gs, es, ds) == {g \in gs : g.dev \notin ds \/ ~Filled(g, es)}

\* The entries es are applied, buffered or skipped; what is applied is
\* recorded and closes its gaps.
Apply(es) ==
    /\ have' = have \cup Fresh(es)
    /\ blocked' = (blocked \cup (NoKey(es) \ have)) \ Fresh(es)
    /\ gaps' = Resolved(gaps, have', {e[1] : e \in Fresh(es)})

\* maybeTriggerLiveGapCatchUp: something was recorded above a hole while no
\* run holds the guard.
LiveGap(es) ==
    /\ ~catchingUp
    /\ \E e \in Fresh(es) : StrictHeads(have \cup Fresh(es))[e[1]] < e[2]

Calling(b) == due' = (due \/ b)

-----------------------------------------------------------------------------
(* A run.  todo holds the gaps it still has to repair, base the heads read  *)
(* when the run (or its last page) began, cursor the heads of the request,  *)
(* result what it is going to report as outstanding.                        *)

Blank == [todo |-> {}, base |-> [d \in Device |-> -1], cursor |-> [d \in Device |-> -1],
          page |-> [entries |-> {}, truncated |-> FALSE, at |-> {}], result |-> FALSE]

Goto(r, p) == phase' = [phase EXCEPT ![r] = p]

\* driveGapRepairs goes to the next gap, and after the last to the pages.  A
\* repair asks for everything known, with the gap's device lowered.
NextGap(todo) == CHOOSE g \in todo : TRUE

RepairHeads(known, todo) == [known EXCEPT ![NextGap(todo)[1]] = NextGap(todo)[2] - 1]

Repair(r, known, todo) ==
    IF todo = {}
    THEN Goto(r, "present") /\ mem' = [mem EXCEPT ![r] = Blank]
    ELSE /\ Goto(r, "repair")
         /\ mem' = [mem EXCEPT ![r] = [Blank EXCEPT !.todo = todo, !.base = known,
                                                    !.cursor = RepairHeads(known, todo)]]

\* catchUp and withCatchUpReporting: the guard is taken, the run is counted
\* and announced, driveGapRepairs lists the gaps.
StartCatchUp(r) ==
    /\ due /\ ~catchingUp /\ phase[r] = "idle"
    /\ due' = FALSE /\ catchingUp' = TRUE /\ inFlight' = r
    /\ active' = active + 1 /\ busy' = TRUE /\ out' = TRUE
    /\ cur' = cur \cup {r}
    /\ Repair(r, KnownHeads(have), {<<g.dev, g.first>> : g \in gaps})
    /\ UNCHANGED <<broker, push, store, keyed, epoch, waiting, late>>

\* catchUp returns at once while a run holds the guard.
Coalesce ==
    /\ due /\ catchingUp
    /\ due' = FALSE
    /\ UNCHANGED <<broker, push, store, keyed, epoch, guards, runs, late>>

\* The entries whose (deviceId, seq) a page apply takes note of.
Noted(p) == p.entries \ Foreign

\* driveGapRepairs: one page of the repair of a gap.  The repair ends when
\* the page shows the gap's device, is the last one, or brings nothing new.
RepairPage(r) ==
    LET m      == mem[r]
        gap    == NextGap(m.todo)
        p      == BrokerPage(m.cursor)
        seen   == KnownHeads(Noted(p))
        raised == [d \in Device |-> IF seen[d] > m.cursor[d] THEN seen[d] ELSE m.cursor[d]]
    IN /\ phase[r] = "repair"
       /\ Apply(p.entries)
       /\ IF seen[gap[1]] >= 0 \/ ~p.truncated \/ raised = m.cursor
          THEN Repair(r, m.base, m.todo \ {gap})
          ELSE mem' = [mem EXCEPT ![r] = [m EXCEPT !.cursor = raised]] /\ UNCHANGED phase
       /\ Calling(LiveGap(p.entries))
       /\ UNCHANGED <<broker, push, keyed, epoch, guards, cur, waiting, late>>

\* A request times out, or cannot be sent; the answer may still be under way.
Unanswered(p) ==
    \/ late' = late
    \/ Cardinality(late) < MaxLate /\ late' = late \cup {p}

RepairTimeout(r) ==
    /\ phase[r] = "repair"
    /\ Repair(r, mem[r].base, mem[r].todo \ {NextGap(mem[r].todo)})
    /\ Unanswered(BrokerPage(mem[r].cursor))
    /\ UNCHANGED <<broker, push, store, keyed, epoch, guards, cur, waiting, due>>

\* releaseCatchUpGuard: the guard is released by the run that owns it.
\* Mutant: whoever ends releases the guard.
ReleaseAlways(r) == catchingUp' = FALSE /\ inFlight' = None
Release(r) ==
    IF inFlight = r
    THEN catchingUp' = FALSE /\ inFlight' = None
    ELSE UNCHANGED <<catchingUp, inFlight>>

\* The end of withCatchUpReporting: a run of the present connection is no
\* longer counted, and the last one reports.
Finish(r, outstanding) ==
    /\ IF r \in cur
       THEN /\ active' = active - 1
            /\ busy' = (busy /\ active # 1)
            /\ out' = IF active = 1 THEN outstanding ELSE out
       ELSE UNCHANGED <<active, busy, out>>
    /\ Release(r)
    /\ Goto(r, "idle") /\ cur' = cur \ {r} /\ waiting' = waiting \ {r}
    /\ mem' = [mem EXCEPT ![r] = Blank]

\* presentCapabilityWithRetry gives up: no capability, or the broker refuses.
PresentFails(r) ==
    /\ phase[r] = "present"
    /\ Finish(r, TRUE)
    /\ UNCHANGED <<broker, push, store, keyed, epoch, late, due>>

\* catchUpInternal: the heads are read and a page is requested.
AskPage(r) ==
    /\ phase[r] \in {"present", "ask"}
    /\ Goto(r, "wait") /\ waiting' = waiting \cup {r}
    /\ mem' = [mem EXCEPT ![r] = [Blank EXCEPT !.base = StrictHeads(have),
                                               !.cursor = WireHeads(have, gaps)]]
    /\ UNCHANGED <<broker, push, store, keyed, epoch, guards, cur, late, due>>

\* handleIncoming hands the answer to its waiter.
ReceivePage(r) ==
    /\ phase[r] = "wait" /\ r \in waiting
    /\ Goto(r, "page") /\ waiting' = waiting \ {r}
    /\ mem' = [mem EXCEPT ![r] = [mem[r] EXCEPT !.page = BrokerPage(mem[r].cursor)]]
    /\ UNCHANGED <<broker, push, store, keyed, epoch, guards, cur, late, due>>

TimeOut(r) ==
    /\ phase[r] = "wait"
    /\ Finish(r, TRUE)
    /\ IF r \in waiting THEN Unanswered(BrokerPage(mem[r].cursor)) ELSE late' = late
    /\ UNCHANGED <<broker, push, store, keyed, epoch, due>>

\* applySyncResponsePage: one batch.
ApplyPage(r) ==
    /\ phase[r] = "page"
    /\ Apply(mem[r].page.entries)
    /\ Goto(r, "gaps")
    /\ Calling(LiveGap(mem[r].page.entries))
    /\ UNCHANGED <<broker, push, keyed, epoch, guards, cur, waiting, mem, late>>

\* recordGapsFromPage: the page shows a device only above the number the
\* cursor asked for.  The device must be known.
\* Mutant: the number that the cursor asked for counts as missing, too.
MissingOnPageOrNext(r) ==
    {d \in Device :
        LET shown == Seqs(Noted(mem[r].page), d) IN
        /\ Seqs(have, d) # {} /\ shown # {}
        /\ \A n \in shown : n > mem[r].cursor[d]}
\* Mutant: gaps are only observed on the last page.
MissingOnLastPage(r) ==
    {d \in Device :
        LET shown == Seqs(Noted(mem[r].page), d) IN
        /\ ~mem[r].page.truncated /\ Seqs(have, d) # {} /\ shown # {}
        /\ \A n \in shown : n > mem[r].cursor[d] + 1}
MissingOnPage(r) ==
    {d \in Device :
        LET shown == Seqs(Noted(mem[r].page), d) IN
        /\ Seqs(have, d) # {} /\ shown # {}
        /\ \A n \in shown : n > mem[r].cursor[d] + 1}

\* recordGapObservation and maybeSoftSkipGap: the present epoch is added, and
\* a gap seen in enough epochs for long enough is skipped.
Observed(d, first) ==
    LET same == {g \in gaps : g.dev = d /\ g.first = first}
        seen == {epoch} \cup UNION {g.epochs : g \in same}
        old  == \E g \in same : g.old
    IN [dev |-> d, first |-> first, epochs |-> seen, old |-> old,
        skipped |-> \/ \E g \in same : g.skipped
                    \/ Cardinality(seen) >= MinEpochs /\ old]

\* Mutant: only what this page shows is written.
RecordedFromPage(r) == {Observed(d, mem[r].cursor[d] + 1) : d \in MissingOnPage(r)}
Recorded(r) ==
    LET new == {Observed(d, mem[r].cursor[d] + 1) : d \in MissingOnPage(r)}
    IN new \cup {g \in gaps : \A h \in new : <<g.dev, g.first>> # <<h.dev, h.first>>}

\* The end of the loop body of catchUpInternal: gaps are recorded; the last
\* page ends the run, a page that moved a head asks for the next one, any
\* other leaves something outstanding (a gap, a missing key, no progress: the
\* reason is not told apart).
Conclude(r) ==
    LET more == Advanced(mem[r].base, StrictHeads(have)) \/
                Advanced(mem[r].cursor, WireHeads(have, gaps'))
        open == OpenGaps(have, gaps') # {}
    IN /\ phase[r] = "gaps"
       /\ gaps' = Recorded(r)
       /\ \/ /\ ~mem[r].page.truncated
             /\ Goto(r, "report") /\ mem' = [mem EXCEPT ![r] = [mem[r] EXCEPT !.result = open]]
          \/ /\ mem[r].page.truncated /\ more
             /\ Goto(r, "ask") /\ mem' = [mem EXCEPT ![r] = Blank]
          \/ /\ mem[r].page.truncated /\ ~more
             /\ Goto(r, "report") /\ mem' = [mem EXCEPT ![r] = [mem[r] EXCEPT !.result = TRUE]]
       /\ UNCHANGED <<broker, push, have, blocked, keyed, epoch, guards, cur, waiting, late, due>>

Report(r) ==
    /\ phase[r] = "report"
    /\ Finish(r, mem[r].result)
    /\ UNCHANGED <<broker, push, store, keyed, epoch, late, due>>

-----------------------------------------------------------------------------
(* Messages without a run, the key, the connection.                          *)

\* An author publishes; the broker pushes to the socket, or cannot.
Publish(e) ==
    /\ e \notin broker
    /\ broker' = broker \cup {e}
    /\ push' \in {push, push \cup {e}}
    /\ UNCHANGED <<store, keyed, epoch, guards, runs, late, due>>

\* receiveLogEntry
ReceiveLive(e) ==
    /\ e \in push
    /\ push' = push \ {e}
    /\ Apply({e})
    /\ Calling(LiveGap({e}))
    /\ UNCHANGED <<broker, keyed, epoch, guards, runs, late>>

\* applySyncResponse: a page that nobody waits for.  It reports if no run is
\* counted, and calls for a run when something is left.
LatePage(p) ==
    LET left == p.truncated \/ OpenGaps(have', gaps') # {} IN
    /\ p \in late
    /\ late' = late \ {p}
    /\ Apply(p.entries)
    /\ IF active = 0
       THEN /\ busy' = FALSE /\ out' = left
       ELSE UNCHANGED <<busy, out>>
    /\ Calling(left \/ LiveGap(p.entries))
    /\ UNCHANGED <<broker, push, keyed, epoch, catchingUp, inFlight, active, runs>>

\* The key arrives; replayBlockedByKey applies what was buffered.
ImportKey ==
    LET all == have \cup blocked IN
    /\ ~keyed
    /\ keyed' = TRUE
    /\ have' = all /\ blocked' = {}
    /\ gaps' = Resolved(gaps, all, {e[1] : e \in blocked})
    /\ Calling(~catchingUp /\ \E e \in blocked : StrictHeads(all)[e[1]] < e[2])
    /\ UNCHANGED <<broker, push, epoch, guards, runs, late>>

\* resetForReconnect, and the catch-up the adapter asks for: waiters and
\* counters are dropped, the owner of the guard is not.
Reconnect ==
    /\ epoch' = IF epoch + 1 < Epochs THEN epoch + 1 ELSE 0
    /\ catchingUp' = FALSE /\ active' = 0
    /\ cur' = {} /\ waiting' = {}
    /\ push' = {} /\ late' = {} /\ due' = TRUE
    /\ UNCHANGED <<broker, store, keyed, inFlight, busy, out, phase, mem>>

\* The application is started again: only the store survives.
Restart ==
    /\ epoch' = 0 /\ catchingUp' = FALSE /\ inFlight' = None /\ active' = 0
    /\ busy' = FALSE /\ out' = FALSE
    /\ phase' = [r \in Run |-> "idle"] /\ mem' = [r \in Run |-> Blank]
    /\ cur' = {} /\ waiting' = {}
    /\ blocked' = {} /\ push' = {} /\ late' = {} /\ due' = TRUE
    /\ UNCHANGED <<broker, have, gaps, keyed>>

\* The minute of the soft skip passes for the recorded gaps.
AgeGaps ==
    /\ \E g \in gaps : ~g.old
    /\ gaps' = {[g EXCEPT !.old = TRUE] : g \in gaps}
    /\ UNCHANGED <<broker, push, have, blocked, keyed, epoch, guards, runs, late, due>>

Init ==
    /\ broker = {} /\ push = {} /\ have = {} /\ keyed = (Locked = {}) /\ blocked = {} /\ gaps = {}
    /\ epoch = 0 /\ catchingUp = FALSE /\ inFlight = None /\ active = 0
    /\ phase = [r \in Run |-> "idle"] /\ mem = [r \in Run |-> Blank]
    /\ cur = {} /\ waiting = {}
    /\ late = {} /\ due = TRUE /\ busy = FALSE /\ out = FALSE

RunStep(r) ==
    \/ StartCatchUp(r) \/ RepairPage(r) \/ RepairTimeout(r) \/ PresentFails(r)
    \/ AskPage(r) \/ ReceivePage(r) \/ TimeOut(r) \/ ApplyPage(r)
    \/ Conclude(r) \/ Report(r)

Next ==
    \/ \E r \in Run : RunStep(r)
    \/ Coalesce
    \/ \E e \in Entry : Publish(e)
    \/ \E e \in Entry : ReceiveLive(e)
    \/ \E p \in late : LatePage(p)
    \/ ImportKey \/ Reconnect \/ Restart \/ AgeGaps

Spec == Init /\ [][Next]_vars

\* For liveness.  The code of a run and of the trigger goes on; a request is
\* answered in the end if it is made again and again (in every class of epochs
\* the model tells apart); the key and the minute come.
Quiet == ~due /\ \A r \in Run : phase[r] = "idle"

RunFairness ==
    /\ \A r \in Run :
          /\ WF_vars(StartCatchUp(r)) /\ WF_vars(ApplyPage(r))
          /\ WF_vars(Conclude(r)) /\ WF_vars(Report(r))
          /\ WF_vars(RepairPage(r) \/ RepairTimeout(r)) /\ SF_vars(RepairPage(r))
          /\ WF_vars(AskPage(r) \/ PresentFails(r))
          /\ WF_vars(ReceivePage(r) \/ TimeOut(r))
          /\ \A k \in 0 .. Epochs - 1 : /\ SF_vars(AskPage(r) /\ epoch = k)
                                        /\ SF_vars(ReceivePage(r) /\ epoch = k)
    /\ WF_vars(Coalesce) /\ WF_vars(ImportKey) /\ WF_vars(AgeGaps)

\* Connections are lost again and again, but from some time on only between
\* runs, and the process is not killed forever.
FairSpec ==
    /\ Spec /\ RunFairness
    /\ WF_vars(Reconnect /\ Quiet)
    /\ <>[][Reconnect => Quiet]_vars /\ <>[][~Restart]_vars

\* The application is started again and again, and from some time on its
\* connection holds until it is closed.
RestartSpec ==
    /\ Spec /\ RunFairness
    /\ WF_vars(Restart /\ Quiet)
    /\ <>[][Restart => Quiet]_vars /\ <>[][~Reconnect]_vars

-----------------------------------------------------------------------------
(* Properties.                                                               *)

TypeOK ==
    /\ broker \subseteq Entry /\ push \subseteq broker
    /\ have \subseteq broker \ Foreign
    /\ blocked \subseteq (broker \cap Locked) \ have
    /\ keyed \in BOOLEAN /\ (keyed => blocked = {})
    /\ gaps \subseteq Gap
    /\ epoch \in 0 .. Epochs - 1
    /\ catchingUp \in BOOLEAN /\ inFlight \in Run \cup {None} /\ active \in Nat
    /\ phase \in [Run -> Phase] /\ mem \in [Run -> Mem]
    /\ cur \subseteq Run /\ waiting \subseteq Run
    /\ late \subseteq Page
    /\ due \in BOOLEAN /\ busy \in BOOLEAN /\ out \in BOOLEAN

\* A connection has at most one run, it is the one that owns the guard, and
\* it is the one that is counted.  A run that a reconnect has left behind
\* must not release the guard of its successor.
OneRunPerConnection ==
    /\ \A r \in cur : phase[r] # "idle" /\ catchingUp /\ inFlight = r
    /\ active = IF cur = {} THEN 0 ELSE 1

\* A hole is written down only if the broker did not hold the number when it
\* cut the page (or holds it, but the engine cannot apply it): a device that
\* was crowded out of a page is not a hole.
HolesAreConfirmed ==
    [][\A r \in Run : phase[r] = "gaps" /\ phase'[r] # "gaps" =>
          \A g \in gaps' \ gaps :
             <<g.dev, g.first>> \in Foreign \/ <<g.dev, g.first>> \notin mem[r].page.at]_vars

\* The record of a hole disappears only when the missing entry is stored:
\* however often it was skipped, it is asked for again.
NoFinalSkip ==
    [][\A g \in gaps :
          \/ \E h \in gaps' : h.dev = g.dev /\ h.first = g.first
          \/ <<g.dev, g.first>> \in have']_vars

\* The cursor may have passed e over a skipped hole.
Skipped(e) ==
    /\ e[2] <= WireHeads(have, gaps)[e[1]]
    /\ \E n \in Skips(gaps, e[1]) : n <= e[2]

Covered(es) == \A e \in es : e \in have \cup blocked \cup Foreign \/ Skipped(e)

\* When a run finds that nothing is outstanding, everything the broker held
\* when it answered the last request is stored, waits for a key, cannot be
\* applied, or lies in a hole that was declared skipped.
AllClearIsComplete ==
    [][\A r \in Run : phase[r] = "gaps" /\ phase'[r] = "report" /\ ~mem'[r].result
                          => Covered(mem[r].page.at)']_vars

\* Whatever the broker holds and the engine can apply is stored in the end:
\* out of order, over several pages, above holes that never fill, and also in
\* a hole that was skipped before it filled.
Converges == \A e \in Entry \ Foreign : e \in broker ~> e \in have

=============================================================================
