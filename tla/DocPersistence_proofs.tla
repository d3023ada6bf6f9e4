------------------------ MODULE DocPersistence_proofs ------------------------
(***************************************************************************)
(* Proofs about DocPersistence for any edits, stores, flushes, faults and  *)
(* foreign snapshots: type correctness, no save is overlooked, no edit is  *)
(* forgotten on its way to the log, kept edits stay until they are logged, *)
(* and a snapshot that will be skipped is known.                           *)
(***************************************************************************)
EXTENDS DocPersistence, TLAPS

-----------------------------------------------------------------------------
(* One scheduler: c its state, w what it owes, d the document.             *)

Work(c, w) ==
    \A o \in w : \/ c.timer \/ c.again \/ c.stage = "key"
                 \/ c.stage # "idle" /\ o \in c.data

\* What holds of a scheduler also between its steps.
Sound(s, c, w, d) ==
    /\ c \in Scheduler
    /\ s = "compact" => c.seq = 0 /\ c.stage \in {"idle", "put"}
    /\ s # "compact" /\ c.stage \in {"put", "landed"} => c.seq > 0
    /\ w \subseteq d /\ w \cap c.last = {}
    /\ c.start \subseteq c.data /\ c.data \subseteq d

SchedInv(s, c, w, d) == Sound(s, c, w, d) /\ Work(c, w)

(* schedulePush never drops what is owed: a push begins with it, follows,   *)
(* or there is nothing to push.                                             *)
LEMMA ScheduledKeeps ==
    ASSUME NEW s, NEW c, NEW w, NEW d \in SUBSET Op, Sound(s, c, w, d)
    PROVE  SchedInv(s, Scheduled(s, c, d), w, d)
<1>1. CASE c.stage # "idle"
  <2>1. Scheduled(s, c, d) = [c EXCEPT !.again = TRUE]
    BY <1>1 DEF Scheduled
  <2> QED  BY <2>1 DEF SchedInv, Sound, Work, Scheduler
<1>2. CASE c.stage = "idle" /\ d = c.last
  <2>1. Scheduled(s, c, d) = c /\ w = {}
    BY <1>2 DEF Scheduled, Sound
  <2> QED  BY <2>1 DEF SchedInv, Work
<1>3. CASE c.stage = "idle" /\ d # c.last
  <2> DEFINE e == [c EXCEPT !.start = d, !.data = d,
                            !.stage = IF s = "compact" THEN "put" ELSE "key"]
  <2>1. Scheduled(s, c, d) = e
    BY <1>3 DEF Scheduled
  <2>2. /\ e \in Scheduler /\ e.last = c.last /\ e.start = d /\ e.data = d /\ e.seq = c.seq
        /\ e.stage = IF s = "compact" THEN "put" ELSE "key"
    BY DEF Scheduler, Sound
  <2> HIDE DEF e
  <2> QED  BY <2>1, <2>2 DEF SchedInv, Sound, Work
<1> QED  BY <1>1, <1>2, <1>3

LEMMA WithoutTimer ==
    ASSUME NEW s, NEW c, NEW w, NEW d, Sound(s, c, w, d)
    PROVE  Sound(s, [c EXCEPT !.timer = FALSE], w, d)
  BY DEF Sound, Scheduler

LEMMA ImmediatelyKeeps ==
    ASSUME NEW s, NEW c, NEW w, NEW d \in SUBSET Op, Sound(s, c, w, d)
    PROVE  SchedInv(s, Immediately(s, c, d), w, d)
  BY WithoutTimer, ScheduledKeeps DEF Immediately

LEMMA DebouncedKeeps ==
    ASSUME NEW s, NEW c, NEW w, NEW d, Sound(s, c, w, d)
    PROVE  SchedInv(s, Debounced(c), w, d)
  BY DEF Debounced, SchedInv, Sound, Work, Scheduler

(* The end of a push: the queued one begins, or a timer runs, or nothing is *)
(* owed.                                                                    *)
LEMMA FinishedKeeps ==
    ASSUME NEW s, NEW c \in Scheduler, NEW w, NEW d \in SUBSET Op,
           w \subseteq d, w \cap c.last = {}, c.again \/ c.timer \/ w = {}
    PROVE  SchedInv(s, Finished(s, c, d), w, d)
<1> DEFINE idle == [c EXCEPT !.stage = "idle", !.again = FALSE, !.start = {}, !.data = {},
                             !.seq = 0]
<1>1. /\ idle \in Scheduler /\ idle.stage = "idle" /\ ~idle.again /\ idle.start = {}
      /\ idle.data = {} /\ idle.seq = 0 /\ idle.last = c.last /\ idle.timer = c.timer
  BY DEF Scheduler
<1>2. Finished(s, c, d) = IF c.again THEN Scheduled(s, idle, d) ELSE idle
  BY DEF Finished
<1> HIDE DEF idle
<1>3. Sound(s, idle, w, d)
  BY <1>1 DEF Sound
<1>4. CASE c.again
  BY <1>2, <1>3, <1>4, ScheduledKeeps
<1>5. CASE ~c.again
  BY <1>1, <1>2, <1>3, <1>5 DEF SchedInv, Work
<1> QED  BY <1>4, <1>5

(* A successful push: what it wrote is no longer owed, and the heads of its *)
(* beginning are not among the rest.                                        *)
LEMMA PushedKeeps ==
    ASSUME NEW s, NEW c, NEW w, NEW d \in SUBSET Op,
           SchedInv(s, c, w, d), c.stage # "key"
    PROVE  SchedInv(s, Pushed(s, c, d), w \ c.data, d)
<1> DEFINE e == [c EXCEPT !.last = c.start]
<1>1. /\ e \in Scheduler /\ e.last = c.start /\ e.again = c.again /\ e.timer = c.timer
  BY DEF Scheduler, SchedInv, Sound
<1>2. Pushed(s, c, d) = Finished(s, e, d)
  BY DEF Pushed
<1> HIDE DEF e
<1>3. w \ c.data \subseteq d /\ (w \ c.data) \cap e.last = {}
  BY <1>1 DEF SchedInv, Sound
<1>4. e.again \/ e.timer \/ w \ c.data = {}
  BY <1>1 DEF SchedInv, Work
<1> QED  BY <1>1, <1>2, <1>3, <1>4, FinishedKeeps

LEMMA NewSchedulerKeeps ==
    ASSUME NEW s, NEW d
    PROVE  SchedInv(s, NewScheduler, {}, d)
  BY DEF SchedInv, Sound, Work, Scheduler, NewScheduler

-----------------------------------------------------------------------------
(* The inductive invariant.                                                *)

\* Where an edit may be on its way to the log.
Way == log \cup writes \cup awaited \cup unlogged \cup Held \cup lost

Scheduling ==
    /\ \A s \in Stores : SchedInv(s, sched[s], owed[s], doc)
    /\ awaited \subseteq doc

\* Whatever copy of the document may come back holds only edits on their way.
Copies == (doc \cup disk \cup vault.ops \cup pull.ops) \cap Own \subseteq Way

Records ==
    /\ kept \subseteq log \cup unlogged \cup Held
    /\ kept # {} => "compact" \in Stores

\* What a push that has landed or a pull that has downloaded will count as seen.
Numbers ==
    /\ vault.seq = 0 => vault.ops = {}
    /\ SkippedIsKnown
    /\ ("vault" \in Stores /\ ~missed) =>
           (sched["vault"].stage = "landed" /\ vault.seq = sched["vault"].seq
                => vault.ops \subseteq doc)
    /\ (pull.stage = "got" /\ vault.seq = pull.seq /\ ~missed)
           => vault.ops \subseteq doc \cup pull.ops

IInv == TypeOK /\ Scheduling /\ Copies /\ Records /\ Numbers

LEMMA InitIInv == Init => IInv
<1> SUFFICES ASSUME Init PROVE IInv
  OBVIOUS
<1>1. PICK S \in Setups : sched = [s \in S |-> NewScheduler] /\ owed = [s \in S |-> {}]
  BY DEF Init
<1>2. \A s : SchedInv(s, NewScheduler, {}, doc)
  BY NewSchedulerKeeps
<1>3. NewScheduler \in Scheduler /\ NewScheduler.seq = 0 /\ NewScheduler.stage = "idle"
  BY DEF NewScheduler, Scheduler
<1>4. Stores = S
  BY <1>1 DEF Stores
<1>5. TypeOK
  <2>1. /\ Stores \in Setups /\ sched \in [Stores -> Scheduler]
        /\ owed \in [Stores -> SUBSET Op]
        /\ "compact" \in Stores => /\ sched["compact"].seq = 0
                                   /\ sched["compact"].stage \in {"idle", "put"}
    BY <1>1, <1>3, <1>4
  <2>2. /\ vault \in [ops : SUBSET Op, seq : Nat] /\ vaultSeq \in Nat
        /\ pull \in [stage : {"idle", "info", "got"}, ops : SUBSET Op, seq : Nat]
        /\ faults \in 0 .. MaxFaults /\ foreign \in 0 .. MaxForeign
        /\ flush \in [Flight -> SUBSET Own]
    BY BoundsAssumption DEF Init, NoPull
  <2> QED  BY <2>1, <2>2 DEF Init, TypeOK
<1>6. Scheduling
  BY <1>1, <1>2, <1>4 DEF Init, Scheduling
<1>7. Copies /\ Records
  BY DEF Init, Copies, Records, NoPull
<1>8. Numbers
  BY <1>1, <1>3, <1>4 DEF Init, Numbers, NoPull, SkippedIsKnown
<1> QED  BY <1>5, <1>6, <1>7, <1>8 DEF IInv

-----------------------------------------------------------------------------
(* The way to the log: an edit never leaves it.                            *)

LEMMA WayGrows == ASSUME IInv, [Next]_vars PROVE Way \subseteq Way'
<1> USE DEF IInv, TypeOK, Way, Held
<1>1. ASSUME NEW s \in Stores, TimerFires(s) \/ PushDone(s) \/ PushFails(s)
      PROVE  Way \subseteq Way'
  BY <1>1 DEF TimerFires, PushDone, PushFails, logVars, pastVars
<1>2. CASE VaultPushReads \/ VaultPushLands
  BY <1>2 DEF VaultPushReads, VaultPushLands, logVars, pastVars
<1>3. ASSUME NEW o \in Own, \/ \E stream \in BOOLEAN : Edit(o, stream)
                            \/ EditDurable(o)
      PROVE  Way \subseteq Way'
  BY <1>3 DEF Edit, EditDurable
<1>4. ASSUME NEW o \in Own, WriteAppends(o) \/ AwaitedAppends(o)
      PROVE  Way \subseteq Way'
  BY <1>4 DEF WriteAppends, AwaitedAppends, pastVars
<1>5. ASSUME NEW o \in Own, WriteFails(o) \/ AppendFails(o) \/ AwaitedFails(o)
      PROVE  Way \subseteq Way'
  BY <1>5 DEF WriteFails, AppendFails, AwaitedFails, Remember, pastVars
<1>6. CASE Disconnect \/ Reconnect
  BY <1>6 DEF Disconnect, Reconnect, logVars, pastVars
<1>7. ASSUME NEW f \in Flight, CatchUpCompletes(f)
      PROVE  Way \subseteq Way'
  BY <1>7 DEF CatchUpCompletes, pastVars
<1>8. ASSUME NEW f \in Flight, FlushWritten(f) \/ FlushFails(f)
      PROVE  Way \subseteq Way'
  BY <1>8 DEF FlushWritten, FlushFails, Remember, pastVars
<1>9. ASSUME NEW o \in Remote, Receive(o) \/ Record(o)
      PROVE  Way \subseteq Way'
  BY <1>9 DEF Receive, Record, pastVars
<1>10. ASSUME NEW ops, NEW n, ForeignPut(ops, n)
       PROVE  Way \subseteq Way'
  BY <1>10 DEF ForeignPut, logVars, pastVars
<1>11. CASE PullInfo \/ PullGets \/ PullApplies \/ PullUnreadable \/ PullFails
  BY <1>11 DEF PullInfo, PullGets, PullApplies, PullUnreadable, PullFails, logVars, pastVars
<1>12. CASE Restart
  BY <1>12 DEF Restart
<1>13. CASE UNCHANGED vars
  BY <1>13 DEF vars
<1> QED
  BY <1>1, <1>2, <1>3, <1>4, <1>5, <1>6, <1>7, <1>8, <1>9, <1>10, <1>11, <1>12, <1>13 DEF Next

-----------------------------------------------------------------------------
(* The schedulers.                                                          *)

\* What a step makes of schedulers, owed updates and document.
Step(F, w) == /\ sched' = [s \in Stores |-> F[s]]
              /\ owed' = [s \in Stores |-> w[s]]
              /\ \A s \in Stores : SchedInv(s, F[s], w[s], doc')

Schedules == /\ Stores' = Stores
             /\ sched' \in [Stores -> Scheduler] /\ owed' \in [Stores -> SUBSET Op]
             /\ Scheduling'

LEMMA StepSchedules ==
    ASSUME NEW F, NEW w, Step(F, w), doc' \in SUBSET Op, awaited' \subseteq doc'
    PROVE  Schedules
<1>1. Stores' = Stores
  BY DEF Step, Stores
<1>2. \A s \in Stores : sched'[s] = F[s] /\ owed'[s] = w[s]
  BY DEF Step
<1>3. \A s \in Stores : F[s] \in Scheduler /\ w[s] \in SUBSET Op
  BY DEF Step, SchedInv, Sound
<1>4. \A s \in Stores : SchedInv(s, sched'[s], owed'[s], doc')
  BY <1>2 DEF Step
<1>5. Scheduling'
  BY <1>1, <1>4 DEF Scheduling
<1> QED  BY <1>1, <1>3, <1>5 DEF Schedules, Step

\* A step of one scheduler.
LEMMA OneStep ==
    ASSUME IInv, NEW s \in Stores, NEW c, NEW w,
           sched' = [sched EXCEPT ![s] = c], owed' = [owed EXCEPT ![s] = w],
           UNCHANGED <<doc, awaited>>, SchedInv(s, c, w, doc)
    PROVE  Schedules
<1> DEFINE F == [x \in Stores |-> IF x = s THEN c ELSE sched[x]]
           v == [x \in Stores |-> IF x = s THEN w ELSE owed[x]]
<1>1. sched \in [Stores -> Scheduler] /\ owed \in [Stores -> SUBSET Op] /\ doc \in SUBSET Op
  BY DEF IInv, TypeOK
<1>2. sched' = F /\ owed' = v
  BY <1>1
<1>3. \A x \in Stores : SchedInv(x, F[x], v[x], doc')
  <2> SUFFICES ASSUME NEW x \in Stores PROVE SchedInv(x, F[x], v[x], doc)
    OBVIOUS
  <2>1. CASE x = s
    BY <2>1
  <2>2. CASE x # s
    BY <2>2 DEF IInv, Scheduling
  <2> QED  BY <2>1, <2>2
<1>4. Step(F, v)
  BY <1>2, <1>3 DEF Step
<1> HIDE DEF F, v
<1>5. awaited' \subseteq doc'
  BY DEF IInv, Scheduling
<1> QED  BY <1>1, <1>4, <1>5, StepSchedules

\* The document may have grown meanwhile.
LEMMA SoundGrows ==
    ASSUME NEW s, NEW c, NEW w, NEW d, NEW v, NEW e, Sound(s, c, w, d),
           d \subseteq e, v \subseteq w \cup (e \ c.last)
    PROVE  Sound(s, c, v, e)
  BY DEF Sound

LEMMA InvGrows ==
    ASSUME NEW s, NEW c, NEW w, NEW d, NEW e, SchedInv(s, c, w, d), d \subseteq e
    PROVE  SchedInv(s, c, w, e)
  BY DEF SchedInv, Sound

\* The schedulers are left alone.
LEMMA NoStep ==
    ASSUME IInv, UNCHANGED <<sched, owed>>,
           doc' \in SUBSET Op, doc \subseteq doc', awaited' \subseteq doc'
    PROVE  Schedules
<1>1. sched \in [Stores -> Scheduler] /\ owed \in [Stores -> SUBSET Op]
  BY DEF IInv, TypeOK
<1>2. \A s \in Stores : SchedInv(s, sched[s], owed[s], doc')
  BY InvGrows DEF IInv, Scheduling
<1>3. sched' = [s \in Stores |-> sched[s]] /\ owed' = [s \in Stores |-> owed[s]]
  BY <1>1
<1>4. Step(sched, owed)
  BY <1>2, <1>3 DEF Step
<1> QED  BY <1>4, StepSchedules

LEMMA AskedSound ==
    ASSUME IInv, NEW o \in doc', NEW s \in Stores, doc \subseteq doc'
    PROVE  Sound(s, sched[s], Asked(o)[s], doc')
<1>1. Asked(o)[s] = owed[s] \cup ({o} \ sched[s].last)
  BY DEF Asked
<1>2. Sound(s, sched[s], owed[s], doc)
  BY DEF IInv, Scheduling, SchedInv
<1> QED  BY <1>1, <1>2, SoundGrows

LEMMA SchedulerSteps ==
    ASSUME IInv, NEW s \in Stores, TimerFires(s) \/ PushDone(s) \/ PushFails(s)
    PROVE  Schedules
<1> DEFINE c == sched[s]
<1>1. /\ SchedInv(s, c, owed[s], doc) /\ Sound(s, c, owed[s], doc)
      /\ doc \in SUBSET Op /\ c \in Scheduler /\ owed \in [Stores -> SUBSET Op]
  BY DEF IInv, TypeOK, Scheduling, SchedInv
<1>2. CASE TimerFires(s)
  <2>1. SchedInv(s, Scheduled(s, [c EXCEPT !.timer = FALSE], doc), owed[s], doc)
    BY <1>1, WithoutTimer, ScheduledKeeps
  <2>2. /\ sched' = [sched EXCEPT ![s] = Scheduled(s, [c EXCEPT !.timer = FALSE], doc)]
        /\ UNCHANGED <<owed, doc, awaited>>
    BY <1>2 DEF TimerFires, docVars, logVars, pastVars
  <2>3. owed' = [owed EXCEPT ![s] = owed[s]]
    BY <1>1, <2>2
  <2> QED  BY <2>1, <2>2, <2>3, OneStep
<1>3. CASE PushDone(s)
  <2>1. c.stage # "key"
    BY <1>3 DEF PushDone
  <2>2. SchedInv(s, Pushed(s, c, doc), owed[s] \ c.data, doc)
    BY <1>1, <2>1, PushedKeeps
  <2>3. /\ sched' = [sched EXCEPT ![s] = Pushed(s, c, doc)]
        /\ owed' = [owed EXCEPT ![s] = owed[s] \ c.data]
        /\ UNCHANGED <<doc, awaited>>
    BY <1>3 DEF PushDone, logVars
  <2> QED  BY <2>2, <2>3, OneStep
<1>4. CASE PushFails(s)
  <2> DEFINE w == IF c.again \/ c.timer THEN owed[s] ELSE {}
  <2>1. w \subseteq doc /\ w \cap c.last = {} /\ (c.again \/ c.timer \/ w = {})
    BY <1>1 DEF Sound
  <2>2. /\ sched' = [sched EXCEPT ![s] = Finished(s, c, doc)]
        /\ owed' = [owed EXCEPT ![s] = w]
        /\ UNCHANGED <<doc, awaited>>
    BY <1>4 DEF PushFails, docVars, logVars
  <2> HIDE DEF w
  <2>3. SchedInv(s, Finished(s, c, doc), w, doc)
    BY <1>1, <2>1, FinishedKeeps
  <2> QED  BY <2>2, <2>3, OneStep
<1> QED  BY <1>2, <1>3, <1>4

LEMMA VaultPushSteps ==
    ASSUME IInv, VaultPushReads \/ VaultPushLands
    PROVE  Schedules
<1> DEFINE c == sched["vault"]
<1>1. "vault" \in Stores
  BY DEF VaultPushReads, VaultPushLands
<1>2. /\ SchedInv("vault", c, owed["vault"], doc) /\ doc \in SUBSET Op /\ vaultSeq \in Nat
      /\ owed \in [Stores -> SUBSET Op] /\ sched \in [Stores -> Scheduler]
  BY <1>1 DEF IInv, TypeOK, Scheduling
<1>3. owed' = [owed EXCEPT !["vault"] = owed["vault"]] /\ UNCHANGED <<doc, awaited>>
  BY <1>2 DEF VaultPushReads, VaultPushLands, docVars, logVars, pastVars
<1>4. CASE VaultPushReads
  <2> DEFINE e == [c EXCEPT !.stage = "put", !.data = doc, !.seq = vaultSeq + 1]
  <2>1. sched' = [sched EXCEPT !["vault"] = e] /\ c.stage = "key"
    BY <1>2, <1>4 DEF VaultPushReads
  <2> DEFINE n == vaultSeq + 1
  <2>4. n \in Nat /\ n > 0 /\ c \in Scheduler
    BY <1>1, <1>2
  <2> HIDE DEF n, c
  <2>2. /\ e \in Scheduler /\ e.stage = "put" /\ e.data = doc /\ e.seq = n
        /\ e.last = c.last /\ e.start = c.start
    BY <1>2, <2>4 DEF Scheduler, n
  <2> HIDE DEF e
  <2>3. SchedInv("vault", e, owed["vault"], doc)
    BY <1>2, <2>2, <2>4 DEF SchedInv, Sound, Work
  <2> QED  BY <1>1, <1>3, <2>1, <2>3, OneStep
<1>5. CASE VaultPushLands
  <2> DEFINE e == [c EXCEPT !.stage = "landed"]
  <2>1. sched' = [sched EXCEPT !["vault"] = e] /\ c.stage = "put"
    BY <1>2, <1>5 DEF VaultPushLands
  <2>2. /\ e \in Scheduler /\ e.stage = "landed" /\ e.data = c.data /\ e.seq = c.seq
        /\ e.last = c.last /\ e.start = c.start /\ e.timer = c.timer /\ e.again = c.again
    BY <1>1, <1>2 DEF Scheduler
  <2> HIDE DEF e
  <2>3. SchedInv("vault", e, owed["vault"], doc)
    BY <1>2, <2>1, <2>2 DEF SchedInv, Sound, Work
  <2> QED  BY <1>1, <1>3, <2>1, <2>3, OneStep
<1> QED  BY <1>4, <1>5

LEMMA EditSteps ==
    ASSUME IInv, NEW o \in Own,
           (\E stream \in BOOLEAN : Edit(o, stream)) \/ EditDurable(o)
    PROVE  Schedules
<1>1. /\ doc' = doc \cup {o} /\ doc' \in SUBSET Op /\ o \in doc' /\ doc \subseteq doc'
      /\ awaited' \subseteq doc'
  BY DEF Edit, EditDurable, IInv, TypeOK, Scheduling, Op
<1>2. ASSUME NEW stream \in BOOLEAN, Edit(o, stream) PROVE Schedules
  <2> DEFINE F == [s \in Stores |-> IF stream THEN Debounced(sched[s])
                                    ELSE Immediately(s, sched[s], doc')]
  <2>1. \A s \in Stores : SchedInv(s, F[s], Asked(o)[s], doc')
    BY <1>1, AskedSound, DebouncedKeeps, ImmediatelyKeeps
  <2>2. sched' = [s \in Stores |-> F[s]] /\ owed' = [s \in Stores |-> Asked(o)[s]]
    BY <1>2 DEF Edit, Asked
  <2>3. Step(F, Asked(o))
    BY <2>1, <2>2 DEF Step
  <2> QED  BY <1>1, <2>3, StepSchedules
<1>3. CASE EditDurable(o)
  BY <1>1, <1>3, NoStep DEF EditDurable
<1> QED  BY <1>2, <1>3

LEMMA AppendSteps ==
    ASSUME IInv, NEW o \in Own, WriteAppends(o) \/ AwaitedAppends(o)
    PROVE  Schedules
<1>1. doc' = doc /\ doc \in SUBSET Op /\ awaited' \subseteq doc'
  BY DEF WriteAppends, AwaitedAppends, docVars, IInv, TypeOK, Scheduling
<1>2. CASE WriteAppends(o)
  BY <1>1, <1>2, NoStep DEF WriteAppends, pastVars
<1>3. CASE AwaitedAppends(o)
  <2>1. o \in doc'
    BY <1>1, <1>3 DEF AwaitedAppends, IInv, Scheduling
  <2> DEFINE F == [s \in Stores |-> Immediately(s, sched[s], doc)]
  <2>2. \A s \in Stores : SchedInv(s, F[s], Asked(o)[s], doc')
    BY <1>1, <2>1, AskedSound, ImmediatelyKeeps
  <2>3. sched' = [s \in Stores |-> F[s]] /\ owed' = [s \in Stores |-> Asked(o)[s]]
    BY <1>3 DEF AwaitedAppends, Asked
  <2>4. Step(F, Asked(o))
    BY <2>2, <2>3 DEF Step
  <2> QED  BY <1>1, <2>4, StepSchedules
<1> QED  BY <1>2, <1>3

LEMMA ReceiveSchedules ==
    ASSUME IInv, NEW o \in Remote, Receive(o)
    PROVE  Schedules
<1>1. /\ doc' = doc \cup {o} /\ doc' \in SUBSET Op /\ o \in doc' /\ doc \subseteq doc'
      /\ awaited' \subseteq doc'
  BY DEF Receive, IInv, TypeOK, Scheduling, Op
<1> DEFINE F == [s \in Stores |-> IF s = "compact" THEN Debounced(sched[s]) ELSE sched[s]]
           w == [s \in Stores |-> IF s = "compact" THEN Asked(o)[s] ELSE owed[s]]
<1>2. ASSUME NEW s \in Stores PROVE SchedInv(s, F[s], w[s], doc')
  <2>1. CASE s = "compact"
    BY <1>1, <2>1, AskedSound, DebouncedKeeps
  <2>2. CASE s # "compact"
    <3>1. SchedInv(s, sched[s], owed[s], doc)
      BY DEF IInv, Scheduling
    <3> QED  BY <1>1, <2>2, <3>1, InvGrows
  <2> QED  BY <2>1, <2>2
<1>3. Step(F, w)
  BY <1>2 DEF Step, Receive
<1> QED  BY <1>1, <1>3, StepSchedules

LEMMA RestartSchedules == ASSUME IInv, Restart PROVE Schedules
<1> DEFINE F == [s \in Stores |-> NewScheduler]
           w == [s \in Stores |-> {}]
<1>1. \A s \in Stores : SchedInv(s, F[s], w[s], doc')
  BY NewSchedulerKeeps
<1>2. Step(F, w)
  BY <1>1 DEF Step, Restart
<1>3. doc' \in SUBSET Op /\ awaited' \subseteq doc'
  BY DEF Restart, IInv, TypeOK
<1> QED  BY <1>2, <1>3, StepSchedules

LEMMA NextSchedules == ASSUME IInv, [Next]_vars PROVE Schedules
<1> USE DEF IInv, TypeOK, Scheduling
<1>1. ASSUME NEW o \in Own, WriteFails(o) \/ AppendFails(o) \/ AwaitedFails(o)
      PROVE  Schedules
  BY <1>1, NoStep DEF WriteFails, AppendFails, AwaitedFails, docVars, pastVars
<1>2. CASE Disconnect \/ Reconnect
  BY <1>2, NoStep DEF Disconnect, Reconnect, docVars, logVars, pastVars
<1>3. ASSUME NEW f \in Flight, CatchUpCompletes(f) \/ FlushWritten(f) \/ FlushFails(f)
      PROVE  Schedules
  BY <1>3, NoStep DEF CatchUpCompletes, FlushWritten, FlushFails, docVars, pastVars
<1>4. ASSUME NEW o \in Remote, Record(o) PROVE Schedules
  BY <1>4, NoStep DEF Record, docVars, pastVars
<1>5. ASSUME NEW ops, NEW n, ForeignPut(ops, n) PROVE Schedules
  BY <1>5, NoStep DEF ForeignPut, docVars, logVars, pastVars
<1>6. CASE PullInfo \/ PullGets \/ PullUnreadable \/ PullFails
  BY <1>6, NoStep DEF PullInfo, PullGets, PullUnreadable, PullFails, docVars, logVars, pastVars
<1>7. CASE PullApplies
  BY <1>7, NoStep DEF PullApplies, logVars
<1>8. CASE UNCHANGED vars
  BY <1>8, NoStep DEF vars
<1> QED
  BY <1>1, <1>2, <1>3, <1>4, <1>5, <1>6, <1>7, <1>8, SchedulerSteps, VaultPushSteps,
     EditSteps, AppendSteps, ReceiveSchedules, RestartSchedules DEF Next

-----------------------------------------------------------------------------
(* Types.  Schedulers and owed updates have theirs from NextSchedules.      *)

LogTypes ==
    /\ log \in SUBSET Op /\ writes \in SUBSET Own /\ awaited \in SUBSET Own
    /\ stale \in SUBSET (writes \cup awaited \cup Held) /\ arrived \in SUBSET Remote
    /\ unlogged \in SUBSET Own /\ kept \in SUBSET Own
    /\ flush \in [Flight -> SUBSET Own] /\ lost \in SUBSET Own

Flags == online \in BOOLEAN /\ published \in BOOLEAN /\ missed \in BOOLEAN

VaultTypes ==
    /\ doc \in SUBSET Op /\ disk \in SUBSET Op
    /\ vault \in [ops : SUBSET Op, seq : Nat] /\ vaultSeq \in Nat
    /\ pull \in [stage : {"idle", "info", "got"}, ops : SUBSET Op, seq : Nat]
    /\ foreign \in 0 .. MaxForeign

LEMMA FaultsBounded == ASSUME IInv, [Next]_vars PROVE faults' \in 0 .. MaxFaults
<1>1. faults' = faults \/ (faults < MaxFaults /\ faults' = faults + 1)
  BY Zenon
  DEF Next, vars, Remember, TimerFires, PushDone, PushFails, VaultPushReads,
      VaultPushLands, Edit, EditDurable, WriteAppends, AwaitedAppends, WriteFails,
      AppendFails, AwaitedFails, Disconnect, Reconnect, CatchUpCompletes,
      FlushWritten, FlushFails, Receive, Record, ForeignPut, PullInfo, PullGets,
      PullApplies, PullUnreadable, PullFails, Restart
<1> QED  BY <1>1, BoundsAssumption DEF IInv, TypeOK

LEMMA FlagsStay == ASSUME IInv, [Next]_vars PROVE Flags'
<1> USE DEF IInv, TypeOK, Flags
<1>1. published' \in {published, TRUE, FALSE} /\ online' \in {online, TRUE, FALSE}
  BY Zenon
  DEF Next, vars, netVars, TimerFires, PushDone, PushFails, VaultPushReads,
      VaultPushLands, Edit, EditDurable, WriteAppends, AwaitedAppends, WriteFails,
      AppendFails, AwaitedFails, Disconnect, Reconnect, CatchUpCompletes,
      FlushWritten, FlushFails, Receive, Record, ForeignPut, PullInfo, PullGets,
      PullApplies, PullUnreadable, PullFails, Restart
<1>2. missed' \in {missed, TRUE, FALSE} \/ \E ops, n : ForeignPut(ops, n)
  BY Zenon
  DEF Next, vars, vaultVars, TimerFires, PushDone, PushFails, VaultPushReads,
      VaultPushLands, Edit, EditDurable, WriteAppends, AwaitedAppends, WriteFails,
      AppendFails, AwaitedFails, Disconnect, Reconnect, CatchUpCompletes,
      FlushWritten, FlushFails, Receive, Record, PullInfo, PullGets,
      PullApplies, PullUnreadable, PullFails, Restart
<1>3. missed' \in BOOLEAN
  BY <1>2, Zenon DEF ForeignPut
<1> QED  BY <1>1, <1>3, Zenon

LEMMA LogTypesStay == ASSUME IInv, [Next]_vars PROVE LogTypes'
<1> USE DEF IInv, TypeOK, LogTypes, Held
<1>1. ASSUME NEW s \in Stores, TimerFires(s) \/ PushDone(s) \/ PushFails(s) PROVE LogTypes'
  BY <1>1 DEF TimerFires, PushDone, PushFails, logVars, pastVars
<1>2. CASE VaultPushReads \/ VaultPushLands
  BY <1>2 DEF VaultPushReads, VaultPushLands, logVars, pastVars
<1>3. ASSUME NEW o \in Own, (\E stream \in BOOLEAN : Edit(o, stream)) \/ EditDurable(o)
      PROVE  LogTypes'
  BY <1>3 DEF Edit, EditDurable, netVars
<1>4. ASSUME NEW o \in Own, WriteAppends(o) \/ AwaitedAppends(o) PROVE LogTypes'
  BY <1>4 DEF WriteAppends, AwaitedAppends, pastVars, Op
<1>5. ASSUME NEW o \in Own, WriteFails(o) PROVE LogTypes'
  BY <1>5 DEF WriteFails, Remember, Durable, pastVars
<1>6. ASSUME NEW o \in Own, AppendFails(o) \/ AwaitedFails(o) PROVE LogTypes'
  BY <1>6 DEF AppendFails, AwaitedFails, netVars
<1>7. CASE Disconnect \/ Reconnect
  BY <1>7 DEF Disconnect, Reconnect, logVars, pastVars
<1>8. ASSUME NEW f \in Flight, CatchUpCompletes(f) PROVE LogTypes'
  BY <1>8 DEF CatchUpCompletes, pastVars
<1>9. ASSUME NEW f \in Flight, FlushWritten(f) PROVE LogTypes'
  BY <1>9 DEF FlushWritten, Settled, Durable, pastVars, Op
<1>10. ASSUME NEW f \in Flight, FlushFails(f) PROVE LogTypes'
  BY <1>10 DEF FlushFails, Remember, Durable, pastVars
<1>11. ASSUME NEW o \in Remote, Receive(o) \/ Record(o) PROVE LogTypes'
  BY <1>11 DEF Receive, Record, pastVars, netVars, Op
<1>12. ASSUME NEW ops, NEW n, ForeignPut(ops, n) PROVE LogTypes'
  BY <1>12 DEF ForeignPut, logVars, pastVars
<1>13. CASE PullInfo \/ PullGets \/ PullApplies \/ PullUnreadable \/ PullFails
  BY <1>13 DEF PullInfo, PullGets, PullApplies, PullUnreadable, PullFails, logVars,
               pastVars, netVars
<1>14. CASE Restart
  BY <1>14 DEF Restart
<1>15. CASE UNCHANGED vars
  BY <1>15 DEF vars
<1> QED
  BY <1>1, <1>2, <1>3, <1>4, <1>5, <1>6, <1>7, <1>8, <1>9, <1>10, <1>11, <1>12, <1>13,
     <1>14, <1>15 DEF Next

LEMMA VaultTypesStay == ASSUME IInv, [Next]_vars PROVE VaultTypes'
<1> USE DEF IInv, TypeOK, VaultTypes
<1>1. ASSUME NEW s \in Stores, TimerFires(s) \/ PushFails(s) PROVE VaultTypes'
  BY <1>1 DEF TimerFires, PushFails, docVars, vaultVars
<1>2. ASSUME NEW s \in Stores, PushDone(s) PROVE VaultTypes'
  <2>1. sched[s].data \in SUBSET Op /\ sched[s].seq \in Nat
    BY DEF Scheduler
  <2> QED  BY <1>2, <2>1 DEF PushDone
<1>3. CASE VaultPushReads
  BY <1>3 DEF VaultPushReads, docVars, vaultVars
<1>4. CASE VaultPushLands
  <2>1. sched["vault"].data \in SUBSET Op /\ sched["vault"].seq \in Nat
    BY <1>4 DEF VaultPushLands, Scheduler
  <2> QED  BY <1>4, <2>1 DEF VaultPushLands, docVars
<1>5. ASSUME NEW o \in Own, \/ \E stream \in BOOLEAN : Edit(o, stream)
                            \/ EditDurable(o)
      PROVE  VaultTypes'
  BY <1>5 DEF Edit, EditDurable, vaultVars, Op
<1>6. ASSUME NEW o \in Own, \/ WriteAppends(o) \/ AwaitedAppends(o)
                            \/ WriteFails(o) \/ AppendFails(o) \/ AwaitedFails(o)
      PROVE  VaultTypes'
  BY <1>6 DEF WriteAppends, AwaitedAppends, WriteFails, AppendFails, AwaitedFails,
              docVars, vaultVars
<1>7. CASE Disconnect \/ Reconnect
  BY <1>7 DEF Disconnect, Reconnect, docVars, vaultVars
<1>8. ASSUME NEW f \in Flight, CatchUpCompletes(f) \/ FlushWritten(f) \/ FlushFails(f)
      PROVE  VaultTypes'
  BY <1>8 DEF CatchUpCompletes, FlushWritten, FlushFails, docVars, vaultVars
<1>9. ASSUME NEW o \in Remote, Receive(o) \/ Record(o) PROVE VaultTypes'
  BY <1>9 DEF Receive, Record, docVars, vaultVars, Op
<1>10. ASSUME NEW ops \in SUBSET (Remote \cup (log \cap Own)), NEW n \in 1 .. MaxForeignSeq,
              ForeignPut(ops, n)
       PROVE  VaultTypes'
  <2>1. ops \in SUBSET Op /\ n \in Nat /\ foreign + 1 \in 0 .. MaxForeign
    BY <1>10, BoundsAssumption DEF ForeignPut, Op
  <2> QED  BY <1>10, <2>1 DEF ForeignPut, docVars
<1>11. CASE PullInfo \/ PullFails
  <2>1. pull' \in [stage : {"idle", "info", "got"}, ops : SUBSET Op, seq : Nat]
    BY <1>11 DEF PullInfo, PullFails, NoPull
  <2> QED  BY <1>11, <2>1 DEF PullInfo, PullFails, docVars
<1>12. CASE PullGets
  BY <1>12 DEF PullGets, docVars
<1>13. CASE PullApplies \/ PullUnreadable
  BY <1>13 DEF PullApplies, PullUnreadable, Unreadable, NoPull, docVars
<1>14. CASE Restart
  BY <1>14 DEF Restart, NoPull
<1>15. CASE UNCHANGED vars
  BY <1>15 DEF vars
<1> QED
  BY <1>1, <1>2, <1>3, <1>4, <1>5, <1>6, <1>7, <1>8, <1>9, <1>10, <1>11, <1>12, <1>13,
     <1>14, <1>15 DEF Next

LEMMA TypesStay == ASSUME IInv, [Next]_vars PROVE TypeOK'
<1>1. Schedules /\ LogTypes' /\ VaultTypes' /\ Flags' /\ faults' \in 0 .. MaxFaults
  BY NextSchedules, LogTypesStay, VaultTypesStay, FlagsStay, FaultsBounded
<1>2. "compact" \in Stores => /\ sched'["compact"].seq = 0
                              /\ sched'["compact"].stage \in {"idle", "put"}
  BY <1>1 DEF Schedules, Scheduling, SchedInv, Sound
<1>3. Stores' \in Setups
  BY <1>1 DEF Schedules, IInv, TypeOK
<1> QED  BY <1>1, <1>2, <1>3 DEF Schedules, LogTypes, VaultTypes, Flags, TypeOK

-----------------------------------------------------------------------------
(* Copies of the document: a step adds to them what another copy had, what  *)
(* the log had, or a new edit.                                              *)

LEMMA CopiesStay == ASSUME IInv, [Next]_vars PROVE Copies'
<1> DEFINE All == doc \cup disk \cup vault.ops \cup pull.ops
<1>1. Way \subseteq Way'
  BY WayGrows
<1>2. All \cap Own \subseteq Way
  BY DEF IInv, Copies
<1>3. Own \cap Remote = {}
  BY BoundsAssumption
<1> USE DEF Copies
<1>4. ASSUME All' \subseteq All \cup Remote \cup Way PROVE Copies'
  BY <1>1, <1>2, <1>3, <1>4
<1>5. ASSUME NEW s \in Stores, TimerFires(s) \/ PushFails(s) PROVE Copies'
  BY <1>4, <1>5 DEF TimerFires, PushFails, docVars, vaultVars
<1>6. ASSUME NEW s \in Stores, PushDone(s) PROVE Copies'
  <2>1. sched[s].data \subseteq doc
    BY DEF IInv, Scheduling, SchedInv, Sound
  <2> QED  BY <1>4, <1>6, <2>1 DEF PushDone
<1>7. CASE VaultPushReads
  BY <1>4, <1>7 DEF VaultPushReads, docVars, vaultVars
<1>8. CASE VaultPushLands
  <2>1. sched["vault"].data \subseteq doc
    BY <1>8 DEF VaultPushLands, IInv, Scheduling, SchedInv, Sound
  <2> QED  BY <1>4, <1>8, <2>1 DEF VaultPushLands, docVars
<1>9. ASSUME NEW o \in Own, (\E stream \in BOOLEAN : Edit(o, stream)) \/ EditDurable(o)
      PROVE  Copies'
  <2>1. o \in Way'
    BY <1>9 DEF Edit, EditDurable, Way
  <2>2. All' \subseteq All \cup {o}
    BY <1>9 DEF Edit, EditDurable, vaultVars
  <2> QED  BY <1>1, <1>2, <2>1, <2>2
<1>10. ASSUME NEW o \in Own, \/ WriteAppends(o) \/ AwaitedAppends(o)
                             \/ WriteFails(o) \/ AppendFails(o) \/ AwaitedFails(o)
       PROVE  Copies'
  BY <1>4, <1>10 DEF WriteAppends, AwaitedAppends, WriteFails, AppendFails, AwaitedFails,
                     docVars, vaultVars
<1>11. CASE Disconnect \/ Reconnect
  BY <1>4, <1>11 DEF Disconnect, Reconnect, docVars, vaultVars
<1>12. ASSUME NEW f \in Flight, CatchUpCompletes(f) \/ FlushWritten(f) \/ FlushFails(f)
       PROVE  Copies'
  BY <1>4, <1>12 DEF CatchUpCompletes, FlushWritten, FlushFails, docVars, vaultVars
<1>13. ASSUME NEW o \in Remote, Receive(o) \/ Record(o) PROVE Copies'
  BY <1>4, <1>13 DEF Receive, Record, docVars, vaultVars
<1>14. ASSUME NEW ops \in SUBSET (Remote \cup (log \cap Own)), NEW n, ForeignPut(ops, n)
       PROVE  Copies'
  BY <1>4, <1>14 DEF ForeignPut, docVars, Way
<1>15. CASE PullInfo \/ PullGets \/ PullApplies \/ PullUnreadable \/ PullFails
  BY <1>4, <1>15 DEF PullInfo, PullGets, PullApplies, PullUnreadable, PullFails, NoPull,
                     docVars
<1>16. CASE Restart
  BY <1>4, <1>16 DEF Restart, NoPull
<1>17. CASE UNCHANGED vars
  BY <1>4, <1>17 DEF vars
<1> QED
  BY <1>5, <1>6, <1>7, <1>8, <1>9, <1>10, <1>11, <1>12, <1>13, <1>14, <1>15, <1>16, <1>17
  DEF Next

-----------------------------------------------------------------------------
(* The kept edits.                                                          *)

\* What a step does to the durable record.
KeepStep == \A o \in kept \ log : o \in kept' \cup log' \/ \E f \in Flight : o \in flush[f]

RecordsStep == Records' /\ KeepStep

LEMMA RecordsStay == ASSUME IInv, [Next]_vars PROVE RecordsStep
<1>1. Stores' = Stores
  BY NextSchedules DEF Schedules
<1> USE DEF IInv, TypeOK, Records, KeepStep, RecordsStep, Held
<1>2. ASSUME UNCHANGED <<log, unlogged, kept, flush>> PROVE RecordsStep
  BY <1>1, <1>2
<1>3. ASSUME NEW s \in Stores, TimerFires(s) \/ PushDone(s) \/ PushFails(s) PROVE RecordsStep
  BY <1>2, <1>3 DEF TimerFires, PushDone, PushFails, logVars
<1>4. CASE VaultPushReads \/ VaultPushLands
  BY <1>2, <1>4 DEF VaultPushReads, VaultPushLands, logVars
<1>5. ASSUME NEW o \in Own, (\E stream \in BOOLEAN : Edit(o, stream)) \/ EditDurable(o)
      PROVE  RecordsStep
  BY <1>2, <1>5 DEF Edit, EditDurable
<1>6. ASSUME NEW o \in Own, WriteAppends(o) \/ AwaitedAppends(o) PROVE RecordsStep
  BY <1>1, <1>6 DEF WriteAppends, AwaitedAppends
<1>7. ASSUME NEW o \in Own, WriteFails(o) PROVE RecordsStep
  BY <1>1, <1>7 DEF WriteFails, Remember, Durable
<1>8. ASSUME NEW o \in Own, AppendFails(o) \/ AwaitedFails(o) PROVE RecordsStep
  BY <1>2, <1>8 DEF AppendFails, AwaitedFails
<1>9. CASE Disconnect \/ Reconnect
  BY <1>2, <1>9 DEF Disconnect, Reconnect, logVars
<1>10. ASSUME NEW f \in Flight, CatchUpCompletes(f) PROVE RecordsStep
  BY <1>1, <1>10 DEF CatchUpCompletes
<1>11. ASSUME NEW f \in Flight, FlushWritten(f) PROVE RecordsStep
  BY <1>1, <1>11 DEF FlushWritten, Settled, Durable
<1>12. ASSUME NEW f \in Flight, FlushFails(f) PROVE RecordsStep
  BY <1>1, <1>12 DEF FlushFails, Remember, Durable
<1>13. ASSUME NEW o \in Remote, Receive(o) \/ Record(o) PROVE RecordsStep
  BY <1>1, <1>13 DEF Receive, Record
<1>14. ASSUME NEW ops, NEW n, ForeignPut(ops, n) PROVE RecordsStep
  BY <1>2, <1>14 DEF ForeignPut, logVars
<1>15. CASE PullInfo \/ PullGets \/ PullApplies \/ PullUnreadable \/ PullFails
  BY <1>2, <1>15 DEF PullInfo, PullGets, PullApplies, PullUnreadable, PullFails, logVars
<1>16. CASE Restart
  BY <1>1, <1>16 DEF Restart
<1>17. CASE UNCHANGED vars
  BY <1>2, <1>17 DEF vars
<1> QED
  BY <1>3, <1>4, <1>5, <1>6, <1>7, <1>8, <1>9, <1>10, <1>11, <1>12, <1>13, <1>14, <1>15,
     <1>16, <1>17, Zenon DEF Next

-----------------------------------------------------------------------------
(* The numbers of the vault.                                                *)

LEMMA NumbersStay == ASSUME IInv, [Next]_vars PROVE Numbers'
<1>1. Stores' = Stores
  BY NextSchedules DEF Schedules
<1> USE DEF IInv, TypeOK, Numbers, SkippedIsKnown
\* A scheduler does not come to "landed" but by a push that lands.
<1>2. ASSUME NEW s, NEW c \in Scheduler, NEW d
      PROVE  /\ Scheduled(s, c, d).stage = "landed" => c.stage = "landed"
             /\ Scheduled(s, c, d).seq = c.seq
             /\ Immediately(s, c, d).stage = "landed" => c.stage = "landed"
             /\ Immediately(s, c, d).seq = c.seq
             /\ Debounced(c).stage = c.stage /\ Debounced(c).seq = c.seq
             /\ Finished(s, c, d).stage # "landed"
             /\ Pushed(s, c, d).stage # "landed"
  <2>1. ASSUME NEW e \in Scheduler
        PROVE  /\ Scheduled(s, e, d).stage = "landed" => e.stage = "landed"
               /\ Scheduled(s, e, d).seq = e.seq
    BY DEF Scheduled, Scheduler
  <2>2. [c EXCEPT !.timer = FALSE] \in Scheduler
    BY DEF Scheduler
  <2>3. ASSUME NEW e \in Scheduler PROVE Finished(s, e, d).stage # "landed"
    <3> DEFINE idle == [e EXCEPT !.stage = "idle", !.again = FALSE, !.start = {},
                                 !.data = {}, !.seq = 0]
    <3>1. idle \in Scheduler /\ idle.stage = "idle"
      BY DEF Scheduler
    <3>2. Finished(s, e, d) = IF e.again THEN Scheduled(s, idle, d) ELSE idle
      BY DEF Finished
    <3> HIDE DEF idle
    <3> QED  BY <2>1, <3>1, <3>2
  <2>4. [c EXCEPT !.last = c.start] \in Scheduler
    BY DEF Scheduler
  <2>5. Debounced(c).stage = c.stage /\ Debounced(c).seq = c.seq
    BY DEF Debounced, Scheduler
  <2>6. [c EXCEPT !.timer = FALSE].stage = c.stage /\ [c EXCEPT !.timer = FALSE].seq = c.seq
    BY DEF Scheduler
  <2> QED  BY <2>1, <2>2, <2>3, <2>4, <2>5, <2>6 DEF Immediately, Pushed
\* Nothing but the schedulers moves, and none lands.
<1> DEFINE Same == "vault" \in Stores =>
                      (sched'["vault"].stage = "landed" =>
                          sched["vault"].stage = "landed" /\ sched'["vault"].seq = sched["vault"].seq)
<1>3. ASSUME Same, UNCHANGED <<vault, vaultSeq, pull, missed>>, doc \subseteq doc'
      PROVE  Numbers'
  BY <1>1, <1>3
<1>4. ASSUME NEW s \in Stores, TimerFires(s) \/ PushFails(s) PROVE Numbers'
  <2>1. sched[s] \in Scheduler
    OBVIOUS
  <2>2. \/ sched' = [sched EXCEPT ![s] = Immediately(s, sched[s], doc)]
        \/ sched' = [sched EXCEPT ![s] = Finished(s, sched[s], doc)]
    BY <1>4 DEF TimerFires, PushFails, Immediately
  <2>3. Same
    BY <1>2, <2>1, <2>2
  <2> QED  BY <1>3, <1>4, <2>3 DEF TimerFires, PushFails, docVars, vaultVars
<1>5. ASSUME NEW s \in Stores, PushDone(s) PROVE Numbers'
  <2>1. Same /\ (s = "vault" => sched'["vault"].stage # "landed")
    BY <1>2, <1>5 DEF PushDone
  <2>2. CASE s = "compact"
    BY <1>3, <1>5, <2>1, <2>2 DEF PushDone
  <2>3. CASE s # "compact"
    <3>1. s = "vault"
      BY <2>3, BoundsAssumption
    <3>2. /\ sched["vault"].stage = "landed" /\ vaultSeq' = sched["vault"].seq
          /\ UNCHANGED <<vault, pull, missed, doc>>
      BY <1>5, <3>1 DEF PushDone
    <3> QED  BY <1>1, <2>1, <3>1, <3>2
  <2> QED  BY <2>2, <2>3
<1>6. CASE VaultPushReads
  <2>1. Same
    BY <1>6 DEF VaultPushReads
  <2> QED  BY <1>3, <1>6, <2>1 DEF VaultPushReads, docVars, vaultVars
<1>7. CASE VaultPushLands
  <2>1. sched["vault"].data \subseteq doc /\ sched["vault"].seq > 0
    BY <1>7 DEF VaultPushLands, Scheduling, SchedInv, Sound
  <2>2. vault'.ops = sched["vault"].data /\ vault'.seq = sched["vault"].seq
    BY <1>7 DEF VaultPushLands
  <2>3. UNCHANGED <<doc, vaultSeq, pull, missed>>
    BY <1>7 DEF VaultPushLands, docVars
  <2>4. vault'.ops \subseteq doc' /\ vault'.seq # 0
    BY <2>1, <2>2, <2>3
  <2> QED  BY <2>3, <2>4
<1>8. ASSUME NEW o \in Own, \E stream \in BOOLEAN : Edit(o, stream) PROVE Numbers'
  <2>1. Same
    BY <1>2, <1>8 DEF Edit
  <2> QED  BY <1>3, <1>8, <2>1 DEF Edit, vaultVars
<1>9. ASSUME NEW o \in Own, AwaitedAppends(o) PROVE Numbers'
  <2>1. Same
    BY <1>2, <1>9 DEF AwaitedAppends
  <2> QED  BY <1>3, <1>9, <2>1 DEF AwaitedAppends, docVars, vaultVars
<1>10. ASSUME NEW o \in Own, \/ EditDurable(o) \/ WriteAppends(o)
                             \/ WriteFails(o) \/ AppendFails(o) \/ AwaitedFails(o)
       PROVE  Numbers'
  BY <1>3, <1>10 DEF EditDurable, WriteAppends, WriteFails, AppendFails, AwaitedFails,
                     docVars, vaultVars
<1>11. CASE Disconnect \/ Reconnect
  BY <1>3, <1>11 DEF Disconnect, Reconnect, docVars, vaultVars
<1>12. ASSUME NEW f \in Flight, CatchUpCompletes(f) \/ FlushWritten(f) \/ FlushFails(f)
       PROVE  Numbers'
  BY <1>3, <1>12 DEF CatchUpCompletes, FlushWritten, FlushFails, docVars, vaultVars
<1>13. ASSUME NEW o \in Remote, Receive(o) PROVE Numbers'
  <2>1. Same
    BY <1>2, <1>13 DEF Receive
  <2> QED  BY <1>3, <1>13, <2>1 DEF Receive, vaultVars
<1>14. ASSUME NEW o \in Remote, Record(o) PROVE Numbers'
  BY <1>3, <1>14 DEF Record, docVars, vaultVars
<1>15. ASSUME NEW ops, NEW n \in 1 .. MaxForeignSeq, ForeignPut(ops, n) PROVE Numbers'
  <2>1. vault'.seq = n /\ n # 0 /\ UNCHANGED <<sched, vaultSeq, pull>>
    BY <1>15, BoundsAssumption DEF ForeignPut
  <2>2. ~missed' => n # vaultSeq /\ n # sched["vault"].seq /\ n # pull.seq
    BY <1>15 DEF ForeignPut
  <2> QED  BY <1>1, <2>1, <2>2
<1>16. CASE PullInfo
  <2>1. pull'.stage = "info" /\ UNCHANGED <<doc, sched, vault, missed>>
    BY <1>16 DEF PullInfo, NoPull, docVars
  <2> QED  BY <1>1, <2>1
<1>17. CASE PullGets
  <2>1. pull'.stage = "got" /\ pull'.ops = vault.ops /\ UNCHANGED <<doc, sched, vault, missed>>
    BY <1>17 DEF PullGets, docVars
  <2> QED  BY <1>1, <2>1
<1>18. CASE PullApplies
  <2>1. /\ pull.stage = "got" /\ pull'.stage = "idle" /\ doc' = doc \cup pull.ops
        /\ vaultSeq' = pull.seq /\ UNCHANGED <<sched, vault, missed>>
    BY <1>18 DEF PullApplies, NoPull
  <2> QED  BY <1>1, <2>1
<1>19. CASE PullUnreadable
  <2>1. /\ pull'.stage = "idle" /\ vaultSeq' = 0 /\ UNCHANGED <<doc, sched, vault, missed>>
    BY <1>19 DEF PullUnreadable, Unreadable, NoPull, docVars
  <2> QED  BY <1>1, <2>1
<1>20. CASE PullFails
  <2>1. missed' /\ UNCHANGED vault
    BY <1>20 DEF PullFails
  <2> QED  BY <2>1
<1>21. CASE Restart
  <2>1. /\ pull'.stage = "idle" /\ vaultSeq' = 0 /\ UNCHANGED vault
        /\ "vault" \in Stores => sched'["vault"].stage = "idle"
    BY <1>21 DEF Restart, NoPull, NewScheduler
  <2> QED  BY <1>1, <2>1
<1>22. CASE UNCHANGED vars
  BY <1>3, <1>22 DEF vars
<1> QED
  BY <1>4, <1>5, <1>6, <1>7, <1>8, <1>9, <1>10, <1>11, <1>12, <1>13, <1>14, <1>15, <1>16,
     <1>17, <1>18, <1>19, <1>20, <1>21, <1>22, Zenon DEF Next

-----------------------------------------------------------------------------
LEMMA NextIInv == ASSUME IInv, [Next]_vars PROVE IInv'
  BY TypesStay, NextSchedules, CopiesStay, RecordsStay, NumbersStay
  DEF IInv, Schedules, RecordsStep

(* The inductive invariant holds of every behaviour.                         *)
THEOREM Invariance == Spec => []IInv
<1>1. Init => IInv
  BY InitIInv
<1>2. IInv /\ [Next]_vars => IInv'
  BY NextIInv
<1> QED  BY <1>1, <1>2, PTL DEF Spec

(* Document, log, schedulers, vault and pull stay well formed, for any       *)
(* edits, stores, flushes and faults.                                        *)
THEOREM TypeCorrect == Spec => []TypeOK
<1>1. IInv => TypeOK
  BY DEF IInv
<1> QED  BY <1>1, Invariance, PTL

(* VaultPushScheduler: whatever edits, pushes, failures and timers           *)
(* interleave, an update the scheduler was asked to save has a push or a     *)
(* timer that will see it.                                                   *)
THEOREM NoSaveOverlooked == Spec => []NothingOverlooked
<1>1. IInv => NothingOverlooked
  BY DEF IInv, Scheduling, SchedInv, Work, NothingOverlooked
<1> QED  BY <1>1, Invariance, PTL

(* writeLocalUpdateViaLog, transactDurable, flushUnloggedUpdate: no edit of  *)
(* the document is forgotten on its way to the log, also one that comes back *)
(* from the disk or the vault.                                               *)
THEOREM NoEditForgotten == Spec => []EditOnItsWay
<1>1. IInv => EditOnItsWay
  BY DEF IInv, Copies, Way, EditOnItsWay
<1> QED  BY <1>1, Invariance, PTL

(* _pullFromVault: a snapshot whose number makes the pull skip it is known,  *)
(* for any number of devices that put snapshots.                             *)
THEOREM SkippedSnapshotIsKnown == Spec => []SkippedIsKnown
<1>1. IInv => SkippedIsKnown
  BY DEF IInv, Numbers
<1> QED  BY <1>1, Invariance, PTL

(* rememberUnloggedUpdate, flushUnloggedUpdate: a kept edit leaves the       *)
(* durable record only for the log or while a flush holds it, for any number *)
(* of flushes that overlap.                                                  *)
THEOREM KeptIsLogged == Spec => KeptUntilLogged
<1>1. IInv /\ [Next]_vars => [KeepStep]_vars
  BY RecordsStay DEF RecordsStep
<1> QED  BY <1>1, Invariance, PTL DEF Spec, KeptUntilLogged, KeepStep

=============================================================================
