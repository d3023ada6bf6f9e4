------------------------ MODULE SecureRemoval_proofs ------------------------
(***************************************************************************)
(* Safety of SecureRemoval for every set of identities and runs and every  *)
(* bound on generations, materials, rotations and faults.                  *)
(*                                                                         *)
(* None of the properties is inductive: a run works on the copy of the     *)
(* record that it has read, while other runs replace, confirm or delete    *)
(* the stored one.  The inductive invariant says what every copy is worth  *)
(* (RecordOK), what a run knows at each point where it is suspended        *)
(* (JobOK), and that a staging identity stands for one material            *)
(* (OneMaterial), so that the identity of a copy speaks for the stored     *)
(* record.  What a copy relies on only grows: generations are installed    *)
(* once, events are not taken back, the broker authority does not return.  *)
(* The last part is about the end of a record: only a deletion takes one   *)
(* out of the store, and the run that deletes it has earned it.            *)
(***************************************************************************)
EXTENDS SecureRemoval, TLAPS

Early == {"staged", "broker-confirmed"}

\* The broker has installed this material for the generation of the record.
Enforced(rec) == rec.gen <= bgen /\ installed[rec.gen] = rec.mat

\* The removal is in the durable log.
InLog(d, rec) == [did |-> d, gen |-> rec.gen, mat |-> rec.mat] \in recorded

\* What a record of the removal of d is worth, stored or read long ago.
RecordOK(d, rec) ==
    /\ rec.gen \in 1 .. MaxGen /\ rec.sid <= minted
    /\ rec.sid = 0 => rec.phase \in Early /\ rec.kind = "removal"
    /\ rec.sid # 0 /\ rec.conf => Enforced(rec)
    /\ rec.phase \notin Early => rec.conf /\ (rec.kind = "removal" => InLog(d, rec))
    /\ rec.phase = "admin-removed" => rec.adm
    /\ rec.adm => d = Owner /\ ~admin
    /\ d = Owner => rec.kind = "removal"

Confirmed == {"confirm", "assert", "commit", "saveKey", "saveCap", "effects", "committed",
              "adminSend", "adminMark", "adminPhase", "finalize", "cleanup", "complete"}

\* What a run knows where it is suspended at p with the local variables j.
JobOK(p, j) ==
    /\ j.did = Owner => j.kind = "removal"
    /\ p = "stage" => j.rec = None
    /\ p # "stage" => /\ RecordOK(j.did, j.rec)
                      /\ j.kind = "canonical" => j.rec.kind = "canonical"
                      /\ p # "bind" => j.rec.sid # 0
    /\ p = "mark" => Enforced(j.rec)
    /\ p = "taken" => j.rec.gen <= bgen
    /\ p \in Confirmed => j.rec.conf
    /\ p = "committed" /\ j.kind = "removal" => InLog(j.did, j.rec)
    /\ p \in {"adminSend", "adminMark", "adminPhase"} =>
          j.did = Owner /\ j.rec.phase = "committed"
    /\ p = "adminMark" => ~admin
    /\ p = "adminPhase" => j.rec.adm
    /\ p \in {"finalize", "cleanup"} => j.rec.phase = "admin-removed"
    /\ p = "complete" => j.rec.phase \notin Early
    /\ p = "delete" => \/ j.rec.phase \notin Early
                       \/ j.rec.kind = "canonical" /\ j.rec.gen <= bgen

\* Every record that somebody holds.
Alive == ({store[d] : d \in Did} \cup {job[r].rec : r \in {q \in Run : pc[q] # "idle"}}) \ {None}

Like(x, y) == x.sid = y.sid /\ x.gen = y.gen /\ x.mat = y.mat /\ x.kind = y.kind
Known(x)   == \E y \in Alive : Like(x, y)

StoreOK     == \A d \in Did : store[d] # None => RecordOK(d, store[d])
JobsOK      == \A r \in Run : pc[r] # "idle" => JobOK(pc[r], job[r])
OneMaterial == \A x, y \in Alive : x.sid = y.sid /\ x.sid # 0 => Like(x, y)

IInv ==
    /\ TypeOK /\ StoreOK /\ JobsOK /\ OneMaterial
    /\ RecordedIsEnforced /\ LeftIsHandedBack

-----------------------------------------------------------------------------
(* What a record and a run rely on stays true.                               *)

Grows ==
    /\ bgen <= bgen' /\ \A g \in 0 .. bgen : installed'[g] = installed[g]
    /\ recorded \subseteq recorded' /\ (~admin => ~admin') /\ minted <= minted'

\* The variables other than the store and the runs have their types.
Typed ==
    /\ installed \in [Gen -> Nat \cup {None}] /\ bgen \in Gen /\ admin \in BOOLEAN
    /\ key \in [Gen -> Nat \cup {None}] /\ cap \in [Gen -> Nat \cup {None}]
    /\ cur \in -1 .. MaxGen
    /\ left \in BOOLEAN /\ member \subseteq Did /\ declared \in [Did -> Gen]
    /\ recorded \subseteq [did : Did, gen : Nat, mat : Nat]
    /\ sent \subseteq Nat \X Nat /\ theirs \subseteq Nat
    /\ minted \in Nat /\ faults \in Nat /\ foreign \in Nat /\ reinvites \in Nat

LEMMA Numbers == MaxGen \in Nat /\ MaxGen >= 1 /\ Gen = 0 .. MaxGen /\ 1 \in Gen /\ Gen \subseteq Nat
  BY RemovalAssumption DEF Gen

LEMMA EnforcedStable ==
    ASSUME TypeOK, Typed', Grows, NEW rec \in Record, Enforced(rec)
    PROVE  Enforced(rec)'
<1>1. rec.gen \in Nat /\ bgen \in Nat /\ bgen' \in Nat
  BY Numbers DEF TypeOK, Typed, Record
<1>2. rec.gen \in 0 .. bgen
  BY <1>1 DEF Enforced
<1> QED
  BY <1>1, <1>2 DEF Enforced, Grows

LEMMA InLogStable ==
    ASSUME Grows, NEW d, NEW rec, InLog(d, rec)
    PROVE  InLog(d, rec)'
  BY DEF Grows, InLog

LEMMA RecordStable ==
    ASSUME TypeOK, Typed', Grows, NEW d, NEW rec \in Record, RecordOK(d, rec)
    PROVE  RecordOK(d, rec)'
<1>1. rec.sid <= minted'
  BY DEF RecordOK, Grows, TypeOK, Typed, Record
<1> QED
  BY <1>1, EnforcedStable, InLogStable DEF RecordOK, Grows

LEMMA JobStable ==
    ASSUME TypeOK, Typed', Grows, NEW p, NEW j \in Job, p # "stage" => j.rec \in Record,
           JobOK(p, j)
    PROVE  JobOK(p, j)'
<1>1. CASE p = "stage"
  BY <1>1 DEF JobOK, Confirmed
<1>2. CASE p # "stage"
  <2>1. RecordOK(j.did, j.rec)'
    BY <1>2, RecordStable DEF JobOK
  <2>2. j.rec.gen <= bgen => j.rec.gen <= bgen'
    BY <1>2, Numbers DEF Grows, TypeOK, Typed, Record
  <2>3. Enforced(j.rec) => Enforced(j.rec)'
    BY <1>2, EnforcedStable
  <2>4. InLog(j.did, j.rec) => InLog(j.did, j.rec)'
    BY InLogStable
  <2>5. ~admin => ~admin'
    BY DEF Grows
  <2> QED
    BY <1>2, <2>1, <2>2, <2>3, <2>4, <2>5 DEF JobOK
<1> QED
  BY <1>1, <1>2

-----------------------------------------------------------------------------
(* One step of one run.  It may write one record and moves its own run; what *)
(* the others have read stays worth the same.                                *)

LEMMA AliveFacts ==
    ASSUME TypeOK
    PROVE  /\ \A d \in Did : store[d] # None => store[d] \in Alive
           /\ \A r \in Run : pc[r] \notin {"idle", "stage"} => job[r].rec \in Alive
           /\ Alive \subseteq Record
<1>1. None \notin Record
  BY RemovalAssumption
<1>2. ASSUME NEW d \in Did, store[d] # None PROVE store[d] \in Alive /\ store[d] \in Record
  BY <1>2 DEF Alive, TypeOK
<1>3. ASSUME NEW r \in Run, pc[r] \notin {"idle", "stage"}
      PROVE  job[r].rec \in Alive /\ job[r].rec \in Record
  <2>1. job[r].rec \in Record
    BY <1>3 DEF TypeOK
  <2> QED
    BY <1>1, <1>3, <2>1 DEF Alive
<1>4. ASSUME NEW r \in Run, pc[r] # "idle" PROVE job[r].rec \in Record \cup {None}
  BY <1>4 DEF TypeOK, Job
<1>5. ASSUME NEW x \in Alive PROVE x \in Record
  BY <1>2, <1>4 DEF Alive
<1> QED
  BY <1>2, <1>3, <1>5

(* Every record that somebody holds has a minted identity.                   *)
LEMMA AliveMinted ==
    ASSUME TypeOK, StoreOK, JobsOK
    PROVE  \A x \in Alive : x.sid \in Nat /\ x.sid <= minted
<1> SUFFICES ASSUME NEW x \in Alive PROVE x.sid \in Nat /\ x.sid <= minted
  OBVIOUS
<1>1. x \in Record /\ x # None
  BY AliveFacts DEF Alive
<1>2. CASE \E d \in Did : x = store[d]
  BY <1>1, <1>2 DEF StoreOK, RecordOK, Record
<1>3. CASE \E r \in Run : pc[r] # "idle" /\ x = job[r].rec
  <2>1. PICK r \in Run : pc[r] # "idle" /\ x = job[r].rec
    BY <1>3
  <2>2. JobOK(pc[r], job[r])
    BY <2>1 DEF JobsOK
  <2>3. CASE pc[r] # "stage"
    BY <1>1, <2>1, <2>2, <2>3 DEF JobOK, RecordOK, Record
  <2>4. CASE pc[r] = "stage"
    BY <1>1, <2>1, <2>2, <2>4 DEF JobOK, RecordOK, Record
  <2> QED
    BY <2>3, <2>4
<1> QED
  BY <1>2, <1>3 DEF Alive

(* A staging identity still stands for one material when a step brings at    *)
(* most one record whose identity was not minted before.                     *)
LEMMA FreshIdentity ==
    ASSUME TypeOK, StoreOK, JobsOK, OneMaterial, NEW z, z.sid = minted + 1,
           \A x \in Alive' : Known(x) \/ Like(x, z)
    PROVE  OneMaterial'
<1> SUFFICES ASSUME NEW x \in Alive', NEW y \in Alive', x.sid = y.sid, x.sid # 0
             PROVE  Like(x, y)
  BY DEF OneMaterial, Like
<1>1. \A u \in Alive : u.sid # minted + 1
  BY AliveMinted DEF TypeOK
<1>2. CASE Known(x) /\ Known(y)
  <2>1. PICK u \in Alive, v \in Alive : Like(x, u) /\ Like(y, v)
    BY <1>2 DEF Known
  <2>2. Like(u, v)
    BY <2>1 DEF OneMaterial, Like
  <2> QED
    BY <2>1, <2>2 DEF Like
<1>3. CASE ~Known(x) \/ ~Known(y)
  <2>1. Like(x, z) \/ Like(y, z)
    BY <1>3
  <2>2. x.sid = minted + 1 /\ y.sid = minted + 1
    BY <2>1 DEF Like
  <2>3. ~Known(x) /\ ~Known(y)
    BY <1>1, <2>2 DEF Known, Like
  <2> QED
    BY <2>3 DEF Like
<1> QED
  BY <1>2, <1>3

LEMMA RunStep ==
    ASSUME IInv, Typed', Grows, RecordedIsEnforced', LeftIsHandedBack',
           NEW r \in Run, NEW p \in Pc, NEW j, Goto(r, p, j),
           p = "idle" => j = None,
           p # "idle" => /\ j \in Job /\ (p # "stage" => j.rec \in Record)
                         /\ JobOK(p, j)',
           NEW d \in Did, NEW new \in Record \cup {None},
           store' = [store EXCEPT ![d] = new],
           new # None => RecordOK(d, new)',
           NEW z, z.sid = minted + 1,
           new # None => Known(new) \/ Like(new, z),
           p # "idle" /\ j.rec # None => Known(j.rec) \/ Like(j.rec, z)
    PROVE  IInv'
<1> USE DEF IInv
<1>1. /\ pc' \in [Run -> Pc] /\ job' \in [Run -> Job \cup {None}]
      /\ pc'[r] = p /\ job'[r] = j
      /\ \A q \in Run \ {r} : pc'[q] = pc[q] /\ job'[q] = job[q]
  <2>1. pc' = [pc EXCEPT ![r] = p] /\ job' = [job EXCEPT ![r] = j]
    BY DEF Goto
  <2>2. pc \in [Run -> Pc] /\ job \in [Run -> Job \cup {None}]
    BY DEF TypeOK
  <2> QED
    BY <2>1, <2>2
<1>2. /\ store' \in [Did -> Record \cup {None}] /\ store'[d] = new
      /\ \A e \in Did \ {d} : store'[e] = store[e]
  BY DEF TypeOK
<1>3. TypeOK'
  <2>1. ASSUME NEW q \in Run
        PROVE  IF pc'[q] = "idle" THEN job'[q] = None
               ELSE job'[q] \in Job /\ (pc'[q] # "stage" => job'[q].rec \in Record)
    BY <1>1 DEF TypeOK
  <2> QED
    BY <1>1, <1>2, <2>1 DEF TypeOK, Typed
<1>4. StoreOK'
  <2> SUFFICES ASSUME NEW e \in Did, store'[e] # None PROVE RecordOK(e, store[e])'
    BY DEF StoreOK
  <2>1. PICK rec \in Record : rec = store'[e]
    BY <1>2
  <2>2. RecordOK(e, rec)'
    <3>1. CASE e = d
      BY <1>2, <2>1, <3>1
    <3>2. CASE e # d
      BY <1>2, <2>1, <3>2, RecordStable DEF StoreOK
    <3> QED
      BY <3>1, <3>2
  <2> QED
    BY <2>1, <2>2 DEF RecordOK, Enforced, InLog
<1>5. JobsOK'
  <2> SUFFICES ASSUME NEW q \in Run, pc'[q] # "idle" PROVE JobOK(pc[q], job[q])'
    BY DEF JobsOK
  <2>1. PICK c \in Pc, k \in Job : /\ c = pc'[q] /\ k = job'[q] /\ c # "idle"
                                   /\ c # "stage" => k.rec \in Record
    BY <1>3 DEF TypeOK
  <2>2. CASE q = r
    <3>1. c = p /\ k = j
      BY <1>1, <2>1, <2>2
    <3>2. JobOK(p, j)'
      BY <2>1, <3>1
    <3> QED
      BY <2>1, <3>1, <3>2 DEF JobOK, RecordOK, Enforced, InLog
  <2>3. CASE q # r
    <3>1. c = pc[q] /\ k = job[q]
      BY <1>1, <2>1, <2>3
    <3>2. JobOK(c, k)
      BY <2>1, <3>1 DEF JobsOK
    <3>3. JobOK(c, k)'
      BY <2>1, <3>2, JobStable
    <3> QED
      BY <2>1, <3>3 DEF JobOK, RecordOK, Enforced, InLog
  <2> QED
    BY <2>2, <2>3
<1>6. OneMaterial'
  <2>1. ASSUME NEW x \in Alive' PROVE Known(x) \/ Like(x, z)
    <3>1. CASE \E e \in Did : x = store'[e]
      <4>1. PICK e \in Did : x = store'[e] /\ x # None
        BY <3>1 DEF Alive
      <4>2. CASE e = d
        BY <1>2, <4>1, <4>2
      <4>3. CASE e # d
        BY <1>2, <4>1, <4>3 DEF Known, Like, Alive
      <4> QED
        BY <4>2, <4>3
    <3>2. CASE \E q \in Run : pc'[q] # "idle" /\ x = job'[q].rec
      <4>1. PICK q \in Run : pc'[q] # "idle" /\ x = job'[q].rec /\ x # None
        BY <3>2 DEF Alive
      <4>2. CASE q = r
        BY <1>1, <4>1, <4>2
      <4>3. CASE q # r
        BY <1>1, <4>1, <4>3 DEF Known, Like, Alive
      <4> QED
        BY <4>2, <4>3
    <3> QED
      BY <3>1, <3>2 DEF Alive
  <2> QED
    BY <2>1, FreshIdentity
<1> QED
  BY <1>3, <1>4, <1>5, <1>6

\* What a run that is beyond its staging has at hand.
LEMMA RunFacts ==
    ASSUME IInv, NEW r \in Run, pc[r] # "idle"
    PROVE  /\ job[r] \in Job /\ job[r].did \in Did /\ job[r].kind \in Kind
           /\ JobOK(pc[r], job[r])
           /\ pc[r] # "stage" => /\ job[r].rec \in Record /\ job[r].rec # None
                                 /\ Known(job[r].rec)
                                 /\ RecordOK(job[r].did, job[r].rec)
<1>1. job[r] \in Job /\ JobOK(pc[r], job[r])
  BY DEF IInv, TypeOK, JobsOK
<1>2. pc[r] # "stage" => job[r].rec \in Record /\ job[r].rec \in Alive
  BY AliveFacts DEF IInv, TypeOK
<1>3. pc[r] # "stage" => job[r].rec # None /\ Known(job[r].rec)
  BY <1>2, RemovalAssumption DEF Known, Like
<1> QED
  BY <1>1, <1>2, <1>3 DEF Job, JobOK

LEMMA StoreFacts ==
    ASSUME IInv, NEW d \in Did, store[d] # None
    PROVE  store[d] \in Record /\ Known(store[d]) /\ RecordOK(d, store[d])
<1>1. store[d] \in Record /\ store[d] \in Alive
  BY AliveFacts DEF IInv, TypeOK
<1> QED
  BY <1>1 DEF IInv, StoreOK, Known, Like

LEMMA WithFacts ==
    ASSUME NEW r, job[r] \in Job, NEW rec \in Record
    PROVE  /\ With(r, rec) \in Job /\ With(r, rec).rec = rec
           /\ With(r, rec).did = job[r].did /\ With(r, rec).kind = job[r].kind
  BY DEF With, Job

(* Only the store and the runs change.                                       *)
LEMMA StillFacts ==
    ASSUME IInv, UNCHANGED <<broker, keys, space, theirs, minted, bounds>>
    PROVE  Typed' /\ Grows /\ RecordedIsEnforced' /\ LeftIsHandedBack'
<1> USE DEF IInv, broker, keys, space, bounds
<1>1. Typed'
  BY DEF TypeOK, Typed
<1>2. bgen <= bgen' /\ minted <= minted'
  BY Numbers DEF TypeOK
<1>3. Grows
  BY <1>2 DEF Grows
<1>4. RecordedIsEnforced' /\ LeftIsHandedBack'
  BY DEF RecordedIsEnforced, LeftIsHandedBack
<1> QED
  BY <1>1, <1>3, <1>4

(* A step that writes no record.                                             *)
LEMMA NoWrite ==
    ASSUME IInv, Typed', Grows, RecordedIsEnforced', LeftIsHandedBack', store' = store,
           NEW r \in Run, NEW p \in Pc, NEW j, Goto(r, p, j),
           p = "idle" => j = None,
           p # "idle" => /\ j \in Job /\ (p # "stage" => j.rec \in Record)
                         /\ JobOK(p, j)',
           NEW d \in Did,
           NEW z, z.sid = minted + 1,
           p # "idle" /\ j.rec # None => Known(j.rec) \/ Like(j.rec, z)
    PROVE  IInv'
<1>1. PICK new \in Record \cup {None} : new = store[d] /\ store' = [store EXCEPT ![d] = new]
  BY DEF IInv, TypeOK
<1>2. new # None => new \in Record /\ Known(new) /\ RecordOK(d, new)
  BY <1>1, StoreFacts
<1>3. new # None => RecordOK(d, new)'
  BY <1>2, RecordStable DEF IInv
<1> QED
  BY <1>1, <1>2, <1>3, RunStep

LEMMA SomeFresh == \E z : z.sid = minted + 1
<1> DEFINE z == [sid |-> minted + 1]
<1>1. z.sid = minted + 1
  OBVIOUS
<1> QED
  BY <1>1

LEMMA StopStep ==
    ASSUME IInv, Typed', Grows, RecordedIsEnforced', LeftIsHandedBack',
           NEW r \in Run, pc[r] # "idle", Stop(r), store' = store
    PROVE  IInv'
<1>1. PICK d \in Did : d = job[r].did
  BY RunFacts
<1>2. PICK z : z.sid = minted + 1
  BY SomeFresh
<1>3. "idle" \in Pc /\ Goto(r, "idle", None)
  BY DEF Pc, Stop
<1> QED
  BY <1>2, <1>3, NoWrite

(* A run that goes on with a record that is known.                           *)
LEMMA MoveStep ==
    ASSUME IInv, Typed', Grows, RecordedIsEnforced', LeftIsHandedBack', store' = store,
           NEW r \in Run, NEW p \in Pc \ {"idle"}, NEW j \in Job, Goto(r, p, j),
           p # "stage" => j.rec \in Record /\ Known(j.rec),
           JobOK(p, j)'
    PROVE  IInv'
<1>1. PICK d \in Did : d = j.did
  BY DEF Job
<1>2. PICK z : z.sid = minted + 1
  BY SomeFresh
<1>3. p = "stage" => j.rec = None
  BY DEF JobOK
<1> QED
  BY <1>2, <1>3, NoWrite

(* A run that goes on and leaves everything else alone.                      *)
LEMMA QuietMove ==
    ASSUME IInv, UNCHANGED <<store, broker, keys, space, theirs, minted, bounds>>,
           NEW r \in Run, NEW p \in Pc \ {"idle"}, NEW j \in Job, Goto(r, p, j),
           p # "stage" => j.rec \in Record /\ Known(j.rec),
           JobOK(p, j)
    PROVE  IInv'
<1>1. Typed' /\ Grows /\ RecordedIsEnforced' /\ LeftIsHandedBack'
  BY StillFacts
<1>2. JobOK(p, j)'
  BY <1>1, JobStable DEF IInv
<1> QED
  BY <1>1, <1>2, MoveStep

LEMMA QuietStop ==
    ASSUME IInv, UNCHANGED <<store, broker, keys, space, theirs, minted, bounds>>,
           NEW r \in Run, pc[r] # "idle", Stop(r)
    PROVE  IInv'
  BY StillFacts, StopStep

(* persistPhase: a record is written forward, or the run ends because the    *)
(* stored one is of another staging.                                         *)
LEMMA PersistStep ==
    ASSUME IInv, NEW r \in Run, pc[r] \notin {"idle", "stage"},
           NEW rec \in Record, NEW p \in Pc \ {"idle", "stage"}, Persist(r, rec, p),
           Like(rec, job[r].rec), RecordOK(job[r].did, rec),
           NEW j \in Job, j = With(r, rec), JobOK(p, j)
    PROVE  IInv'
<1>1. PICK d \in Did : d = job[r].did
  BY RunFacts
<1>2. UNCHANGED <<broker, keys, space, theirs, minted, bounds>>
  BY DEF Persist
<1>3. Typed' /\ Grows /\ RecordedIsEnforced' /\ LeftIsHandedBack'
  BY <1>2, StillFacts
<1>4. CASE Matches(store[d], rec)
  <2>1. store' = [store EXCEPT ![d] = rec] /\ Goto(r, p, With(r, rec))
    BY <1>1, <1>4 DEF Persist
  <2>2. j.rec = rec
    BY WithFacts, RunFacts
  <2>3. JobOK(p, j)'
    BY <1>3, <2>2, JobStable DEF IInv
  <2>4. RecordOK(d, rec)'
    BY <1>1, <1>3, RecordStable DEF IInv
  <2>5. Known(rec)
    BY RunFacts DEF Known, Like
  <2>6. PICK z : z.sid = minted + 1
    BY SomeFresh
  <2>7. Goto(r, p, j)
    BY <2>1, <2>2
  <2> QED
    BY <1>3, <2>1, <2>2, <2>3, <2>4, <2>5, <2>6, <2>7, RunStep
<1>5. CASE ~Matches(store[d], rec)
  <2>1. Stop(r) /\ store' = store
    BY <1>1, <1>5 DEF Persist
  <2> QED
    BY <1>3, <2>1, StopStep
<1> QED
  BY <1>4, <1>5

-----------------------------------------------------------------------------
(* A run begins.                                                             *)

\* The two kinds of a job fit its record.
Fits(j) == /\ j.did = Owner => j.kind = "removal"
           /\ j.kind = "canonical" => j.rec.kind = "canonical"

(* driveRemovalToCompletion enters at a point whose demands the durable      *)
(* phase meets.                                                              *)
LEMMA EnterOK ==
    ASSUME NEW j \in Job, j.rec \in Record, RecordOK(j.did, j.rec), Fits(j)
    PROVE  Enter(j.rec) \in Pc \ {"idle", "stage"} /\ JobOK(Enter(j.rec), j)
<1>1. CASE j.rec.phase = "complete"
  <2>1. Enter(j.rec) = "delete"
    BY <1>1 DEF Enter
  <2> QED
    BY <1>1, <2>1 DEF JobOK, RecordOK, Fits, Early, Confirmed, Pc
<1>2. CASE j.rec.phase = "admin-removed"
  <2>1. Enter(j.rec) = "finalize"
    BY <1>2 DEF Enter
  <2> QED
    BY <1>2, <2>1 DEF JobOK, RecordOK, Fits, Early, Confirmed, Pc
<1>3. CASE j.rec.phase = "local-cleanup"
  <2>1. Enter(j.rec) = "complete"
    BY <1>3 DEF Enter
  <2> QED
    BY <1>3, <2>1 DEF JobOK, RecordOK, Fits, Early, Confirmed, Pc
<1>4. CASE j.rec.phase \notin {"complete", "admin-removed", "local-cleanup"}
  <2>1. Enter(j.rec) = "bind"
    BY <1>4 DEF Enter
  <2> QED
    BY <2>1 DEF JobOK, Fits, Confirmed, Pc
<1> QED
  BY <1>1, <1>2, <1>3, <1>4

LEMMA BeginStep ==
    ASSUME IInv, NEW r \in Run, NEW d \in Did, NEW kind \in Kind, Begin(r, d, kind),
           d = Owner => kind = "removal",
           kind = "canonical" /\ store[d] # None => store[d].kind = "canonical"
    PROVE  IInv'
<1>1. PICK rec \in Record \cup {None} : rec = store[d]
  BY DEF IInv, TypeOK
<1> DEFINE j == [did |-> d, kind |-> kind, rec |-> rec, old |-> None, seen |-> 0]
<1>2. j \in Job /\ j.rec = rec /\ j.did = d /\ j.kind = kind
  BY DEF Job
<1>3. UNCHANGED <<store, broker, keys, space, theirs, minted, bounds>>
  BY DEF Begin
<1>4. IF rec # None THEN Goto(r, Enter(rec), j) ELSE Goto(r, "stage", j)
  BY <1>1 DEF Begin
<1> HIDE DEF j
<1>5. CASE rec = None
  <2>1. JobOK("stage", j)
    BY <1>2, <1>5 DEF JobOK, Confirmed
  <2>2. "stage" \in Pc \ {"idle"}
    BY DEF Pc
  <2> QED
    BY <1>2, <1>3, <1>4, <1>5, <2>1, <2>2, QuietMove
<1>6. CASE rec # None
  <2>1. rec \in Record /\ Known(rec) /\ RecordOK(d, rec)
    BY <1>1, <1>6, StoreFacts
  <2>2. Fits(j)
    BY <1>1, <1>2, <1>6 DEF Fits
  <2>3. Enter(rec) \in Pc \ {"idle", "stage"} /\ JobOK(Enter(rec), j)
    BY <1>2, <2>1, <2>2, EnterOK
  <2> QED
    BY <1>2, <1>3, <1>4, <1>6, <2>1, <2>3, QuietMove
<1> QED
  BY <1>5, <1>6

LEMMA RemoveMemberStep ==
    ASSUME IInv, NEW r \in Run, NEW d \in Did, RemoveMember(r, d) PROVE IInv'
  BY BeginStep DEF RemoveMember, Kind

LEMMA EnforceStep ==
    ASSUME IInv, NEW r \in Run, NEW d \in Did, Enforce(r, d) PROVE IInv'
  BY BeginStep DEF Enforce, Kind

LEMMA RecoverStep ==
    ASSUME IInv, NEW r \in Run, NEW d \in Did, Recover(r, d) PROVE IInv'
<1>1. store[d] # None /\ Begin(r, d, store[d].kind)
  BY DEF Recover
<1>2. store[d].kind \in Kind /\ (d = Owner => store[d].kind = "removal")
  BY <1>1, StoreFacts DEF Record, RecordOK
<1>3. PICK kind \in Kind : kind = store[d].kind
  BY <1>2
<1> QED
  BY <1>1, <1>2, <1>3, BeginStep

-----------------------------------------------------------------------------
(* Staging.                                                                  *)

LEMMA CandidateFacts ==
    ASSUME IInv, NEW kind \in Kind, cur >= 0, cur < MaxGen
    PROVE  /\ Candidate(kind) \in Record
           /\ Candidate(kind).sid = minted + 1 /\ Candidate(kind).kind = kind
           /\ Candidate(kind).gen \in 1 .. MaxGen
           /\ Candidate(kind).phase = "staged"
           /\ Candidate(kind).conf = FALSE /\ Candidate(kind).adm = FALSE
<1>1. cur \in Int /\ minted \in Nat /\ MaxGen \in Nat
  BY Numbers DEF IInv, TypeOK
<1>2. cur + 1 \in 1 .. MaxGen /\ cur + 1 \in Nat /\ minted + 1 \in Nat
  BY <1>1
<1>3. "staged" \in Phase
  BY DEF Phase
<1> QED
  BY <1>2, <1>3 DEF Candidate, Record

\* A candidate is worth what its fields say once its identity is minted.
LEMMA CandidateOK ==
    ASSUME IInv, NEW rec \in Record, rec.sid = minted + 1, minted' = minted + 1,
           rec.gen \in 1 .. MaxGen, rec.phase = "staged", rec.conf = FALSE, rec.adm = FALSE,
           NEW d, d = Owner => rec.kind = "removal"
    PROVE  RecordOK(d, rec)' /\ rec.sid # 0
<1>1. rec.sid <= minted' /\ rec.sid # 0
  BY DEF IInv, TypeOK
<1> QED
  BY <1>1 DEF RecordOK, Early

(* Only the runs and the number of minted identities change.                 *)
LEMMA MintFacts ==
    ASSUME IInv, UNCHANGED <<broker, keys, space, theirs, bounds>>, minted' = minted + 1
    PROVE  Typed' /\ Grows /\ RecordedIsEnforced' /\ LeftIsHandedBack'
<1> USE DEF IInv, broker, keys, space, bounds
<1>1. minted' \in Nat /\ minted <= minted' /\ bgen <= bgen'
  BY Numbers DEF TypeOK
<1>2. Typed'
  BY <1>1 DEF TypeOK, Typed
<1>3. Grows
  BY <1>1 DEF Grows
<1>4. RecordedIsEnforced' /\ LeftIsHandedBack'
  BY DEF RecordedIsEnforced, LeftIsHandedBack
<1> QED
  BY <1>2, <1>3, <1>4

LEMMA StageStep == ASSUME IInv, NEW r \in Run, Stage(r) PROVE IInv'
<1>1. /\ job[r] \in Job /\ job[r].did \in Did /\ job[r].kind \in Kind
      /\ JobOK("stage", job[r]) /\ pc[r] = "stage"
  BY RunFacts DEF Stage
<1>2. CASE cur < 0 \/ TooEarly(job[r], Candidate(job[r].kind))
  BY <1>1, <1>2, QuietStop DEF Stage
<1>3. CASE ~(cur < 0 \/ TooEarly(job[r], Candidate(job[r].kind)))
  <2>1. cur >= 0 /\ cur < MaxGen
    BY <1>3 DEF Stage, IInv, TypeOK
  <2>2. PICK rec \in Record : rec = Candidate(job[r].kind)
    BY <1>1, <2>1, CandidateFacts
  <2>3. /\ rec.sid = minted + 1 /\ rec.kind = job[r].kind /\ rec.gen \in 1 .. MaxGen
        /\ rec.phase = "staged" /\ rec.conf = FALSE /\ rec.adm = FALSE
    BY <1>1, <2>1, <2>2, CandidateFacts
  <2>4. PICK j \in Job : /\ j = With(r, rec) /\ j.rec = rec
                         /\ j.did = job[r].did /\ j.kind = job[r].kind
    BY <1>1, WithFacts
  <2>5. /\ Goto(r, "put", j) /\ minted' = minted + 1 /\ store' = store
        /\ UNCHANGED <<broker, keys, space, theirs, bounds>>
    BY <1>3, <2>2, <2>4 DEF Stage
  <2>6. Typed' /\ Grows /\ RecordedIsEnforced' /\ LeftIsHandedBack'
    BY <2>5, MintFacts
  <2>7. j.did = Owner => j.kind = "removal"
    BY <1>1, <2>4 DEF JobOK
  <2>8. RecordOK(j.did, rec)' /\ rec.sid # 0
    BY <2>3, <2>4, <2>5, <2>7, CandidateOK
  <2>9. JobOK("put", j)'
    BY <2>3, <2>4, <2>7, <2>8 DEF JobOK, Confirmed
  <2>10. PICK d \in Did : d = j.did
    BY DEF Job
  <2>11. "put" \in Pc /\ Like(rec, rec)
    BY DEF Pc, Like
  <2> QED
    BY <2>3, <2>4, <2>5, <2>6, <2>9, <2>11, NoWrite
<1> QED
  BY <1>2, <1>3

LEMMA PutStep == ASSUME IInv, NEW r \in Run, Put(r) PROVE IInv'
<1>1. PICK j \in Job : /\ j = job[r] /\ j.did \in Did /\ j.rec \in Record /\ j.rec # None
                       /\ JobOK("put", j) /\ Known(j.rec) /\ RecordOK(j.did, j.rec)
                       /\ pc[r] = "put"
  BY RunFacts DEF Put
<1>2. PICK d \in Did : d = j.did
  BY <1>1
<1>3. UNCHANGED <<broker, keys, space, theirs, minted, bounds>>
  BY DEF Put
<1>4. Typed' /\ Grows /\ RecordedIsEnforced' /\ LeftIsHandedBack'
  BY <1>3, StillFacts
<1>5. CASE store[d] = None
  <2>1. PICK rec \in Record : rec = j.rec
    BY <1>1
  <2>2. store' = [store EXCEPT ![d] = rec] /\ Goto(r, "bind", j)
    BY <1>1, <1>2, <1>5, <2>1 DEF Put, Matches
  <2>3. RecordOK(d, rec)'
    BY <1>1, <1>2, <1>4, <2>1, RecordStable DEF IInv
  <2>4. JobOK("bind", j)
    BY <1>1 DEF JobOK, Confirmed
  <2>5. JobOK("bind", j)'
    BY <1>1, <1>4, <2>4, JobStable DEF IInv
  <2>6. PICK z : z.sid = minted + 1
    BY SomeFresh
  <2>7. "bind" \in Pc
    BY DEF Pc
  <2> QED
    BY <1>1, <1>4, <2>1, <2>2, <2>3, <2>5, <2>6, <2>7, RunStep
<1>6. CASE store[d] # None
  <2>1. store' = store
    BY <1>1, <1>2, <1>6 DEF Put, Matches
  <2>2. CASE store[d].kind = j.kind /\ ~TooEarly(j, store[d])
    <3>1. PICK rec \in Record : rec = store[d] /\ Known(rec) /\ RecordOK(d, rec)
      BY <1>6, StoreFacts
    <3>2. PICK k \in Job : /\ k = With(r, rec) /\ k.rec = rec
                           /\ k.did = d /\ k.kind = j.kind
      BY <1>1, <1>2, WithFacts
    <3>3. Goto(r, Enter(rec), k)
      BY <1>1, <1>2, <1>6, <2>2, <3>1, <3>2 DEF Put, Matches
    <3>4. Fits(k)
      BY <1>1, <1>2, <2>2, <3>1, <3>2 DEF Fits, JobOK
    <3>5. Enter(rec) \in Pc \ {"idle", "stage"} /\ JobOK(Enter(rec), k)
      BY <3>1, <3>2, <3>4, EnterOK
    <3> QED
      BY <1>3, <2>1, <3>1, <3>2, <3>3, <3>5, QuietMove
  <2>3. CASE ~(store[d].kind = j.kind /\ ~TooEarly(j, store[d]))
    <3>1. Stop(r)
      BY <1>1, <1>2, <1>6, <2>3 DEF Put, Matches
    <3> QED
      BY <1>1, <1>4, <2>1, <3>1, StopStep
  <2> QED
    BY <2>2, <2>3
<1> QED
  BY <1>5, <1>6

LEMMA ReplaceStep == ASSUME IInv, NEW r \in Run, Replace(r) PROVE IInv'
<1>1. pc[r] \in {"replace", "restage"} /\ pc[r] # "idle" /\ pc[r] # "stage"
  BY DEF Replace
<1>2. PICK j \in Job : /\ j = job[r] /\ j.did \in Did /\ j.rec \in Record /\ j.rec # None
                       /\ JobOK(pc[r], j) /\ Known(j.rec) /\ RecordOK(j.did, j.rec)
  BY <1>1, RunFacts
<1>3. PICK d \in Did, rec \in Record : d = j.did /\ rec = j.rec
  BY <1>2
<1>4. UNCHANGED <<broker, keys, space, theirs, minted, bounds>>
  BY DEF Replace
<1>5. Typed' /\ Grows /\ RecordedIsEnforced' /\ LeftIsHandedBack'
  BY <1>4, StillFacts
<1>6. RecordOK(d, rec)'
  BY <1>2, <1>3, <1>5, RecordStable DEF IInv
<1>7. PICK z : z.sid = minted + 1
  BY SomeFresh
<1>8. CASE Matches(store[d], j.old)
  <2>1. store' = [store EXCEPT ![d] = rec]
    BY <1>2, <1>3, <1>8 DEF Replace
  <2>2. CASE pc[r] = "restage"
    <3>1. PICK k \in Job : /\ k = With(r, rec) /\ k.rec = rec
                           /\ k.did = d /\ k.kind = j.kind
      BY <1>2, <1>3, WithFacts
    <3>2. Goto(r, "bind", k)
      BY <1>2, <1>3, <1>8, <2>2, <3>1 DEF Replace
    <3>3. JobOK("bind", k)
      BY <1>2, <1>3, <2>2, <3>1 DEF JobOK, Confirmed
    <3>4. JobOK("bind", k)' /\ "bind" \in Pc
      BY <1>3, <1>5, <3>1, <3>3, JobStable DEF IInv, Pc
    <3> QED
      BY <1>2, <1>3, <1>5, <1>6, <1>7, <2>1, <3>1, <3>2, <3>4, RunStep
  <2>3. CASE pc[r] # "restage"
    <3>1. Goto(r, "idle", None) /\ "idle" \in Pc
      BY <1>2, <1>3, <1>8, <2>3 DEF Replace, Stop, Pc
    <3> QED
      BY <1>2, <1>3, <1>5, <1>6, <1>7, <2>1, <3>1, RunStep
  <2> QED
    BY <2>2, <2>3
<1>9. CASE ~Matches(store[d], j.old)
  <2>1. Stop(r) /\ store' = store
    BY <1>2, <1>3, <1>9 DEF Replace
  <2> QED
    BY <1>1, <1>5, <2>1, StopStep
<1> QED
  BY <1>8, <1>9

(* bindStagingMaterial leads to the commit only for a confirmed record.      *)
LEMMA AfterBindOK ==
    ASSUME NEW j \in Job, j.rec \in Record, Fits(j), RecordOK(j.did, j.rec), j.rec.sid # 0
    PROVE  AfterBind(j.rec) \in Pc \ {"idle", "stage"} /\ JobOK(AfterBind(j.rec), j)
<1>1. CASE j.rec.conf
  <2>1. AfterBind(j.rec) = "confirm"
    BY <1>1 DEF AfterBind
  <2> QED
    BY <1>1, <2>1 DEF JobOK, Fits, Confirmed, Pc
<1>2. CASE ~j.rec.conf
  <2>1. AfterBind(j.rec) = "rotate"
    BY <1>2 DEF AfterBind
  <2> QED
    BY <2>1 DEF JobOK, Fits, Confirmed, Pc
<1> QED
  BY <1>1, <1>2

LEMMA AdoptedFacts ==
    ASSUME IInv, NEW rec \in Record, NEW d, RecordOK(d, rec), rec.sid = 0,
           minted' = minted + 1
    PROVE  /\ Adopted(rec) \in Record /\ Adopted(rec).sid = minted + 1
           /\ Adopted(rec).sid # 0
           /\ Adopted(rec).conf = FALSE /\ Adopted(rec).phase = "staged"
           /\ Adopted(rec).gen = rec.gen /\ Adopted(rec).kind = rec.kind
           /\ Adopted(rec).adm = rec.adm
<1>1. rec.phase \in {"staged", "broker-confirmed"}
  BY DEF RecordOK, Early
<1>2. Adopted(rec) = [rec EXCEPT !.sid = minted + 1, !.conf = FALSE, !.phase = "staged"]
  BY <1>1 DEF Adopted
<1>3. minted + 1 \in Nat /\ minted + 1 # 0 /\ "staged" \in Phase
  BY DEF IInv, TypeOK, Phase
<1> QED
  BY <1>2, <1>3 DEF Record

LEMMA BindStep == ASSUME IInv, NEW r \in Run, Bind(r) PROVE IInv'
<1>1. PICK j \in Job : /\ j = job[r] /\ j.did \in Did /\ j.rec \in Record /\ j.rec # None
                       /\ JobOK("bind", j) /\ Known(j.rec) /\ RecordOK(j.did, j.rec)
                       /\ pc[r] = "bind"
  BY RunFacts DEF Bind
<1>2. PICK d \in Did, rec \in Record : d = j.did /\ rec = j.rec
  BY <1>1
<1>3. Fits(j)
  BY <1>1 DEF Fits, JobOK
<1>4. UNCHANGED <<broker, keys, space, theirs, bounds>>
  BY DEF Bind
<1>5. CASE rec.sid # 0
  <2>1. UNCHANGED <<store, minted>>
    BY <1>1, <1>2, <1>5 DEF Bind
  <2>2. Stop(r) \/ Goto(r, AfterBind(rec), j)
    BY <1>1, <1>2, <1>5 DEF Bind
  <2>3. AfterBind(rec) \in Pc \ {"idle", "stage"} /\ JobOK(AfterBind(rec), j)
    BY <1>1, <1>2, <1>3, <1>5, AfterBindOK
  <2> QED
    BY <1>1, <1>2, <1>4, <2>1, <2>2, <2>3, QuietMove, QuietStop
<1>6. CASE rec.sid = 0 /\ Matches(store[d], rec)
  <2>1. minted' = minted + 1
    BY <1>1, <1>2, <1>6 DEF Bind
  <2>2. PICK new \in Record :
          /\ new = Adopted(rec) /\ new.sid = minted + 1 /\ new.sid # 0
          /\ new.conf = FALSE /\ new.phase = "staged"
          /\ new.gen = rec.gen /\ new.kind = rec.kind /\ new.adm = rec.adm
    BY <1>1, <1>2, <1>6, <2>1, AdoptedFacts
  <2>3. PICK k \in Job : /\ k = With(r, new) /\ k.rec = new
                         /\ k.did = d /\ k.kind = j.kind
    BY <1>1, <1>2, WithFacts
  <2>4. store' = [store EXCEPT ![d] = new] /\ Goto(r, AfterBind(new), k)
    BY <1>1, <1>2, <1>6, <2>2, <2>3 DEF Bind
  <2>5. AfterBind(new) = "rotate" /\ "rotate" \in Pc
    BY <2>2 DEF AfterBind, Pc
  <2>6. Typed' /\ Grows /\ RecordedIsEnforced' /\ LeftIsHandedBack'
    BY <1>4, <2>1, MintFacts
  <2>7. RecordOK(d, new)'
    <3>1. new.sid <= minted'
      BY <2>1, <2>2 DEF Record
    <3>2. new.adm => d = Owner /\ ~admin'
      BY <1>1, <1>2, <2>2, <2>6 DEF RecordOK, Grows
    <3> QED
      BY <1>1, <1>2, <2>2, <3>1, <3>2 DEF RecordOK, Early
  <2>8. JobOK("rotate", k)'
    BY <1>1, <1>2, <1>3, <2>2, <2>3, <2>7 DEF JobOK, Fits, Confirmed
  <2>9. Like(new, new) /\ new # None
    BY RemovalAssumption DEF Like
  <2> QED
    BY <2>2, <2>3, <2>4, <2>5, <2>6, <2>7, <2>8, <2>9, RunStep
<1>7. CASE rec.sid = 0 /\ ~Matches(store[d], rec)
  <2>1. UNCHANGED <<store, minted>>
    BY <1>1, <1>2, <1>7 DEF Bind
  <2>2. CASE store[d] # None /\ store[d].sid # 0
    <3>1. PICK new \in Record : new = store[d] /\ Known(new) /\ RecordOK(d, new)
      BY <2>2, StoreFacts
    <3>2. PICK k \in Job : /\ k = With(r, new) /\ k.rec = new
                           /\ k.did = d /\ k.kind = j.kind
      BY <1>1, <1>2, WithFacts
    <3>3. Goto(r, AfterBind(new), k)
      BY <1>1, <1>2, <1>7, <2>2, <3>1, <3>2 DEF Bind
    <3>4. Fits(k)
      BY <1>1, <1>2, <1>3, <1>7, <3>2 DEF Fits, RecordOK
    <3>5. AfterBind(new) \in Pc \ {"idle", "stage"} /\ JobOK(AfterBind(new), k)
      BY <2>2, <3>1, <3>2, <3>4, AfterBindOK
    <3> QED
      BY <1>4, <2>1, <3>1, <3>2, <3>3, <3>5, QuietMove
  <2>3. CASE ~(store[d] # None /\ store[d].sid # 0)
    <3>1. Stop(r)
      BY <1>1, <1>2, <1>7, <2>3 DEF Bind
    <3> QED
      BY <1>1, <1>4, <2>1, <3>1, QuietStop
  <2> QED
    BY <2>2, <2>3
<1> QED
  BY <1>5, <1>6, <1>7

-----------------------------------------------------------------------------
(* The broker.                                                               *)

(* handleSpaceRotate installs the next generation only, and a receipt is     *)
(* given for the material that is installed.                                 *)
LEMMA RotateFacts ==
    ASSUME IInv, NEW rec \in Record, rec.gen \in 1 .. MaxGen,
           HandleRotate(rec.gen, rec.mat) \/ UNCHANGED broker,
           UNCHANGED <<keys, space, theirs, minted, bounds>>
    PROVE  /\ Typed' /\ Grows /\ RecordedIsEnforced' /\ LeftIsHandedBack'
           /\ HandleRotate(rec.gen, rec.mat) /\ Answer(rec.gen, rec.mat) = "receipt"
                 => Enforced(rec)'
           /\ Answer(rec.gen, rec.mat) = "GENERATION_TAKEN" => rec.gen <= bgen'
<1> USE DEF IInv, broker, keys, space, bounds
<1>1. /\ bgen \in Nat /\ bgen <= MaxGen /\ MaxGen \in Nat /\ rec.gen \in Nat /\ rec.gen \in Gen
      /\ rec.mat \in Nat
  BY Numbers DEF TypeOK, Record
<1>2. /\ bgen' \in Gen /\ installed' \in [Gen -> Nat \cup {None}] /\ admin' = admin
      /\ bgen <= bgen' /\ \A g \in 0 .. bgen : installed'[g] = installed[g]
  <2>1. CASE HandleRotate(rec.gen, rec.mat) /\ Installs(rec.gen)
    <3>1. /\ installed' = [installed EXCEPT ![rec.gen] = rec.mat] /\ bgen' = rec.gen
          /\ admin' = admin /\ rec.gen = bgen + 1
      BY <2>1 DEF HandleRotate, Installs
    <3>2. installed' \in [Gen -> Nat \cup {None}]
      BY <1>1, <3>1 DEF TypeOK
    <3>3. \A g \in 0 .. bgen : g \in Gen /\ g # rec.gen
      BY <1>1, <3>1 DEF Gen
    <3> QED
      BY <1>1, <3>1, <3>2, <3>3 DEF TypeOK
  <2>2. CASE ~(HandleRotate(rec.gen, rec.mat) /\ Installs(rec.gen))
    BY <1>1, <2>2 DEF HandleRotate, TypeOK
  <2> QED
    BY <2>1, <2>2
<1>3. Typed'
  BY <1>2 DEF TypeOK, Typed
<1>4. minted <= minted'
  BY DEF TypeOK
<1>5. Grows
  BY <1>2, <1>4 DEF Grows
<1>6. RecordedIsEnforced'
  <2> SUFFICES ASSUME NEW e \in recorded PROVE e.gen <= bgen' /\ installed'[e.gen] = e.mat
    BY DEF RecordedIsEnforced
  <2>1. e.gen \in 0 .. bgen /\ installed[e.gen] = e.mat
    BY <1>1 DEF RecordedIsEnforced, TypeOK
  <2> QED
    BY <1>1, <1>2, <2>1, Numbers
<1>7. LeftIsHandedBack'
  BY <1>2 DEF LeftIsHandedBack
<1>8. ASSUME HandleRotate(rec.gen, rec.mat), Answer(rec.gen, rec.mat) = "receipt"
      PROVE  Enforced(rec)'
  <2>1. Installs(rec.gen) \/ Repeats(rec.gen, rec.mat)
    BY <1>8 DEF Answer
  <2>2. CASE Installs(rec.gen)
    BY <1>1, <1>8, <2>2 DEF HandleRotate, Enforced, TypeOK
  <2>3. CASE ~Installs(rec.gen) /\ Repeats(rec.gen, rec.mat)
    BY <1>1, <1>8, <2>3 DEF HandleRotate, Enforced, Repeats, TypeOK
  <2> QED
    BY <2>1, <2>2, <2>3
<1>9. ASSUME Answer(rec.gen, rec.mat) = "GENERATION_TAKEN" PROVE rec.gen <= bgen'
  <2>1. /\ ~Installs(rec.gen) /\ admin /\ ~(rec.gen > bgen + 1)
    BY <1>9 DEF Answer
  <2>2. rec.gen <= bgen
    BY <1>1, <2>1 DEF Installs
  <2> QED
    BY <1>1, <1>2, <2>2, Numbers
<1> QED
  BY <1>3, <1>5, <1>6, <1>7, <1>8, <1>9

LEMMA RotateAnsweredStep == ASSUME IInv, NEW r \in Run, RotateAnswered(r) PROVE IInv'
<1>1. PICK j \in Job : /\ j = job[r] /\ j.did \in Did /\ j.rec \in Record /\ j.rec # None
                       /\ JobOK("rotate", j) /\ Known(j.rec) /\ RecordOK(j.did, j.rec)
                       /\ pc[r] = "rotate"
  BY RunFacts DEF RotateAnswered
<1>2. PICK rec \in Record : rec = j.rec /\ rec.gen \in 1 .. MaxGen
  BY <1>1 DEF RecordOK
<1> DEFINE a == Answer(rec.gen, rec.mat)
<1>3. /\ HandleRotate(rec.gen, rec.mat)
      /\ UNCHANGED <<store, keys, space, theirs, minted, bounds>>
  BY <1>1, <1>2 DEF RotateAnswered
<1>4. /\ Typed' /\ Grows /\ RecordedIsEnforced' /\ LeftIsHandedBack'
      /\ a = "receipt" => Enforced(rec)'
      /\ a = "GENERATION_TAKEN" => rec.gen <= bgen'
  BY <1>2, <1>3, RotateFacts
<1>5. JobOK("rotate", j)'
  BY <1>1, <1>4, JobStable DEF IInv
<1>6. CASE a = "receipt"
  <2>1. Goto(r, "mark", j) /\ "mark" \in Pc \ {"idle"}
    BY <1>1, <1>2, <1>6 DEF RotateAnswered, Pc
  <2>2. JobOK("mark", j)'
    BY <1>2, <1>4, <1>5, <1>6 DEF JobOK, Confirmed
  <2> QED
    BY <1>1, <1>3, <1>4, <2>1, <2>2, MoveStep
<1>7. CASE a = "GENERATION_GAP"
  <2>1. PICK k \in Job : k = [j EXCEPT !.seen = bgen]
    BY Numbers DEF Job, IInv, TypeOK
  <2>2. k.rec = j.rec /\ k.did = j.did /\ k.kind = j.kind
    BY <2>1 DEF Job
  <2>3. Goto(r, "gap", k) /\ "gap" \in Pc \ {"idle"}
    BY <1>1, <1>2, <1>7, <2>1 DEF RotateAnswered, Pc
  <2>4. JobOK("gap", k)'
    BY <1>5, <2>2 DEF JobOK, Confirmed
  <2> QED
    BY <1>1, <1>3, <1>4, <2>2, <2>3, <2>4, MoveStep
<1>8. CASE a = "GENERATION_TAKEN"
  <2>1. Goto(r, "taken", j) /\ "taken" \in Pc \ {"idle"}
    BY <1>1, <1>2, <1>8 DEF RotateAnswered, Pc
  <2>2. JobOK("taken", j)'
    BY <1>2, <1>4, <1>5, <1>8 DEF JobOK, Confirmed
  <2> QED
    BY <1>1, <1>3, <1>4, <2>1, <2>2, MoveStep
<1>9. CASE a \notin {"receipt", "GENERATION_GAP", "GENERATION_TAKEN"}
  <2>1. Stop(r)
    BY <1>1, <1>2, <1>9 DEF RotateAnswered
  <2> QED
    BY <1>1, <1>3, <1>4, <2>1, StopStep
<1> QED
  BY <1>6, <1>7, <1>8, <1>9

LEMMA RotateLostStep == ASSUME IInv, NEW r \in Run, RotateLost(r) PROVE IInv'
<1>1. PICK rec \in Record : rec = job[r].rec /\ rec.gen \in 1 .. MaxGen /\ pc[r] = "rotate"
  BY RunFacts DEF RotateLost, RecordOK
<1>2. /\ HandleRotate(rec.gen, rec.mat) \/ UNCHANGED broker
      /\ UNCHANGED <<keys, space, theirs, minted, bounds>>
      /\ Stop(r) /\ store' = store
  BY <1>1 DEF RotateLost
<1>3. Typed' /\ Grows /\ RecordedIsEnforced' /\ LeftIsHandedBack'
  BY <1>1, <1>2, RotateFacts
<1> QED
  BY <1>1, <1>2, <1>3, StopStep

(* markBrokerConfirmed: the receipt covers the stored record, because it has *)
(* the generation and the material that were sent.                           *)
LEMMA MarkStep == ASSUME IInv, NEW r \in Run, Mark(r) PROVE IInv'
<1>1. PICK j \in Job : /\ j = job[r] /\ j.did \in Did /\ j.rec \in Record /\ j.rec # None
                       /\ JobOK("mark", j) /\ Known(j.rec) /\ RecordOK(j.did, j.rec)
                       /\ pc[r] = "mark"
  BY RunFacts DEF Mark
<1>2. PICK d \in Did, rec \in Record : d = j.did /\ rec = j.rec
  BY <1>1
<1>3. UNCHANGED <<broker, keys, space, theirs, minted, bounds>>
  BY DEF Mark
<1>4. Typed' /\ Grows /\ RecordedIsEnforced' /\ LeftIsHandedBack'
  BY <1>3, StillFacts
<1>5. CASE Bound(store[d], rec)
  <2>1. store[d] # None
    BY <1>5 DEF Bound
  <2>2. PICK old \in Record : old = store[d] /\ Known(old) /\ RecordOK(d, old)
    BY <2>1, StoreFacts
  <2>3. PICK new \in Record : new = [old EXCEPT !.conf = TRUE]
    BY DEF Record
  <2>4. /\ Like(new, old) /\ new.conf = TRUE /\ new.phase = old.phase /\ new.adm = old.adm
    BY <2>3 DEF Like, Record
  <2>5. Enforced(new) /\ Known(new)
    BY <1>1, <1>2, <1>5, <2>2, <2>4 DEF Enforced, Bound, Like, Known, JobOK
  <2>6. RecordOK(d, new)
    BY <2>2, <2>4, <2>5 DEF RecordOK, Like, InLog
  <2>7. PICK mine \in Record : mine = [rec EXCEPT !.conf = TRUE]
    BY DEF Record
  <2>8. /\ Like(mine, rec) /\ mine.conf = TRUE /\ mine.phase = rec.phase /\ mine.adm = rec.adm
    BY <2>7 DEF Like, Record
  <2>9. Enforced(mine) /\ Known(mine)
    BY <1>1, <1>2, <2>8 DEF Enforced, Like, Known, JobOK
  <2>10. RecordOK(d, mine)
    BY <1>1, <1>2, <2>8, <2>9 DEF RecordOK, Like, InLog
  <2>11. PICK k \in Job : k = With(r, mine) /\ k.rec = mine /\ k.did = d /\ k.kind = j.kind
    BY <1>1, <1>2, WithFacts
  <2>12. store' = [store EXCEPT ![d] = new] /\ Goto(r, "confirm", k)
    BY <1>1, <1>2, <1>5, <2>2, <2>3, <2>7, <2>11 DEF Mark, IInv, TypeOK
  <2>13. JobOK("confirm", k)
    BY <1>1, <1>2, <2>8, <2>10, <2>11 DEF JobOK, Like, Confirmed
  <2>14. JobOK("confirm", k)' /\ RecordOK(d, new)' /\ "confirm" \in Pc
    BY <1>4, <2>6, <2>11, <2>13, JobStable, RecordStable DEF IInv, Pc
  <2>15. PICK z : z.sid = minted + 1
    BY SomeFresh
  <2> QED
    BY <1>4, <2>5, <2>9, <2>11, <2>12, <2>14, <2>15, RunStep
<1>6. CASE ~Bound(store[d], rec)
  <2>1. Stop(r) /\ store' = store
    BY <1>1, <1>2, <1>6 DEF Mark
  <2> QED
    BY <1>1, <1>4, <2>1, StopStep
<1> QED
  BY <1>5, <1>6

(* A run that stages another candidate in place of its record.               *)
LEMMA RestageStep ==
    ASSUME IInv, NEW r \in Run, pc[r] \notin {"idle", "stage"},
           NEW p \in {"restage", "replace"}, NEW kind \in Kind,
           cur >= 0, cur < MaxGen, minted' = minted + 1,
           Goto(r, p, [job[r] EXCEPT !.rec = Candidate(kind), !.old = job[r].rec]),
           job[r].kind = "canonical" => kind = "canonical",
           job[r].did = Owner => kind = "removal",
           store' = store, UNCHANGED <<broker, keys, space, theirs, bounds>>
    PROVE  IInv'
<1>1. /\ job[r] \in Job /\ job[r].did \in Did /\ job[r].rec \in Record
      /\ JobOK(pc[r], job[r])
  BY RunFacts
<1>2. PICK rec \in Record :
        /\ rec = Candidate(kind) /\ rec.sid = minted + 1 /\ rec.kind = kind
        /\ rec.gen \in 1 .. MaxGen /\ rec.phase = "staged"
        /\ rec.conf = FALSE /\ rec.adm = FALSE
  BY CandidateFacts
<1>3. PICK j \in Job : j = [job[r] EXCEPT !.rec = rec, !.old = job[r].rec]
  BY <1>1 DEF Job
<1>4. j.rec = rec /\ j.did = job[r].did /\ j.kind = job[r].kind
  BY <1>1, <1>3 DEF Job
<1>5. Typed' /\ Grows /\ RecordedIsEnforced' /\ LeftIsHandedBack'
  BY MintFacts
<1>6. RecordOK(j.did, rec)' /\ rec.sid # 0
  BY <1>2, <1>4, CandidateOK
<1>7. JobOK(p, j)'
  BY <1>1, <1>2, <1>4, <1>6 DEF JobOK, Confirmed
<1>8. PICK d \in Did : d = j.did
  BY DEF Job
<1>9. p \in Pc /\ p # "idle" /\ Like(rec, rec)
  BY DEF Pc, Like
<1>10. Goto(r, p, j)
  BY <1>2, <1>3
<1> QED
  BY <1>2, <1>4, <1>5, <1>7, <1>9, <1>10, NoWrite

LEMMA GapStep == ASSUME IInv, NEW r \in Run, Gap(r) PROVE IInv'
<1>1. /\ job[r] \in Job /\ job[r].rec \in Record /\ JobOK("gap", job[r])
      /\ RecordOK(job[r].did, job[r].rec) /\ pc[r] = "gap"
  BY RunFacts DEF Gap
<1>2. store' = store /\ UNCHANGED <<broker, keys, space, theirs, bounds>>
  BY DEF Gap
<1>3. CASE cur = job[r].seen
  <2>1. cur >= 0 /\ cur < MaxGen
    BY <1>1, <1>3, Numbers DEF Gap, Job, IInv, TypeOK
  <2>2. PICK kind \in Kind : kind = job[r].rec.kind
    BY <1>1 DEF Record
  <2>3. /\ Goto(r, "restage", [job[r] EXCEPT !.rec = Candidate(kind), !.old = job[r].rec])
        /\ minted' = minted + 1
    BY <1>3, <2>2 DEF Gap
  <2>4. /\ job[r].kind = "canonical" => kind = "canonical"
        /\ job[r].did = Owner => kind = "removal"
    BY <1>1, <2>2 DEF JobOK, RecordOK
  <2> QED
    BY <1>1, <1>2, <2>1, <2>3, <2>4, RestageStep
<1>4. CASE cur # job[r].seen
  BY <1>1, <1>2, <1>4, QuietStop DEF Gap
<1> QED
  BY <1>3, <1>4

(* handleGenerationTaken: a canonical record is deleted only when the        *)
(* generation it asked for is installed.                                     *)
LEMMA TakenStep == ASSUME IInv, NEW r \in Run, Taken(r) PROVE IInv'
<1>1. PICK j \in Job : /\ j = job[r] /\ j.did \in Did /\ j.rec \in Record /\ j.rec # None
                       /\ JobOK("taken", j) /\ Known(j.rec) /\ RecordOK(j.did, j.rec)
                       /\ pc[r] = "taken"
  BY RunFacts DEF Taken
<1>2. store' = store /\ UNCHANGED <<broker, keys, space, theirs, bounds>>
  BY DEF Taken
<1>3. j.rec.kind \in Kind /\ j.rec.gen \in 1 .. MaxGen
  BY <1>1 DEF Record, RecordOK
<1>4. CASE cur >= j.rec.gen /\ j.rec.kind = "canonical"
  <2>1. Goto(r, "delete", j) /\ UNCHANGED minted
    BY <1>1, <1>4 DEF Taken
  <2>2. JobOK("delete", j) /\ "delete" \in Pc
    BY <1>1, <1>4 DEF JobOK, Confirmed, Pc
  <2> QED
    BY <1>1, <1>2, <2>1, <2>2, QuietMove
<1>5. CASE cur >= j.rec.gen /\ j.rec.kind = "removal"
  <2>1. cur >= 0 /\ cur < MaxGen
    BY <1>3, <1>5, Numbers DEF Taken, IInv, TypeOK
  <2>2. /\ Goto(r, "replace", [job[r] EXCEPT !.rec = Candidate("removal"), !.old = job[r].rec])
        /\ minted' = minted + 1
    BY <1>1, <1>5 DEF Taken
  <2>3. job[r].kind # "canonical"
    BY <1>1, <1>5 DEF JobOK
  <2>4. "removal" \in Kind
    BY DEF Kind
  <2> QED
    BY <1>1, <1>2, <2>1, <2>2, <2>3, <2>4, RestageStep
<1>6. CASE ~(cur >= j.rec.gen)
  <2>1. Stop(r) /\ UNCHANGED minted
    BY <1>1, <1>6 DEF Taken
  <2> QED
    BY <1>1, <1>2, <2>1, QuietStop
<1> QED
  BY <1>3, <1>4, <1>5, <1>6 DEF Kind

-----------------------------------------------------------------------------
(* The commit.                                                               *)

\* A change of the phase that persistPhase writes.
LEMMA PhaseFacts ==
    ASSUME NEW rec \in Record, NEW ph \in Phase
    PROVE  LET new == [rec EXCEPT !.phase = ph]
           IN  new \in Record /\ Like(new, rec) /\ new.phase = ph
               /\ (new.conf <=> rec.conf) /\ (new.adm <=> rec.adm)
  BY DEF Record, Like

LEMMA ConfirmStep == ASSUME IInv, NEW r \in Run, Confirm(r) PROVE IInv'
<1>1. PICK j \in Job : /\ j = job[r] /\ j.did \in Did /\ j.rec \in Record /\ j.rec # None
                       /\ JobOK("confirm", j) /\ Known(j.rec) /\ RecordOK(j.did, j.rec)
                       /\ pc[r] = "confirm"
  BY RunFacts DEF Confirm
<1>2. PICK rec \in Record : rec = j.rec
  BY <1>1
<1>3. CASE rec.phase \in {"staged", "broker-confirmed"}
  <2>1. "broker-confirmed" \in Phase
    BY DEF Phase
  <2>2. PICK new \in Record : /\ new = [rec EXCEPT !.phase = "broker-confirmed"]
                              /\ Like(new, rec) /\ new.phase = "broker-confirmed"
                              /\ (new.conf <=> rec.conf) /\ (new.adm <=> rec.adm)
    BY <2>1, PhaseFacts
  <2>3. Persist(r, new, "assert")
    BY <1>1, <1>2, <1>3, <2>2 DEF Confirm
  <2>4. RecordOK(j.did, new)
    BY <1>1, <1>2, <2>2 DEF RecordOK, Like, Early, Enforced, InLog
  <2>5. PICK k \in Job : k = With(r, new) /\ k.rec = new /\ k.did = j.did /\ k.kind = j.kind
    BY <1>1, WithFacts
  <2>6. JobOK("assert", k)
    <3>1. RecordOK(k.did, k.rec)
      BY <2>4, <2>5
    <3>2. k.rec.conf
      BY <1>1, <1>2, <2>2, <2>5 DEF JobOK, Confirmed
    <3>3. j.rec.sid # 0 /\ (j.kind = "canonical" => j.rec.kind = "canonical")
      BY <1>1 DEF JobOK, Confirmed
    <3>4. k.rec.sid # 0 /\ (k.kind = "canonical" => k.rec.kind = "canonical")
      BY <1>2, <2>2, <2>5, <3>3 DEF Like
    <3>5. k.did = Owner => k.kind = "removal"
      BY <1>1, <2>5 DEF JobOK
    <3> QED
      BY <3>1, <3>2, <3>4, <3>5 DEF JobOK
  <2>7. "assert" \in Pc
    BY DEF Pc
  <2> QED
    BY <1>1, <1>2, <2>2, <2>3, <2>4, <2>5, <2>6, <2>7, PersistStep
<1>4. CASE rec.phase \notin {"staged", "broker-confirmed"}
  <2>1. UNCHANGED <<store, broker, keys, space, theirs, minted, bounds>>
    BY <1>1, <1>2, <1>4 DEF Confirm
  <2>2. rec.phase \notin Early
    BY <1>4 DEF Early
  <2>3. CASE rec.phase = "committed" /\ j.did = Owner
    <3>1. Goto(r, "adminSend", j) /\ "adminSend" \in Pc
      BY <1>1, <1>2, <2>3 DEF Confirm, Pc
    <3>2. JobOK("adminSend", j)
      BY <1>1, <1>2, <2>3 DEF JobOK, Confirmed
    <3> QED
      BY <1>1, <2>1, <3>1, <3>2, QuietMove
  <2>4. CASE rec.phase = "admin-removed"
    <3>1. Goto(r, "finalize", j) /\ "finalize" \in Pc
      BY <1>1, <1>2, <2>4 DEF Confirm, Pc
    <3>2. JobOK("finalize", j)
      BY <1>1, <1>2, <2>4 DEF JobOK, Confirmed
    <3> QED
      BY <1>1, <2>1, <3>1, <3>2, QuietMove
  <2>5. CASE rec.phase = "local-cleanup"
    <3>1. Goto(r, "complete", j) /\ "complete" \in Pc
      BY <1>1, <1>2, <2>5 DEF Confirm, Pc
    <3>2. JobOK("complete", j)
      BY <1>1, <1>2, <2>2, <2>5 DEF JobOK, Confirmed
    <3> QED
      BY <1>1, <2>1, <3>1, <3>2, QuietMove
  <2>6. CASE /\ ~(rec.phase = "committed" /\ j.did = Owner)
             /\ rec.phase \notin {"admin-removed", "local-cleanup"}
    <3>1. Goto(r, "delete", j) /\ "delete" \in Pc
      BY <1>1, <1>2, <1>4, <2>6 DEF Confirm, Pc
    <3>2. JobOK("delete", j)
      BY <1>1, <1>2, <2>2 DEF JobOK, Confirmed
    <3> QED
      BY <1>1, <2>1, <3>1, <3>2, QuietMove
  <2> QED
    BY <2>3, <2>4, <2>5, <2>6
<1> QED
  BY <1>3, <1>4

LEMMA AssertMaterialStep == ASSUME IInv, NEW r \in Run, AssertMaterial(r) PROVE IInv'
<1>1. PICK j \in Job : /\ j = job[r] /\ j.did \in Did /\ j.rec \in Record /\ j.rec # None
                       /\ JobOK("assert", j) /\ Known(j.rec) /\ pc[r] = "assert"
  BY RunFacts DEF AssertMaterial
<1>2. JobOK("commit", j) /\ "commit" \in Pc
  BY <1>1 DEF JobOK, Confirmed, Pc
<1>3. /\ UNCHANGED <<store, broker, keys, space, theirs, minted, bounds>>
      /\ Goto(r, "commit", j) \/ Stop(r)
  BY <1>1 DEF AssertMaterial
<1> QED
  BY <1>1, <1>2, <1>3, QuietMove, QuietStop

LEMMA CommitStep == ASSUME IInv, NEW r \in Run, Commit(r) PROVE IInv'
<1>1. PICK j \in Job : /\ j = job[r] /\ j.did \in Did /\ j.rec \in Record /\ j.rec # None
                       /\ JobOK("commit", j) /\ Known(j.rec) /\ pc[r] = "commit"
  BY RunFacts DEF Commit
<1>2. PICK p : p = Activation(j.rec) /\ p \in {"idle", "saveKey", "saveCap", "effects"}
  BY DEF Activation
<1>3. /\ UNCHANGED <<store, broker, keys, space, theirs, minted, bounds>>
      /\ IF p = "idle" THEN Stop(r) ELSE Goto(r, p, j)
  BY <1>1, <1>2 DEF Commit
<1>4. p # "idle" => JobOK(p, j) /\ p \in Pc
  BY <1>1, <1>2 DEF JobOK, Confirmed, Pc
<1>5. p # "stage"
  BY <1>2
<1> QED
  BY <1>1, <1>3, <1>4, <1>5, QuietMove, QuietStop

(* The key store is written; nothing of the broker or the log changes.       *)
LEMMA KeysFacts ==
    ASSUME IInv, UNCHANGED <<broker, space, theirs, minted, bounds>>,
           key' \in [Gen -> Nat \cup {None}], cap' \in [Gen -> Nat \cup {None}],
           cur' \in -1 .. MaxGen
    PROVE  Typed' /\ Grows /\ RecordedIsEnforced' /\ LeftIsHandedBack'
<1> USE DEF IInv, broker, space, bounds
<1>1. minted <= minted' /\ bgen <= bgen'
  BY Numbers DEF TypeOK
<1>2. Typed'
  BY DEF TypeOK, Typed
<1>3. Grows
  BY <1>1 DEF Grows
<1>4. RecordedIsEnforced' /\ LeftIsHandedBack'
  BY DEF RecordedIsEnforced, LeftIsHandedBack
<1> QED
  BY <1>2, <1>3, <1>4

LEMMA SaveKeyStep == ASSUME IInv, NEW r \in Run, SaveKey(r) PROVE IInv'
<1>1. PICK j \in Job : /\ j = job[r] /\ j.rec \in Record /\ JobOK("saveKey", j)
                       /\ Known(j.rec) /\ RecordOK(j.did, j.rec)
  BY RunFacts DEF SaveKey
<1>2. /\ Goto(r, "saveCap", j) /\ store' = store
      /\ UNCHANGED <<broker, space, theirs, minted, bounds>>
  BY <1>1 DEF SaveKey
<1>3. /\ key' \in [Gen -> Nat \cup {None}] /\ cap' \in [Gen -> Nat \cup {None}]
      /\ cur' \in -1 .. MaxGen
  <2>1. j.rec.gen \in 1 .. MaxGen /\ j.rec.mat \in Nat
    BY <1>1 DEF RecordOK, Record
  <2>2. key' = [key EXCEPT ![j.rec.gen] = j.rec.mat] /\ cap' = cap
        /\ cur' \in {cur, j.rec.gen}
    BY <1>1 DEF SaveKey
  <2> QED
    BY <2>1, <2>2, Numbers DEF IInv, TypeOK
<1>4. Typed' /\ Grows /\ RecordedIsEnforced' /\ LeftIsHandedBack'
  BY <1>2, <1>3, KeysFacts
<1>5. JobOK("saveCap", j)
  BY <1>1 DEF JobOK, Confirmed
<1>6. JobOK("saveCap", j)' /\ "saveCap" \in Pc \ {"idle"}
  BY <1>1, <1>4, <1>5, JobStable DEF IInv, Pc
<1> QED
  BY <1>1, <1>2, <1>4, <1>6, MoveStep

LEMMA SaveCapStep == ASSUME IInv, NEW r \in Run, SaveCap(r) PROVE IInv'
<1>1. PICK j \in Job : /\ j = job[r] /\ j.rec \in Record /\ JobOK("saveCap", j)
                       /\ Known(j.rec) /\ RecordOK(j.did, j.rec)
  BY RunFacts DEF SaveCap
<1>2. /\ Goto(r, "effects", j) /\ store' = store
      /\ UNCHANGED <<broker, space, theirs, minted, bounds>>
  BY <1>1 DEF SaveCap
<1>3. /\ key' \in [Gen -> Nat \cup {None}] /\ cap' \in [Gen -> Nat \cup {None}]
      /\ cur' \in -1 .. MaxGen
  <2>1. j.rec.gen \in 1 .. MaxGen /\ j.rec.mat \in Nat
    BY <1>1 DEF RecordOK, Record
  <2>2. cap' = [cap EXCEPT ![j.rec.gen] = j.rec.mat] /\ UNCHANGED <<key, cur>>
    BY <1>1 DEF SaveCap
  <2> QED
    BY <2>1, <2>2, Numbers DEF IInv, TypeOK
<1>4. Typed' /\ Grows /\ RecordedIsEnforced' /\ LeftIsHandedBack'
  BY <1>2, <1>3, KeysFacts
<1>5. JobOK("effects", j)
  BY <1>1 DEF JobOK, Confirmed
<1>6. JobOK("effects", j)' /\ "effects" \in Pc \ {"idle"}
  BY <1>1, <1>4, <1>5, JobStable DEF IInv, Pc
<1> QED
  BY <1>1, <1>2, <1>4, <1>6, MoveStep

(* commitRemoval: the event that is recorded names an installed material.    *)
LEMMA EffectsFacts ==
    ASSUME IInv, NEW r \in Run, pc[r] = "effects",
           RecordRemoval(r) \/ UNCHANGED <<recorded, member>>,
           sent' \subseteq Nat \X Nat, faults' \in Nat,
           UNCHANGED <<broker, keys, left, declared, theirs, minted, foreign, reinvites>>
    PROVE  Typed' /\ Grows /\ RecordedIsEnforced' /\ LeftIsHandedBack'
<1> USE DEF IInv, broker, keys
<1>1. PICK j \in Job : /\ j = job[r] /\ j.did \in Did /\ j.rec \in Record
                       /\ RecordOK(j.did, j.rec) /\ JobOK("effects", j)
  BY RunFacts
<1>2. Enforced(j.rec)
  BY <1>1 DEF JobOK, Confirmed, RecordOK
<1> DEFINE e == [did |-> j.did, gen |-> j.rec.gen, mat |-> j.rec.mat]
<1>3. e \in [did : Did, gen : Nat, mat : Nat] /\ e.gen <= bgen /\ installed[e.gen] = e.mat
  BY <1>1, <1>2 DEF Enforced, Record
<1>4. /\ recorded' \in {recorded, recorded \cup {e}} /\ member' \subseteq member
  BY <1>1 DEF RecordRemoval, Event
<1> HIDE DEF e
<1>5. minted <= minted' /\ bgen <= bgen'
  BY Numbers DEF TypeOK
<1>6. Typed'
  BY <1>3, <1>4 DEF TypeOK, Typed
<1>7. Grows
  BY <1>4, <1>5 DEF Grows
<1>8. RecordedIsEnforced'
  BY <1>3, <1>4 DEF RecordedIsEnforced
<1>9. LeftIsHandedBack'
  BY <1>4 DEF LeftIsHandedBack
<1> QED
  BY <1>6, <1>7, <1>8, <1>9

LEMMA EffectsDoneStep == ASSUME IInv, NEW r \in Run, EffectsDone(r) PROVE IInv'
<1>1. PICK j \in Job : /\ j = job[r] /\ j.did \in Did /\ j.rec \in Record
                       /\ RecordOK(j.did, j.rec) /\ JobOK("effects", j) /\ Known(j.rec)
                       /\ pc[r] = "effects"
  BY RunFacts DEF EffectsDone
<1>2. /\ store' = store /\ sent' \subseteq Nat \X Nat /\ faults' \in Nat
      /\ UNCHANGED <<broker, keys, left, declared, theirs, minted, foreign, reinvites>>
      /\ RecordRemoval(r) \/ UNCHANGED <<recorded, member>>
  <2>1. <<j.rec.gen, j.rec.mat>> \in Nat \X Nat
    BY <1>1 DEF Record
  <2>2. sent' \in {sent, sent \cup {<<j.rec.gen, j.rec.mat>>}}
    BY <1>1 DEF EffectsDone
  <2>3. /\ store' = store
        /\ UNCHANGED <<broker, keys, left, declared, theirs, minted, bounds>>
        /\ RecordRemoval(r) \/ UNCHANGED <<recorded, member>>
    BY DEF EffectsDone
  <2> QED
    BY <1>1, <2>1, <2>2, <2>3 DEF IInv, TypeOK, bounds, Record
<1>3. Typed' /\ Grows /\ RecordedIsEnforced' /\ LeftIsHandedBack'
  BY <1>1, <1>2, EffectsFacts
<1>4. CASE cur < 0 /\ job[r].kind = "removal"
  <2>1. Stop(r)
    BY <1>4 DEF EffectsDone
  <2> QED
    BY <1>1, <1>2, <1>3, <2>1, StopStep
<1>5. CASE ~(cur < 0 /\ job[r].kind = "removal")
  <2>1. RecordRemoval(r) /\ Goto(r, "committed", j) /\ "committed" \in Pc \ {"idle"}
    BY <1>1, <1>5 DEF EffectsDone, Pc
  <2>2. j.kind = "removal" => InLog(j.did, j.rec)'
    BY <1>1, <2>1 DEF RecordRemoval, Event, InLog
  <2>3. JobOK("effects", j)'
    BY <1>1, <1>3, JobStable DEF IInv
  <2>4. JobOK("committed", j)'
    BY <2>2, <2>3 DEF JobOK, Confirmed
  <2> QED
    BY <1>1, <1>2, <1>3, <2>1, <2>4, MoveStep
<1> QED
  BY <1>4, <1>5

LEMMA EffectsFailStep == ASSUME IInv, NEW r \in Run, EffectsFail(r) PROVE IInv'
<1>1. /\ pc[r] = "effects" /\ Stop(r) /\ store' = store
      /\ RecordRemoval(r) \/ UNCHANGED <<recorded, member>>
      /\ faults' = faults + 1
      /\ UNCHANGED <<broker, keys, left, declared, sent, theirs, minted, foreign, reinvites>>
  BY DEF EffectsFail
<1>2. sent' \subseteq Nat \X Nat /\ faults' \in Nat
  BY <1>1 DEF IInv, TypeOK
<1>3. Typed' /\ Grows /\ RecordedIsEnforced' /\ LeftIsHandedBack'
  BY <1>1, <1>2, EffectsFacts
<1> QED
  BY <1>1, <1>3, StopStep

\* A confirmed record goes on to a later point of the commit.
LEMMA ConfirmedJob ==
    ASSUME NEW k \in Job, RecordOK(k.did, k.rec), Fits(k), k.rec.sid # 0, k.rec.conf,
           NEW p \in {"adminSend", "adminMark", "adminPhase", "finalize", "cleanup",
                      "complete", "delete"},
           p \in {"adminSend", "adminMark", "adminPhase"} =>
              k.did = Owner /\ k.rec.phase = "committed",
           p = "adminMark" => ~admin,
           p = "adminPhase" => k.rec.adm,
           p \in {"finalize", "cleanup"} => k.rec.phase = "admin-removed",
           p \in {"complete", "delete"} => k.rec.phase \notin Early
    PROVE  JobOK(p, k) /\ p \in Pc \ {"idle", "stage"}
<1>1. p \notin {"stage", "mark", "taken", "committed"}
  OBVIOUS
<1>2. p \in Pc \ {"idle", "stage"}
  BY DEF Pc
<1> QED
  BY <1>1, <1>2 DEF JobOK, Fits

\* A run that persists a later phase of its confirmed record.
LEMMA ForwardStep ==
    ASSUME IInv, NEW r \in Run, pc[r] \in Confirmed, NEW ph \in Phase \ Early,
           NEW p \in {"adminSend", "finalize", "complete", "delete"},
           Persist(r, [job[r].rec EXCEPT !.phase = ph], p),
           job[r].rec.kind = "removal" => InLog(job[r].did, job[r].rec),
           ph = "admin-removed" <=> p = "finalize",
           p = "finalize" => job[r].rec.adm,
           p = "adminSend" => ph = "committed" /\ job[r].did = Owner
    PROVE  IInv'
<1>1. pc[r] \notin {"idle", "stage", "bind"}
  BY DEF Confirmed
<1>2. PICK j \in Job : /\ j = job[r] /\ j.rec \in Record /\ JobOK(pc[r], j)
                       /\ RecordOK(j.did, j.rec) /\ j.did \in Did
  BY <1>1, RunFacts
<1>3. PICK rec \in Record : rec = j.rec
  BY <1>2
<1>4. Fits(j) /\ rec.sid # 0 /\ rec.conf
  BY <1>1, <1>2, <1>3 DEF JobOK, Fits
<1>5. PICK new \in Record : /\ new = [rec EXCEPT !.phase = ph]
                            /\ Like(new, rec) /\ new.phase = ph
                            /\ (new.conf <=> rec.conf) /\ (new.adm <=> rec.adm)
  BY PhaseFacts
<1>6. RecordOK(j.did, new)
  <2>1. /\ new.gen \in 1 .. MaxGen /\ new.sid <= minted /\ new.sid # 0 /\ new.conf
        /\ new.kind = rec.kind /\ Enforced(new)
    BY <1>2, <1>3, <1>4, <1>5 DEF RecordOK, Like, Enforced
  <2>2. new.kind = "removal" => InLog(j.did, new)
    BY <1>2, <1>3, <1>5 DEF Like, InLog
  <2>3. new.adm => j.did = Owner /\ ~admin
    BY <1>2, <1>3, <1>5 DEF RecordOK
  <2>4. j.did = Owner => new.kind = "removal"
    BY <1>2, <1>3, <2>1 DEF RecordOK
  <2>5. new.phase = "admin-removed" => new.adm
    BY <1>2, <1>3, <1>5
  <2> QED
    BY <2>1, <2>2, <2>3, <2>4, <2>5 DEF RecordOK
<1>7. PICK k \in Job : k = With(r, new) /\ k.rec = new /\ k.did = j.did /\ k.kind = j.kind
  BY <1>2, WithFacts
<1>8. /\ Fits(k) /\ RecordOK(k.did, k.rec) /\ k.rec.sid # 0 /\ k.rec.conf
      /\ k.rec.phase = ph
  <2>1. k.rec.conf /\ k.rec.phase = ph /\ RecordOK(k.did, k.rec)
    BY <1>4, <1>5, <1>6, <1>7
  <2>2. Fits(k) /\ k.rec.sid # 0
    BY <1>3, <1>4, <1>5, <1>7 DEF Fits, Like
  <2> QED
    BY <2>1, <2>2
<1>9. JobOK(p, k) /\ p \in Pc \ {"idle", "stage"}
  BY <1>2, <1>7, <1>8, ConfirmedJob
<1>10. Persist(r, new, p)
  BY <1>2, <1>3, <1>5
<1> QED
  BY <1>1, <1>2, <1>3, <1>5, <1>6, <1>7, <1>9, <1>10, PersistStep

LEMMA CommittedStep == ASSUME IInv, NEW r \in Run, Committed(r) PROVE IInv'
<1>1. /\ pc[r] = "committed" /\ pc[r] \in Confirmed /\ JobOK("committed", job[r])
      /\ job[r].kind \in Kind
  BY RunFacts DEF Committed, Confirmed
<1>2. job[r].rec.kind = "removal" => InLog(job[r].did, job[r].rec)
  BY <1>1 DEF JobOK, Kind
<1>3. {"committed", "local-cleanup"} \subseteq Phase \ Early
  BY DEF Phase, Early
<1>4. CASE job[r].did = Owner
  <2>1. Persist(r, [job[r].rec EXCEPT !.phase = "committed"], "adminSend")
    BY <1>4 DEF Committed
  <2> QED
    BY <1>1, <1>2, <1>3, <1>4, <2>1, ForwardStep
<1>5. CASE job[r].did # Owner
  <2>1. Persist(r, [job[r].rec EXCEPT !.phase = "local-cleanup"], "complete")
    BY <1>5 DEF Committed
  <2> QED
    BY <1>1, <1>2, <1>3, <2>1, ForwardStep
<1> QED
  BY <1>4, <1>5

-----------------------------------------------------------------------------
(* The self-leave of an admin.                                               *)

(* handleAdminRemove: the authority is given up or stays as it is.           *)
LEMMA AdminFacts ==
    ASSUME IInv, admin' \in BOOLEAN, admin' => admin,
           UNCHANGED <<installed, bgen, keys, space, theirs, minted, bounds>>
    PROVE  Typed' /\ Grows /\ RecordedIsEnforced' /\ LeftIsHandedBack'
<1> USE DEF IInv, keys, space, bounds
<1>1. minted <= minted' /\ bgen <= bgen'
  BY Numbers DEF TypeOK
<1>2. Typed'
  BY DEF TypeOK, Typed
<1>3. Grows
  BY <1>1 DEF Grows
<1>4. RecordedIsEnforced' /\ LeftIsHandedBack'
  BY DEF RecordedIsEnforced, LeftIsHandedBack
<1> QED
  BY <1>2, <1>3, <1>4

LEMMA AdminAnsweredStep == ASSUME IInv, NEW r \in Run, AdminAnswered(r) PROVE IInv'
<1>1. PICK j \in Job : /\ j = job[r] /\ j.rec \in Record /\ JobOK("adminSend", j)
                       /\ Known(j.rec) /\ RecordOK(j.did, j.rec)
  BY RunFacts DEF AdminAnswered
<1>2. /\ store' = store /\ admin' \in BOOLEAN /\ (admin' => admin)
      /\ UNCHANGED <<installed, bgen, keys, space, theirs, minted, bounds>>
  BY DEF AdminAnswered, IInv, TypeOK
<1>3. Typed' /\ Grows /\ RecordedIsEnforced' /\ LeftIsHandedBack'
  BY <1>2, AdminFacts
<1>4. JobOK("adminSend", j)'
  BY <1>1, <1>3, JobStable DEF IInv
<1>5. CASE j.rec.adm
  <2>1. Goto(r, "adminPhase", j) /\ "adminPhase" \in Pc \ {"idle"}
    BY <1>1, <1>5 DEF AdminAnswered, Pc
  <2>2. JobOK("adminPhase", j)'
    BY <1>4, <1>5 DEF JobOK, Confirmed
  <2> QED
    BY <1>1, <1>2, <1>3, <2>1, <2>2, MoveStep
<1>6. CASE ~j.rec.adm
  <2>1. Goto(r, "adminMark", j) /\ "adminMark" \in Pc \ {"idle"} /\ ~admin'
    BY <1>1, <1>6 DEF AdminAnswered, Pc
  <2>2. JobOK("adminMark", j)'
    BY <1>4, <2>1 DEF JobOK, Confirmed
  <2> QED
    BY <1>1, <1>2, <1>3, <2>1, <2>2, MoveStep
<1> QED
  BY <1>5, <1>6

LEMMA AdminLostStep == ASSUME IInv, NEW r \in Run, AdminLost(r) PROVE IInv'
<1>1. /\ pc[r] # "idle" /\ Stop(r) /\ store' = store
      /\ UNCHANGED <<installed, bgen, keys, space, theirs, minted, bounds>>
      /\ admin' = admin \/ admin' = FALSE
  BY DEF AdminLost
<1>2. admin \in BOOLEAN
  BY DEF IInv, TypeOK
<1>3. CASE admin' = admin
  BY <1>1, <1>2, <1>3, AdminFacts, StopStep
<1>4. CASE admin' = FALSE
  <2>1. admin' \in BOOLEAN
    BY <1>4
  <2>2. admin' => admin
    BY <1>4
  <2> QED
    BY <1>1, <2>1, <2>2, AdminFacts, StopStep
<1> QED
  BY <1>1, <1>3, <1>4

(* The acknowledgement is written into the record before its phase.          *)
LEMMA AdminMarkStep == ASSUME IInv, NEW r \in Run, AdminMark(r) PROVE IInv'
<1>1. PICK j \in Job : /\ j = job[r] /\ j.rec \in Record /\ JobOK("adminMark", j)
                       /\ RecordOK(j.did, j.rec) /\ pc[r] = "adminMark"
  BY RunFacts DEF AdminMark
<1>2. PICK rec \in Record : rec = j.rec
  BY <1>1
<1>3. /\ Fits(j) /\ rec.sid # 0 /\ rec.conf /\ j.did = Owner /\ ~admin
      /\ rec.phase = "committed"
  BY <1>1, <1>2 DEF JobOK, Fits, Confirmed
<1>4. PICK new \in Record : new = [rec EXCEPT !.adm = TRUE]
  BY DEF Record
<1>5. Like(new, rec) /\ new.phase = rec.phase /\ new.adm /\ (new.conf <=> rec.conf)
  BY <1>4 DEF Record, Like
<1>6. RecordOK(j.did, new)
  BY <1>1, <1>2, <1>3, <1>5 DEF RecordOK, Like, Enforced, InLog
<1>7. PICK k \in Job : k = With(r, new) /\ k.rec = new /\ k.did = j.did /\ k.kind = j.kind
  BY <1>1, WithFacts
<1>8. /\ Fits(k) /\ RecordOK(k.did, k.rec) /\ k.rec.sid # 0 /\ k.rec.conf
      /\ k.did = Owner /\ k.rec.phase = "committed" /\ k.rec.adm
  BY <1>3, <1>5, <1>6, <1>7 DEF Fits, Like
<1>9. JobOK("adminPhase", k) /\ "adminPhase" \in Pc \ {"idle", "stage"}
  BY <1>8, ConfirmedJob
<1>10. Persist(r, new, "adminPhase")
  BY <1>1, <1>2, <1>4 DEF AdminMark
<1> QED
  BY <1>1, <1>2, <1>5, <1>6, <1>7, <1>9, <1>10, PersistStep

LEMMA AdminPhaseStep == ASSUME IInv, NEW r \in Run, AdminPhase(r) PROVE IInv'
<1>1. /\ JobOK("adminPhase", job[r]) /\ RecordOK(job[r].did, job[r].rec)
      /\ pc[r] \in Confirmed
  BY RunFacts DEF AdminPhase, Confirmed
<1>2. /\ job[r].rec.kind = "removal" => InLog(job[r].did, job[r].rec)
      /\ job[r].rec.adm
  BY <1>1 DEF JobOK, RecordOK, Early
<1>3. "admin-removed" \in Phase \ Early
  BY DEF Phase, Early
<1>4. Persist(r, [job[r].rec EXCEPT !.phase = "admin-removed"], "finalize")
  BY DEF AdminPhase
<1> QED
  BY <1>1, <1>2, <1>3, <1>4, ForwardStep

(* finalizeSelfLeave: the space is left by an admin whose removal is in the  *)
(* log and whose authority the broker has taken.                             *)
LEMMA FinalizeStep == ASSUME IInv, NEW r \in Run, Finalize(r) PROVE IInv'
<1>1. PICK j \in Job : /\ j = job[r] /\ j.rec \in Record /\ JobOK("finalize", j)
                       /\ Known(j.rec) /\ RecordOK(j.did, j.rec)
  BY RunFacts DEF Finalize
<1>2. /\ Goto(r, "cleanup", j) /\ store' = store /\ left' = TRUE
      /\ key' = [g \in Gen |-> None] /\ cap' = [g \in Gen |-> None] /\ cur' = -1
      /\ UNCHANGED <<broker, member, declared, recorded, sent, theirs, minted, bounds>>
  BY <1>1 DEF Finalize
<1>3. j.rec.phase = "admin-removed" /\ j.rec.adm
  BY <1>1 DEF JobOK, RecordOK
<1>4. j.did = Owner /\ ~admin /\ j.rec.kind = "removal"
  BY <1>1, <1>3 DEF RecordOK
<1>5. InLog(Owner, j.rec)
  BY <1>1, <1>3, <1>4 DEF RecordOK, Early
<1>6. ~admin' /\ \E e \in recorded' : e.did = Owner
  BY <1>2, <1>4, <1>5 DEF InLog, broker
<1>7. Typed'
  <2>1. key' \in [Gen -> Nat \cup {None}] /\ cap' \in [Gen -> Nat \cup {None}]
    BY <1>2
  <2>2. cur' \in -1 .. MaxGen /\ left' \in BOOLEAN
    BY <1>2, Numbers
  <2> QED
    BY <1>2, <2>1, <2>2 DEF IInv, TypeOK, Typed, broker, bounds
<1>8. Grows
  <2>1. minted <= minted' /\ bgen <= bgen'
    BY <1>2, Numbers DEF IInv, TypeOK, broker
  <2> QED
    BY <1>2, <2>1 DEF Grows, broker
<1>9. RecordedIsEnforced' /\ LeftIsHandedBack'
  BY <1>2, <1>6 DEF IInv, RecordedIsEnforced, LeftIsHandedBack, broker
<1>10. JobOK("finalize", j)'
  BY <1>1, <1>7, <1>8, JobStable DEF IInv
<1>11. JobOK("cleanup", j)' /\ "cleanup" \in Pc \ {"idle"}
  BY <1>10 DEF JobOK, Confirmed, Pc
<1> QED
  BY <1>1, <1>2, <1>7, <1>8, <1>9, <1>11, MoveStep

LEMMA CleanupStep == ASSUME IInv, NEW r \in Run, Cleanup(r) PROVE IInv'
<1>1. /\ JobOK("cleanup", job[r]) /\ RecordOK(job[r].did, job[r].rec)
      /\ pc[r] \in Confirmed
  BY RunFacts DEF Cleanup, Confirmed
<1>2. job[r].rec.kind = "removal" => InLog(job[r].did, job[r].rec)
  BY <1>1 DEF JobOK, RecordOK, Early
<1>3. "local-cleanup" \in Phase \ Early
  BY DEF Phase, Early
<1>4. Persist(r, [job[r].rec EXCEPT !.phase = "local-cleanup"], "complete")
  BY DEF Cleanup
<1> QED
  BY <1>1, <1>2, <1>3, <1>4, ForwardStep

LEMMA CompleteStep == ASSUME IInv, NEW r \in Run, Complete(r) PROVE IInv'
<1>1. /\ JobOK("complete", job[r]) /\ RecordOK(job[r].did, job[r].rec)
      /\ pc[r] \in Confirmed
  BY RunFacts DEF Complete, Confirmed
<1>2. job[r].rec.kind = "removal" => InLog(job[r].did, job[r].rec)
  BY <1>1 DEF JobOK, RecordOK
<1>3. "complete" \in Phase \ Early
  BY DEF Phase, Early
<1>4. Persist(r, [job[r].rec EXCEPT !.phase = "complete"], "delete")
  BY DEF Complete
<1> QED
  BY <1>1, <1>2, <1>3, <1>4, ForwardStep

LEMMA DeleteStep == ASSUME IInv, NEW r \in Run, Delete(r) PROVE IInv'
<1>1. PICK d \in Did : d = job[r].did /\ pc[r] # "idle"
  BY RunFacts DEF Delete
<1>2. Stop(r) /\ UNCHANGED <<broker, keys, space, theirs, minted, bounds>>
  BY DEF Delete
<1>3. Typed' /\ Grows /\ RecordedIsEnforced' /\ LeftIsHandedBack'
  BY <1>2, StillFacts
<1>4. CASE store' = store
  BY <1>1, <1>2, <1>3, <1>4, StopStep
<1>5. CASE store' = [store EXCEPT ![d] = None]
  <2>1. Goto(r, "idle", None) /\ "idle" \in Pc
    BY <1>2 DEF Stop, Pc
  <2>2. PICK z : z.sid = minted + 1
    BY SomeFresh
  <2>3. PICK new \in Record \cup {None} : new = None
    OBVIOUS
  <2>4. store' = [store EXCEPT ![d] = new]
    BY <1>5, <2>3
  <2> QED
    BY <1>3, <2>1, <2>2, <2>3, <2>4, RunStep
<1> QED
  BY <1>1, <1>4, <1>5 DEF Delete

LEMMA CrashStep == ASSUME IInv, NEW r \in Run, Crash(r) PROVE IInv'
<1>1. /\ pc[r] # "idle" /\ Stop(r) /\ store' = store /\ faults' = faults + 1
      /\ UNCHANGED <<broker, keys, space, theirs, minted, foreign, reinvites>>
  BY DEF Crash
<1> USE DEF IInv, broker, keys, space
<1>2. faults' \in Nat /\ minted <= minted' /\ bgen <= bgen'
  BY <1>1, Numbers DEF TypeOK
<1>3. Typed'
  BY <1>1, <1>2 DEF TypeOK, Typed
<1>4. Grows
  BY <1>1, <1>2 DEF Grows
<1>5. RecordedIsEnforced' /\ LeftIsHandedBack'
  BY <1>1 DEF RecordedIsEnforced, LeftIsHandedBack
<1> QED
  BY <1>1, <1>3, <1>4, <1>5, StopStep

-----------------------------------------------------------------------------
(* The others.                                                               *)

LEMMA OtherStep ==
    ASSUME IInv, Typed', Grows, RecordedIsEnforced', LeftIsHandedBack',
           UNCHANGED <<store, pc, job>>
    PROVE  IInv'
<1> USE DEF IInv
<1>1. TypeOK'
  BY DEF TypeOK, Typed
<1>2. StoreOK'
  <2> SUFFICES ASSUME NEW d \in Did, store'[d] # None PROVE RecordOK(d, store[d])'
    BY DEF StoreOK
  <2>1. PICK rec \in Record : rec = store[d] /\ RecordOK(d, rec)
    BY StoreFacts
  <2>2. RecordOK(d, rec)'
    BY <2>1, RecordStable
  <2> QED
    BY <2>1, <2>2 DEF RecordOK, Enforced, InLog
<1>3. JobsOK'
  <2> SUFFICES ASSUME NEW q \in Run, pc'[q] # "idle" PROVE JobOK(pc[q], job[q])'
    BY DEF JobsOK
  <2>1. PICK c \in Pc, k \in Job : /\ c = pc[q] /\ k = job[q] /\ c # "idle"
                                   /\ c # "stage" => k.rec \in Record
    BY DEF TypeOK
  <2>2. JobOK(c, k)
    BY <2>1 DEF JobsOK
  <2>3. JobOK(c, k)'
    BY <2>1, <2>2, JobStable
  <2> QED
    BY <2>1, <2>3 DEF JobOK, RecordOK, Enforced, InLog
<1>4. OneMaterial'
  BY DEF OneMaterial, Alive, Like
<1> QED
  BY <1>1, <1>2, <1>3, <1>4

(* Another admin's rotation takes a generation that nobody had.              *)
LEMMA ForeignRotateStep == ASSUME IInv, ForeignRotate PROVE IInv'
<1> USE DEF IInv, keys, space
<1>1. /\ bgen < MaxGen
      /\ installed' = [installed EXCEPT ![bgen + 1] = minted + 1] /\ bgen' = bgen + 1
      /\ theirs' = theirs \cup {minted + 1}
      /\ minted' = minted + 1 /\ foreign' = foreign + 1
      /\ UNCHANGED <<store, admin, keys, space, faults, reinvites, pc, job>>
  BY DEF ForeignRotate
<1>2. /\ bgen \in Nat /\ bgen + 1 \in Gen /\ minted + 1 \in Nat /\ foreign + 1 \in Nat
      /\ bgen <= bgen' /\ minted <= minted'
      /\ \A g \in 0 .. bgen : g \in Gen /\ g # bgen + 1
  BY <1>1, Numbers DEF TypeOK
<1>3. installed' \in [Gen -> Nat \cup {None}] /\ \A g \in 0 .. bgen : installed'[g] = installed[g]
  BY <1>1, <1>2 DEF TypeOK
<1>4. Typed'
  BY <1>1, <1>2, <1>3 DEF TypeOK, Typed
<1>5. Grows
  BY <1>1, <1>2, <1>3 DEF Grows
<1>6. RecordedIsEnforced'
  <2> SUFFICES ASSUME NEW e \in recorded PROVE e.gen <= bgen' /\ installed'[e.gen] = e.mat
    BY <1>1 DEF RecordedIsEnforced
  <2>1. e.gen \in 0 .. bgen /\ installed[e.gen] = e.mat
    BY <1>2 DEF RecordedIsEnforced, TypeOK
  <2> QED
    BY <1>1, <1>2, <1>3, <2>1
<1>7. LeftIsHandedBack'
  BY <1>1 DEF LeftIsHandedBack
<1> QED
  BY <1>1, <1>4, <1>5, <1>6, <1>7, OtherStep

LEMMA ReceiveRotationStep == ASSUME IInv, ReceiveRotation PROVE IInv'
<1>1. /\ cur \in Int /\ cur >= 0 /\ cur < bgen /\ bgen <= MaxGen /\ installed[cur + 1] \in Nat
  <2>1. cur \in -1 .. MaxGen /\ bgen \in 0 .. MaxGen /\ theirs \subseteq Nat
    BY Numbers DEF IInv, TypeOK
  <2>2. cur >= 0 /\ cur < bgen /\ installed[cur + 1] \in theirs
    BY DEF ReceiveRotation
  <2>3. cur \in Int /\ bgen <= MaxGen
    BY <2>1, Numbers
  <2> QED
    BY <2>1, <2>2, <2>3
<1>2. cur + 1 \in Gen /\ cur + 1 \in -1 .. MaxGen
  BY <1>1, Numbers DEF IInv, TypeOK
<1>3. /\ key' \in [Gen -> Nat \cup {None}] /\ cap' \in [Gen -> Nat \cup {None}]
      /\ cur' \in -1 .. MaxGen
  BY <1>1, <1>2 DEF ReceiveRotation, IInv, TypeOK
<1>4. Typed' /\ Grows /\ RecordedIsEnforced' /\ LeftIsHandedBack'
  BY <1>3, KeysFacts DEF ReceiveRotation
<1> QED
  BY <1>4, OtherStep DEF ReceiveRotation

LEMMA SelfLeaveStep == ASSUME IInv, NEW d \in Did, SelfLeave(d) PROVE IInv'
<1> USE DEF IInv, broker, keys, bounds
<1>1. /\ declared' = [declared EXCEPT ![d] = cur + 1] /\ member' = member \ {d}
      /\ cur >= 0 /\ cur < MaxGen
      /\ UNCHANGED <<store, broker, keys, left, recorded, sent, theirs, minted, bounds, pc, job>>
  BY DEF SelfLeave
<1>2. cur + 1 \in Gen /\ minted <= minted' /\ bgen <= bgen'
  BY <1>1, Numbers DEF TypeOK
<1>3. declared' \in [Did -> Gen] /\ member' \subseteq Did
  BY <1>1, <1>2 DEF TypeOK
<1>4. Typed'
  BY <1>1, <1>3 DEF TypeOK, Typed
<1>5. Grows
  BY <1>1, <1>2 DEF Grows
<1>6. RecordedIsEnforced' /\ LeftIsHandedBack'
  BY <1>1 DEF RecordedIsEnforced, LeftIsHandedBack
<1> QED
  BY <1>1, <1>4, <1>5, <1>6, OtherStep

(* addMember: the device rotates locally; the broker is not told.            *)
LEMMA ReInviteStep == ASSUME IInv, NEW d \in Did, ReInvite(d) PROVE IInv'
<1> USE DEF IInv, broker, bounds
<1> DEFINE new(top) == [g \in Gen |-> IF g > cur /\ g <= top THEN minted + (g - cur) ELSE key[g]]
<1>1. PICK top \in Gen :
         /\ top >= cur /\ cur >= 0
         /\ key' = new(top)
         /\ cap' = [g \in Gen |-> IF g > cur /\ g <= top THEN new(top)[g] ELSE cap[g]]
         /\ sent' = sent \cup {<<g, new(top)[g]>> : g \in cur + 1 .. top}
         /\ cur' = top /\ minted' = minted + (top - cur)
         /\ member' = member \cup {d} /\ reinvites' = reinvites + 1
         /\ UNCHANGED <<store, broker, left, declared, recorded, theirs, faults, foreign, pc, job>>
  BY DEF ReInvite
<1>2. /\ cur \in Nat /\ top \in Nat /\ top <= MaxGen /\ minted \in Nat
      /\ minted' \in Nat /\ minted <= minted' /\ bgen <= bgen'
      /\ cur' \in -1 .. MaxGen /\ reinvites' \in Nat
  BY <1>1, Numbers DEF TypeOK
<1>3. \A g \in cur + 1 .. top : g \in Gen /\ new(top)[g] \in Nat
  <2> SUFFICES ASSUME NEW g \in cur + 1 .. top PROVE g \in Gen /\ new(top)[g] \in Nat
    OBVIOUS
  <2>1. g \in Gen /\ g > cur /\ g <= top /\ minted + (g - cur) \in Nat
    BY <1>2, Numbers
  <2> QED
    BY <2>1
<1>4. new(top) \in [Gen -> Nat \cup {None}]
  BY <1>2, Numbers DEF TypeOK
<1> HIDE DEF new
<1>5. cap' \in [Gen -> Nat \cup {None}] /\ key' \in [Gen -> Nat \cup {None}]
  BY <1>1, <1>4 DEF TypeOK
<1>6. sent' \subseteq Nat \X Nat
  BY <1>1, <1>3, Numbers DEF TypeOK
<1>7. Typed'
  BY <1>1, <1>2, <1>5, <1>6 DEF TypeOK, Typed
<1>8. Grows
  BY <1>1, <1>2 DEF Grows
<1>9. RecordedIsEnforced' /\ LeftIsHandedBack'
  BY <1>1 DEF RecordedIsEnforced, LeftIsHandedBack
<1> QED
  BY <1>1, <1>7, <1>8, <1>9, OtherStep

-----------------------------------------------------------------------------
(* The inductive invariant holds in every reachable state.                   *)

\* Whoever holds a record in the initial state holds one without identity.
LEMMA InitIInv == ASSUME Init PROVE IInv
<1>1. \A c \in BOOLEAN : /\ Legacy(c) \in Record /\ Legacy(c).sid = 0 /\ Legacy(c).gen = 1
                         /\ Legacy(c).phase \in Early /\ Legacy(c).kind = "removal"
                         /\ ~Legacy(c).adm
  BY DEF Legacy, Record, Phase, Kind, Early
<1>2. /\ store \in [Did -> Record \cup {None}]
      /\ \A d \in Did : store[d] # None =>
           /\ d # Owner /\ store[d].sid = 0 /\ store[d].gen = 1
           /\ store[d].phase \in Early /\ store[d].kind = "removal" /\ ~store[d].adm
  <2>1. CASE store = [d \in Did |-> None]
    BY <2>1
  <2>2. CASE \E d \in Did \ {Owner}, c \in BOOLEAN :
               store = [e \in Did |-> IF e = d THEN Legacy(c) ELSE None]
    <3>1. PICK d \in Did \ {Owner}, c \in BOOLEAN :
            store = [e \in Did |-> IF e = d THEN Legacy(c) ELSE None]
      BY <2>2
    <3>2. PICK rec \in Record : /\ rec = Legacy(c) /\ rec.sid = 0 /\ rec.gen = 1
                                /\ rec.phase \in Early /\ rec.kind = "removal" /\ ~rec.adm
      BY <1>1
    <3>3. \A e \in Did : store[e] = IF e = d THEN rec ELSE None
      BY <3>1, <3>2
    <3> QED
      BY <3>1, <3>2, <3>3
  <2> QED
    BY <2>1, <2>2 DEF Init
<1>3. Fresh \in [Gen -> Nat \cup {None}]
  BY DEF Fresh
<1>4. installed \in [Gen -> Nat \cup {None}] /\ bgen \in Gen
  <2>1. bgen \in {0, 1}
    BY DEF Init
  <2>2. installed = Fresh \/ \E m \in {1, 2} : installed = [Fresh EXCEPT ![1] = m]
    BY DEF Init
  <2>3. \A m \in {1, 2} : [Fresh EXCEPT ![1] = m] \in [Gen -> Nat \cup {None}]
    BY <1>3, Numbers
  <2> QED
    BY <1>3, <2>1, <2>2, <2>3, Numbers
<1>5. /\ pc \in [Run -> Pc] /\ job \in [Run -> Job \cup {None}]
      /\ \A r \in Run : pc[r] = "idle" /\ job[r] = None
  BY DEF Init, Pc
<1>6. TypeOK
  <2>1. cur \in -1 .. MaxGen /\ declared \in [Did -> Gen] /\ minted \in Nat /\ theirs \subseteq Nat
    BY Numbers DEF Init
  <2> QED
    BY <1>2, <1>3, <1>4, <1>5, <2>1 DEF Init, TypeOK
<1>7. StoreOK
  <2> SUFFICES ASSUME NEW d \in Did, store[d] # None PROVE RecordOK(d, store[d])
    BY DEF StoreOK
  <2>1. minted = 2 /\ store[d].gen \in 1 .. MaxGen
    BY <1>2, Numbers DEF Init
  <2> QED
    BY <1>2, <2>1 DEF RecordOK, Early
<1>8. JobsOK
  BY <1>5 DEF JobsOK
<1>9. OneMaterial
  <2>1. \A x \in Alive : x.sid = 0
    BY <1>2, <1>5 DEF Alive
  <2> QED
    BY <2>1 DEF OneMaterial
<1>10. RecordedIsEnforced /\ LeftIsHandedBack
  BY DEF Init, RecordedIsEnforced, LeftIsHandedBack
<1> QED
  BY <1>6, <1>7, <1>8, <1>9, <1>10 DEF IInv

LEMMA StutterIInv == ASSUME IInv, UNCHANGED vars PROVE IInv'
<1>1. UNCHANGED <<store, broker, keys, space, theirs, minted, bounds, pc, job>>
  BY DEF vars
<1> QED
  BY <1>1, StillFacts, OtherStep

LEMMA NextIInv == ASSUME IInv, [Next]_vars PROVE IInv'
<1>1. ASSUME NEW r \in Run, Local(r) PROVE IInv'
  BY <1>1, StageStep, PutStep, ReplaceStep, BindStep, MarkStep, GapStep, TakenStep,
     ConfirmStep, AssertMaterialStep, CommitStep, SaveKeyStep, SaveCapStep, CommittedStep,
     AdminMarkStep, AdminPhaseStep, FinalizeStep, CleanupStep, CompleteStep, DeleteStep
     DEF Local
<1>2. ASSUME NEW r \in Run, Remote(r) PROVE IInv'
  BY <1>2, RotateAnsweredStep, EffectsDoneStep, AdminAnsweredStep DEF Remote
<1>3. ASSUME NEW r \in Run, Fail(r) PROVE IInv'
  BY <1>3, RotateLostStep, EffectsFailStep, AdminLostStep, CrashStep DEF Fail
<1>4. ASSUME NEW r \in Run, NEW d \in Did,
             RemoveMember(r, d) \/ Enforce(r, d) \/ Recover(r, d)
      PROVE  IInv'
  BY <1>4, RemoveMemberStep, EnforceStep, RecoverStep
<1>5. ASSUME NEW d \in Did, SelfLeave(d) \/ ReInvite(d) PROVE IInv'
  BY <1>5, SelfLeaveStep, ReInviteStep
<1>6. ASSUME ForeignRotate \/ ReceiveRotation PROVE IInv'
  BY <1>6, ForeignRotateStep, ReceiveRotationStep
<1>7. CASE UNCHANGED vars
  BY <1>7, StutterIInv
<1> QED
  BY <1>1, <1>2, <1>3, <1>4, <1>5, <1>6, <1>7 DEF Next

LEMMA AlwaysIInv == Spec => []IInv
<1>1. Init => IInv
  BY InitIInv
<1>2. IInv /\ [Next]_vars => IInv'
  BY NextIInv
<1> QED
  BY <1>1, <1>2, PTL DEF Spec

(* SecureRemoval: every record, job, key and generation has its type in      *)
(* every reachable state.                                                    *)
THEOREM TypeCorrect == Spec => []TypeOK
<1>1. IInv => TypeOK
  BY DEF IInv
<1> QED
  BY <1>1, AlwaysIInv, PTL

(* matchesStagingExpectation compares stagingIds only: of all the records    *)
(* that are stored or still in the hands of a run, two with the same         *)
(* identity have one generation, one material and one kind.                  *)
THEOREM IdentityIsMaterial == Spec => []OneMaterial
<1>1. IInv => OneMaterial
  BY DEF IInv
<1> QED
  BY <1>1, AlwaysIInv, PTL

(* The enforcement gate of secure-removal-workflow.ts: a removal that is in  *)
(* the durable log names the very material that the broker has installed for *)
(* its generation, whatever runs, other admins and old records interfere.    *)
THEOREM RemovalsAreEnforced == Spec => []RecordedIsEnforced
<1>1. IInv => RecordedIsEnforced
  BY DEF IInv
<1> QED
  BY <1>1, AlwaysIInv, PTL

(* markBrokerConfirmed: the durable confirmation of a record with an         *)
(* identity covers the material of that record.                              *)
THEOREM ConfirmationsAreBound == Spec => []ConfirmedIsInstalled
<1>1. IInv => ConfirmedIsInstalled
  <2> SUFFICES ASSUME IInv, NEW d \in Did, store[d] # None, store[d].sid # 0, store[d].conf
               PROVE  store[d].gen <= bgen /\ installed[store[d].gen] = store[d].mat
    BY DEF ConfirmedIsInstalled
  <2> QED
    BY DEF IInv, StoreOK, RecordOK, Enforced
<1> QED
  BY <1>1, AlwaysIInv, PTL

(* finalizeSelfLeave: an admin has deleted its keys only if its removal is   *)
(* in the log and the broker has taken its authority.                        *)
THEOREM LeavingIsHandedBack == Spec => []LeftIsHandedBack
<1>1. IInv => LeftIsHandedBack
  BY DEF IInv
<1> QED
  BY <1>1, AlwaysIInv, PTL

-----------------------------------------------------------------------------
(* The end of a record.                                                      *)

\* No record goes in this step.
Kept == \A d \in Did : store[d] # None => store'[d] # None

LEMMA WriteKeeps ==
    ASSUME IInv, NEW e, NEW rec \in Record, store' = [store EXCEPT ![e] = rec]
    PROVE  Kept
<1>1. rec # None
  BY RemovalAssumption
<1> QED
  BY <1>1 DEF Kept, IInv, TypeOK

LEMMA PersistKeeps ==
    ASSUME IInv, NEW r \in Run, NEW rec \in Record, NEW p, Persist(r, rec, p)
    PROVE  Kept
<1>1. CASE store' = store
  BY <1>1 DEF Kept
<1>2. CASE store' # store
  <2>1. store' = [store EXCEPT ![job[r].did] = rec]
    BY <1>2 DEF Persist
  <2> QED
    BY <2>1, WriteKeeps
<1> QED
  BY <1>1, <1>2

\* Every step but the deletion writes a record or leaves the store alone.
LEMMA LocalKeeps == ASSUME IInv, NEW r \in Run, Local(r), ~Delete(r) PROVE Kept
<1> USE DEF Kept
<1>1. CASE store' = store
  BY <1>1
<1>2. ASSUME pc[r] \notin {"idle", "stage"} PROVE job[r].rec \in Record
  BY <1>2, RunFacts
<1>3. CASE store' # store
  <2>1. CASE Put(r)
    <3>1. job[r].rec \in Record
      BY <1>2, <2>1 DEF Put
    <3>2. store' = [store EXCEPT ![job[r].did] = job[r].rec]
      BY <1>3, <2>1 DEF Put
    <3> QED
      BY <3>1, <3>2, WriteKeeps
  <2>2. CASE Replace(r)
    <3>1. job[r].rec \in Record
      BY <1>2, <2>2 DEF Replace
    <3>2. store' = [store EXCEPT ![job[r].did] = job[r].rec]
      BY <1>3, <2>2 DEF Replace
    <3> QED
      BY <3>1, <3>2, WriteKeeps
  <2>3. CASE Bind(r)
    <3>1. PICK rec \in Record : rec = job[r].rec
      BY <1>2, <2>3 DEF Bind
    <3>2. store' = [store EXCEPT ![job[r].did] = Adopted(rec)]
      BY <1>3, <2>3, <3>1 DEF Bind
    <3>3. minted + 1 \in Nat /\ "staged" \in Phase
      BY DEF IInv, TypeOK, Phase
    <3>4. Adopted(rec) \in Record
      BY <3>3 DEF Adopted, Record
    <3> QED
      BY <3>2, <3>4, WriteKeeps
  <2>4. CASE Mark(r)
    <3>1. PICK d \in Did : d = job[r].did /\ pc[r] = "mark"
      BY <2>4, RunFacts DEF Mark
    <3>2. Bound(store[d], job[r].rec) /\ store' = [store EXCEPT ![d].conf = TRUE]
      BY <1>3, <2>4, <3>1 DEF Mark
    <3>3. PICK rec \in Record : rec = store[d]
      BY <3>2, StoreFacts DEF Bound
    <3>4. [rec EXCEPT !.conf = TRUE] \in Record
      BY DEF Record
    <3>5. store' = [store EXCEPT ![d] = [rec EXCEPT !.conf = TRUE]]
      BY <3>2, <3>3 DEF IInv, TypeOK
    <3> QED
      BY <3>4, <3>5, WriteKeeps
  <2>5. CASE Confirm(r) \/ Committed(r) \/ AdminMark(r) \/ AdminPhase(r) \/ Cleanup(r)
             \/ Complete(r)
    <3>1. PICK rec \in Record : rec = job[r].rec
      BY <1>2, <2>5 DEF Confirm, Committed, AdminMark, AdminPhase, Cleanup, Complete
    <3>2. /\ \A ph \in Phase : [rec EXCEPT !.phase = ph] \in Record
          /\ [rec EXCEPT !.adm = TRUE] \in Record
      BY DEF Record
    <3>3. {"broker-confirmed", "committed", "local-cleanup", "admin-removed", "complete"}
             \subseteq Phase
      BY DEF Phase
    <3>4. \/ \E ph \in Phase, p \in Pc : Persist(r, [rec EXCEPT !.phase = ph], p)
          \/ Persist(r, [rec EXCEPT !.adm = TRUE], "adminPhase")
      BY <1>3, <2>5, <3>1, <3>3
         DEF Confirm, Committed, AdminMark, AdminPhase, Cleanup, Complete, Pc
    <3> QED
      BY <3>2, <3>4, PersistKeeps
  <2>6. CASE Stage(r) \/ Gap(r) \/ Taken(r) \/ AssertMaterial(r) \/ Commit(r)
             \/ SaveKey(r) \/ SaveCap(r) \/ Finalize(r)
    BY <1>3, <2>6 DEF Stage, Gap, Taken, AssertMaterial, Commit, SaveKey, SaveCap, Finalize
  <2> QED
    BY <2>1, <2>2, <2>3, <2>4, <2>5, <2>6 DEF Local
<1> QED
  BY <1>1, <1>3

(* A run deletes the record whose removal it has seen recorded or fulfilled: *)
(* the record it knows and the one that is stored are of the same staging.   *)
LEMMA DeleteSettles ==
    ASSUME IInv, NEW r \in Run, Delete(r), NEW d \in Did, store[d] # None, store'[d] = None
    PROVE  \/ \E e \in recorded : e.did = d /\ e.gen = store[d].gen /\ e.mat = store[d].mat
           \/ store[d].kind = "canonical" /\ bgen >= store[d].gen
<1>1. PICK j \in Job : /\ j = job[r] /\ j.did \in Did /\ j.rec \in Record /\ j.rec # None
                       /\ JobOK("delete", j) /\ RecordOK(j.did, j.rec) /\ pc[r] = "delete"
  BY RunFacts DEF Delete
<1>2. j.did = d /\ Matches(store[d], j.rec)
  BY <1>1 DEF Delete, IInv, TypeOK
<1>3. j.rec.sid # 0 /\ store[d].sid = j.rec.sid
  BY <1>1, <1>2 DEF Matches, JobOK
<1>4. store[d] \in Alive /\ j.rec \in Alive
  BY <1>1, AliveFacts DEF IInv
<1>5. store[d].gen = j.rec.gen /\ store[d].mat = j.rec.mat /\ store[d].kind = j.rec.kind
  BY <1>3, <1>4 DEF IInv, OneMaterial, Like
<1>6. j.rec.gen \in Nat /\ bgen \in Nat /\ j.rec.kind \in Kind
  BY <1>1, Numbers DEF Record, IInv, TypeOK
<1>7. CASE InLog(d, j.rec)
  BY <1>5, <1>7 DEF InLog
<1>8. CASE j.rec.phase \notin Early /\ j.rec.kind = "canonical"
  <2>1. Enforced(j.rec)
    BY <1>1, <1>3, <1>8 DEF RecordOK
  <2> QED
    BY <1>5, <1>6, <1>8, <2>1 DEF Enforced
<1>9. CASE j.rec.kind = "canonical" /\ j.rec.gen <= bgen
  BY <1>5, <1>6, <1>9
<1>10. \/ j.rec.phase \notin Early
       \/ j.rec.kind = "canonical" /\ j.rec.gen <= bgen
  BY <1>1 DEF JobOK
<1>11. j.rec.phase \notin Early /\ j.rec.kind = "removal" => InLog(d, j.rec)
  BY <1>1, <1>2 DEF RecordOK
<1> QED
  BY <1>6, <1>7, <1>8, <1>9, <1>10, <1>11 DEF Kind

(* deletePendingRemoval: a record goes only when its own removal is in the   *)
(* log, or when another admin's rotation has fulfilled it; a newer staging   *)
(* under the same key is never taken along.                                  *)
THEOREM DeletionIsEarned == Spec => NoRemovalForgotten
<1>1. ASSUME IInv, [Next]_vars, NEW d \in Did, store[d] # None, store'[d] = None
      PROVE  \/ \E e \in recorded : e.did = d /\ e.gen = store[d].gen /\ e.mat = store[d].mat
             \/ store[d].kind = "canonical" /\ bgen >= store[d].gen
  <2>1. ASSUME Kept PROVE FALSE
    BY <1>1, <2>1 DEF Kept
  <2>2. ASSUME store' = store PROVE FALSE
    BY <1>1, <2>2
  <2>3. CASE \E r \in Run : Local(r)
    <3>1. PICK r \in Run : Local(r)
      BY <2>3
    <3>2. CASE Delete(r)
      BY <1>1, <3>2, DeleteSettles
    <3>3. CASE ~Delete(r)
      BY <1>1, <2>1, <3>1, <3>3, LocalKeeps
    <3> QED
      BY <3>2, <3>3
  <2>4. CASE \E r \in Run : Remote(r)
    BY <2>2, <2>4 DEF Remote, RotateAnswered, EffectsDone, AdminAnswered
  <2>5. CASE \E r \in Run : Fail(r)
    BY <2>2, <2>5 DEF Fail, RotateLost, EffectsFail, AdminLost, Crash
  <2>6. CASE \E r \in Run, e \in Did : RemoveMember(r, e) \/ Enforce(r, e) \/ Recover(r, e)
    BY <2>2, <2>6 DEF RemoveMember, Enforce, Recover, Begin
  <2>7. CASE \E e \in Did : SelfLeave(e) \/ ReInvite(e)
    BY <2>2, <2>7 DEF SelfLeave, ReInvite
  <2>8. CASE ForeignRotate \/ ReceiveRotation
    BY <2>2, <2>8 DEF ForeignRotate, ReceiveRotation
  <2>9. CASE UNCHANGED vars
    BY <2>2, <2>9 DEF vars
  <2> QED
    BY <1>1, <2>3, <2>4, <2>5, <2>6, <2>7, <2>8, <2>9 DEF Next
<1>2. IInv /\ [Next]_vars => [\A d \in Did : store[d] # None /\ store'[d] = None =>
        LET rec == store[d] IN
        \/ \E e \in recorded : e.did = d /\ e.gen = rec.gen /\ e.mat = rec.mat
        \/ rec.kind = "canonical" /\ bgen >= rec.gen]_vars
  BY <1>1
<1> QED
  BY <1>2, AlwaysIInv, PTL DEF Spec, NoRemovalForgotten

=============================================================================
