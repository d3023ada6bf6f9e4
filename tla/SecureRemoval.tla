--------------------------- MODULE SecureRemoval ---------------------------
(***************************************************************************)
(* The two-phase removal of a member from a space: the admin's device      *)
(* stages the next key generation durably, has the home broker install it, *)
(* and only then activates it, records the removal and distributes the     *)
(* key.  The departing admin also hands back its broker authority.         *)
(*                                                                         *)
(* Code: wot-core/src/application/sync/secure-removal-workflow.ts, the     *)
(* pending-removal methods of IndexedDBDocLogStore.ts, the staged rotation *)
(* of group-key-workflow.ts, the hooks of YjsReplicationAdapter.ts, and    *)
(* handleSpaceRotate / handleAdminRemove of the relay.                     *)
(*                                                                         *)
(* A run is one call of driveRemovalToCompletion.  Runs are not serialised *)
(* with each other: two tabs share the database, and a recovery pass runs  *)
(* beside a removal the user asked for.  Every store operation is one      *)
(* transaction and one step; between two steps the others run, and the run *)
(* may end with its tab.                                                   *)
(*                                                                         *)
(* Abstractions.  One space with one home broker, as runTwoPhaseRemoval    *)
(* demands.  A number stands for the key material of a staging (content    *)
(* key, capability pair and their fingerprint) and for its stagingId; 0 is *)
(* the material of generation 0 and the missing identity of a record       *)
(* written before stagings had one.  The capability pair and the own       *)
(* capability are one write: the code repairs both alike.                  *)
(***************************************************************************)
EXTENDS Integers

CONSTANTS
    Did,            \* identities that may be removed
    Owner,          \* the admin whose device this is
    Run,            \* runs that may be alive together
    MaxGen,         \* bound: the largest key generation
    MaxMint,        \* bound: the materials and identities minted
    MaxFaults,      \* bound: tabs closed in the middle of a run
    MaxForeign,     \* bound: rotations by another admin
    MaxReInvites,   \* bound: removed members invited again
    None

VARIABLES
    store,      \* pendingRemovals: the durable record of each removal
    installed,  \* the broker: the material of each generation
    bgen,       \* the broker: the generation of the space
    admin,      \* the broker: Owner is a registered admin
    key,        \* the key store: the content key of each generation
    cap,        \* the key store: the capability material of each generation
    cur,        \* getCurrentGeneration; -1 without keys
    left,       \* cleanupSpaceLocally has run
    member,     \* the active members of the space document
    declared,   \* the generation a member named when it left by itself
    recorded,   \* removed@generation events in the durable log
    sent,       \* the key rotations distributed to the members
    theirs,     \* the materials the other admin knows
    minted, faults, foreign, reinvites,
    pc, job     \* each run: where it is suspended, and its local variables

broker == <<installed, bgen, admin>>
keys   == <<key, cap, cur>>
space  == <<left, member, declared, recorded, sent>>
bounds == <<faults, foreign, reinvites>>
vars   == <<store, broker, keys, space, theirs, minted, bounds, pc, job>>

Gen    == 0 .. MaxGen
Kind   == {"removal", "canonical"}
Phase  == {"staged", "broker-confirmed", "committed", "admin-removed",
           "local-cleanup", "complete"}
Record == [phase : Phase, gen : Nat, mat : Nat, sid : Nat, conf : BOOLEAN,
           kind : Kind, adm : BOOLEAN]
Job    == [did : Did, kind : Kind, rec : Record \cup {None},
           old : Record \cup {None}, seen : Nat]
Pc     == {"idle", "stage", "put", "replace", "restage", "bind", "rotate", "mark",
           "gap", "taken", "confirm", "assert", "commit", "saveKey",
           "saveCap", "effects", "committed", "adminSend", "adminMark",
           "adminPhase", "finalize", "cleanup", "complete", "delete"}

ASSUME RemovalAssumption ==
    /\ MaxGen \in Nat \ {0} /\ MaxMint \in Nat /\ MaxFaults \in Nat
    /\ MaxForeign \in Nat /\ MaxReInvites \in Nat
    /\ None \notin Nat /\ None \notin Record /\ None \notin Job

\* A record read from a database that was written before stagings had an
\* identity; its confirmation may belong to other material.
Legacy(conf) == [phase |-> IF conf THEN "broker-confirmed" ELSE "staged", gen |-> 1,
                 mat |-> 1, sid |-> 0, conf |-> conf, kind |-> "removal", adm |-> FALSE]

Fresh == [g \in Gen |-> IF g = 0 THEN 0 ELSE None]

\* Either nothing is pending, or an old record is: unconfirmed, confirmed, or
\* confirmed although another admin's rotation took the generation.
Init ==
    /\ \/ store = [d \in Did |-> None] /\ installed = Fresh /\ bgen = 0
       \/ \E d \in Did \ {Owner}, conf \in BOOLEAN, m \in {1, 2} :
            /\ store = [e \in Did |-> IF e = d THEN Legacy(conf) ELSE None]
            /\ bgen = IF conf THEN 1 ELSE 0
            /\ installed = IF conf THEN [Fresh EXCEPT ![1] = m] ELSE Fresh
    /\ admin = TRUE
    /\ key = Fresh /\ cap = Fresh /\ cur = 0
    /\ left = FALSE /\ member = Did /\ declared = [d \in Did |-> 0]
    /\ recorded = {} /\ sent = {} /\ theirs = {0, 2}
    /\ minted = 2
    /\ faults = 0 /\ foreign = 0 /\ reinvites = 0
    /\ pc = [r \in Run |-> "idle"] /\ job = [r \in Run |-> None]

-----------------------------------------------------------------------------
(* Steps of a run.                                                          *)

Goto(r, p, j) == pc' = [pc EXCEPT ![r] = p] /\ job' = [job EXCEPT ![r] = j]

\* The run ends: pending (RemovalPendingNotEnforcedError) or with an error.
Stop(r) == Goto(r, "idle", None)

With(r, rec) == [job[r] EXCEPT !.rec = rec, !.old = None]

\* driveRemovalToCompletion: where the durable phase makes it begin.
\* Mutant: the admin-remove is not asked for again.
EnterLeaving(rec) ==
    CASE rec.phase = "complete"      -> "delete"
      [] rec.phase \in {"committed", "admin-removed"} -> "finalize"
      [] rec.phase = "local-cleanup" -> "complete"
      [] OTHER                       -> "bind"
Enter(rec) ==
    CASE rec.phase = "complete"      -> "delete"
      [] rec.phase = "admin-removed" -> "finalize"
      [] rec.phase = "local-cleanup" -> "complete"
      [] OTHER                       -> "bind"

\* runTwoPhaseRemoval and enforceCanonicalSelfRemovalRotation: an existing
\* record is resumed, otherwise a new one is staged.
Begin(r, d, kind) ==
    LET j == [did |-> d, kind |-> kind, rec |-> store[d], old |-> None, seen |-> 0]
    IN /\ IF store[d] # None THEN Goto(r, Enter(store[d]), j) ELSE Goto(r, "stage", j)
       /\ UNCHANGED <<store, broker, keys, space, theirs, minted, bounds>>

RemoveMember(r, d) ==
    /\ pc[r] = "idle" /\ ~left /\ cur >= 0
    /\ d \in member
    /\ Begin(r, d, "removal")

Enforce(r, d) ==
    /\ pc[r] = "idle" /\ ~left /\ cur >= 0
    /\ d \notin member /\ d # Owner /\ cur < declared[d]
    /\ store[d] # None => store[d].kind = "canonical"
    /\ Begin(r, d, "canonical")

\* recoverPendingRemovals: without the loaded space only the terminal phases
\* can be finished.
Recover(r, d) ==
    /\ pc[r] = "idle" /\ store[d] # None
    /\ left => store[d].phase \in {"admin-removed", "local-cleanup", "complete"}
    /\ Begin(r, d, store[d].kind)

\* stageRemovalCandidate: material for the generation after the current one.
Candidate(kind) == [phase |-> "staged", gen |-> cur + 1, mat |-> minted + 1,
                    sid |-> minted + 1, conf |-> FALSE, kind |-> kind, adm |-> FALSE]

\* A canonical removal must reach the generation the member named.
TooEarly(j, rec) == j.kind = "canonical" /\ rec.gen < declared[j.did]

Stage(r) ==
    /\ pc[r] = "stage" /\ minted < MaxMint /\ cur < MaxGen
    /\ IF cur < 0 \/ TooEarly(job[r], Candidate(job[r].kind))
       THEN Stop(r) /\ UNCHANGED minted
       ELSE /\ Goto(r, "put", With(r, Candidate(job[r].kind)))
            /\ minted' = minted + 1
    /\ UNCHANGED <<store, broker, keys, space, theirs, bounds>>

\* matchesStagingExpectation with pendingRemovalWriteExpectation: the record
\* that was read is still the one that is stored.
\* Mutant: the key of the record is enough.
MatchesAny(stored, read) == read = None => stored = None
Matches(stored, read) ==
    IF read = None THEN stored = None
    ELSE /\ stored # None
         /\ stored.sid = read.sid
         /\ read.sid = 0 => stored.gen = read.gen /\ stored.mat = read.mat

\* stageRemoval: the loser of a race takes over the record of the winner.
Put(r) ==
    /\ pc[r] = "put"
    /\ LET j == job[r]  d == j.did IN
       IF Matches(store[d], None)
       THEN store' = [store EXCEPT ![d] = j.rec] /\ Goto(r, "bind", j)
       ELSE /\ IF store[d].kind = j.kind /\ ~TooEarly(j, store[d])
               THEN Goto(r, Enter(store[d]), With(r, store[d])) ELSE Stop(r)
            /\ UNCHANGED store
    /\ UNCHANGED <<broker, keys, space, theirs, minted, bounds>>

\* A record that lost its generation is replaced by its own run only.
Replace(r) ==
    /\ pc[r] \in {"replace", "restage"}
    /\ LET j == job[r]  d == j.did IN
       IF Matches(store[d], j.old)
       THEN /\ store' = [store EXCEPT ![d] = j.rec]
            /\ IF pc[r] = "restage" THEN Goto(r, "bind", With(r, j.rec)) ELSE Stop(r)
       ELSE Stop(r) /\ UNCHANGED store
    /\ UNCHANGED <<broker, keys, space, theirs, minted, bounds>>

\* bindStagingMaterial: a record without identity gets one and, before the
\* commit, loses its confirmation; a lost race continues with the winner.
\* Mutant: the confirmation is kept.
AdoptedAsIs(rec) == [rec EXCEPT !.sid = minted + 1]
Adopted(rec) ==
    IF rec.phase \in {"staged", "broker-confirmed"}
    THEN [rec EXCEPT !.sid = minted + 1, !.conf = FALSE, !.phase = "staged"]
    ELSE [rec EXCEPT !.sid = minted + 1]

AfterBind(rec) == IF rec.conf THEN "confirm" ELSE "rotate"

Bind(r) ==
    /\ pc[r] = "bind"
    /\ LET j == job[r]  d == j.did  rec == j.rec IN
       IF rec.sid # 0
       THEN /\ IF store[d] # None /\ store[d].sid # 0 /\ store[d].sid # rec.sid
               THEN Stop(r) ELSE Goto(r, AfterBind(rec), j)
            /\ UNCHANGED <<store, minted>>
       ELSE /\ minted < MaxMint
            /\ IF Matches(store[d], rec)
               THEN /\ store' = [store EXCEPT ![d] = Adopted(rec)]
                    /\ Goto(r, AfterBind(Adopted(rec)), With(r, Adopted(rec)))
                    /\ minted' = minted + 1
               ELSE /\ IF store[d] # None /\ store[d].sid # 0
                       THEN Goto(r, AfterBind(store[d]), With(r, store[d])) ELSE Stop(r)
                    /\ UNCHANGED <<store, minted>>
    /\ UNCHANGED <<broker, keys, space, theirs, bounds>>

-----------------------------------------------------------------------------
(* The broker: handleSpaceRotate.                                           *)

Installs(g)   == admin /\ g = bgen + 1
Repeats(g, m) == admin /\ g = bgen /\ installed[g] = m

\* The answer of the broker to a space-rotate frame.  AUTH_INVALID is not
\* material-bound proof and only leaves the removal pending.
Answer(g, m) ==
    CASE Installs(g) \/ Repeats(g, m) -> "receipt"
      [] ~admin                       -> "AUTH_INVALID"
      [] g > bgen + 1                 -> "GENERATION_GAP"
      [] OTHER                        -> "GENERATION_TAKEN"

HandleRotate(g, m) ==
    /\ IF Installs(g)
       THEN installed' = [installed EXCEPT ![g] = m] /\ bgen' = g
       ELSE UNCHANGED <<installed, bgen>>
    /\ UNCHANGED admin

\* The frame reaches the broker and its answer the run.
RotateAnswered(r) ==
    /\ pc[r] = "rotate"
    /\ LET j == job[r]  rec == j.rec  a == Answer(rec.gen, rec.mat) IN
       /\ HandleRotate(rec.gen, rec.mat)
       /\ CASE a = "receipt"          -> Goto(r, "mark", j)
            [] a = "GENERATION_GAP"   -> Goto(r, "gap", [j EXCEPT !.seen = bgen])
            [] a = "GENERATION_TAKEN" -> Goto(r, "taken", j)
            [] OTHER                  -> Stop(r)
    /\ UNCHANGED <<store, keys, space, theirs, minted, bounds>>

\* The broker is not reached, or the answer is lost on the way.
RotateLost(r) ==
    /\ pc[r] = "rotate"
    /\ Stop(r)
    /\ \/ HandleRotate(job[r].rec.gen, job[r].rec.mat)
       \/ UNCHANGED broker
    /\ UNCHANGED <<store, keys, space, theirs, minted, bounds>>

\* matchesConfirmationBinding
Bound(stored, rec) ==
    /\ stored # None
    /\ stored.sid = rec.sid /\ stored.gen = rec.gen /\ stored.mat = rec.mat

\* markBrokerConfirmed: a receipt counts for the material it was sent with.
Mark(r) ==
    /\ pc[r] = "mark"
    /\ LET j == job[r]  d == j.did IN
       IF Bound(store[d], j.rec)
       THEN /\ store' = [store EXCEPT ![d].conf = TRUE]
            /\ Goto(r, "confirm", With(r, [j.rec EXCEPT !.conf = TRUE]))
       ELSE Stop(r) /\ UNCHANGED store
    /\ UNCHANGED <<broker, keys, space, theirs, minted, bounds>>

\* handleGenerationGap: a broker that is behind the device is an error; else
\* the log is caught up with, and the candidate must follow the broker.  (The
\* rotations of the catch-up arrive before this step, by ReceiveRotation.)
Gap(r) ==
    /\ pc[r] = "gap" /\ (cur = job[r].seen => minted < MaxMint /\ cur < MaxGen)
    /\ LET j == job[r] IN
       IF cur = j.seen
       THEN /\ Goto(r, "restage", [j EXCEPT !.rec = Candidate(j.rec.kind), !.old = j.rec])
            /\ minted' = minted + 1
       ELSE Stop(r) /\ UNCHANGED minted
    /\ UNCHANGED <<store, broker, keys, space, theirs, bounds>>

\* handleGenerationTaken: once the winner's key has arrived, a canonical
\* removal is fulfilled and a regular one is staged anew.
Taken(r) ==
    /\ pc[r] = "taken" /\ minted < MaxMint /\ cur < MaxGen
    /\ LET j == job[r] IN
       CASE cur >= j.rec.gen /\ j.rec.kind = "canonical" ->
              Goto(r, "delete", j) /\ UNCHANGED minted
         [] cur >= j.rec.gen /\ j.rec.kind = "removal" ->
              /\ Goto(r, "replace", [j EXCEPT !.rec = Candidate("removal"), !.old = j.rec])
              /\ minted' = minted + 1
         [] OTHER -> Stop(r) /\ UNCHANGED minted
    /\ UNCHANGED <<store, broker, keys, space, theirs, bounds>>

-----------------------------------------------------------------------------
(* The commit.                                                              *)

\* persistPhase: the record is written forward under its own identity.
Persist(r, rec, p) ==
    /\ LET d == job[r].did IN
       IF Matches(store[d], rec)
       THEN store' = [store EXCEPT ![d] = rec] /\ Goto(r, p, With(r, rec))
       ELSE Stop(r) /\ UNCHANGED store
    /\ UNCHANGED <<broker, keys, space, theirs, minted, bounds>>

\* A record that is committed already skips the commit.
Confirm(r) ==
    /\ pc[r] = "confirm"
    /\ LET j == job[r]  rec == j.rec IN
       IF rec.phase \in {"staged", "broker-confirmed"}
       THEN Persist(r, [rec EXCEPT !.phase = "broker-confirmed"], "assert")
       ELSE /\ Goto(r, CASE rec.phase = "committed" /\ j.did = Owner -> "adminSend"
                         [] rec.phase = "admin-removed" -> "finalize"
                         [] rec.phase = "local-cleanup" -> "complete"
                         [] OTHER                       -> "delete", j)
            /\ UNCHANGED <<store, broker, keys, space, theirs, minted, bounds>>

\* assertMaterialConfirmed
AssertMaterial(r) ==
    /\ pc[r] = "assert"
    /\ LET j == job[r]  stored == store[j.did] IN
       IF Bound(stored, j.rec) /\ stored.conf THEN Goto(r, "commit", j) ELSE Stop(r)
    /\ UNCHANGED <<store, broker, keys, space, theirs, minted, bounds>>

\* commitStagedRotation: the next generation is activated, the same material
\* is completed, everything else is drift.
\* Mutant: a half-written activation counts as drift.
ActivationAllOrNothing(rec) ==
    CASE cur = rec.gen - 1 -> "saveKey"
      [] cur = rec.gen /\ key[cur] = rec.mat /\ cap[cur] = rec.mat -> "effects"
      [] OTHER -> "idle"
Activation(rec) ==
    CASE cur = rec.gen - 1 -> "saveKey"
      [] cur = rec.gen /\ key[cur] = rec.mat /\ cap[cur] = rec.mat -> "effects"
      [] cur = rec.gen /\ key[cur] = rec.mat /\ cap[cur] = None    -> "saveCap"
      [] OTHER -> "idle"

Commit(r) ==
    /\ pc[r] = "commit"
    /\ LET p == Activation(job[r].rec) IN
       IF p = "idle" THEN Stop(r) ELSE Goto(r, p, job[r])
    /\ UNCHANGED <<store, broker, keys, space, theirs, minted, bounds>>

SaveKey(r) ==
    /\ pc[r] = "saveKey"
    /\ LET rec == job[r].rec IN
       /\ key' = [key EXCEPT ![rec.gen] = rec.mat]
       /\ cur' = IF cur < rec.gen THEN rec.gen ELSE cur
    /\ Goto(r, "saveCap", job[r])
    /\ UNCHANGED <<store, broker, cap, space, theirs, minted, bounds>>

\* provisionCapabilityForGeneration
SaveCap(r) ==
    /\ pc[r] = "saveCap"
    /\ cap' = [cap EXCEPT ![job[r].rec.gen] = job[r].rec.mat]
    /\ Goto(r, "effects", job[r])
    /\ UNCHANGED <<store, broker, key, cur, space, theirs, minted, bounds>>

\* commitRemoval: the durable membership event, unless the member wrote it,
\* then the distribution of the key.  It may fail before either.
\* Mutant: the event names the generation of the moment.
EventAtPresent(r) == [did |-> job[r].did, gen |-> cur, mat |-> job[r].rec.mat]
Event(r) == [did |-> job[r].did, gen |-> job[r].rec.gen, mat |-> job[r].rec.mat]

RecordRemoval(r) ==
    IF job[r].kind = "removal"
    THEN recorded' = recorded \cup {Event(r)} /\ member' = member \ {job[r].did}
    ELSE UNCHANGED <<recorded, member>>

\* Without keys (the other tab has left the space) the event is not written.
EffectsDone(r) ==
    /\ pc[r] = "effects"
    /\ IF cur < 0 /\ job[r].kind = "removal"
       THEN Stop(r) /\ UNCHANGED <<recorded, member, sent>>
       ELSE /\ RecordRemoval(r)
            /\ sent' = sent \cup {<<job[r].rec.gen, job[r].rec.mat>>}
            /\ Goto(r, "committed", job[r])
    /\ UNCHANGED <<store, broker, keys, left, declared, theirs, minted, bounds>>

EffectsFail(r) ==
    /\ pc[r] = "effects" /\ faults < MaxFaults
    /\ faults' = faults + 1
    /\ (cur >= 0 /\ RecordRemoval(r)) \/ UNCHANGED <<recorded, member>>
    /\ Stop(r)
    /\ UNCHANGED <<store, broker, keys, left, declared, sent, theirs, minted,
                   foreign, reinvites>>

Committed(r) ==
    /\ pc[r] = "committed"
    /\ IF job[r].did = Owner
       THEN Persist(r, [job[r].rec EXCEPT !.phase = "committed"], "adminSend")
       ELSE Persist(r, [job[r].rec EXCEPT !.phase = "local-cleanup"], "complete")

-----------------------------------------------------------------------------
(* The self-leave of an admin: handleAdminRemove, then the local exit.      *)

\* A repeated self-removal is acknowledged without effect.
AdminAnswered(r) ==
    /\ pc[r] = "adminSend"
    /\ IF job[r].rec.adm THEN UNCHANGED admin /\ Goto(r, "adminPhase", job[r])
       ELSE admin' = FALSE /\ Goto(r, "adminMark", job[r])
    /\ UNCHANGED <<store, installed, bgen, keys, space, theirs, minted, bounds>>

AdminLost(r) ==
    /\ pc[r] = "adminSend" /\ ~job[r].rec.adm
    /\ admin' \in {admin, FALSE}
    /\ Stop(r)
    /\ UNCHANGED <<store, installed, bgen, keys, space, theirs, minted, bounds>>

AdminMark(r) ==
    /\ pc[r] = "adminMark"
    /\ Persist(r, [job[r].rec EXCEPT !.adm = TRUE], "adminPhase")

AdminPhase(r) ==
    /\ pc[r] = "adminPhase"
    /\ Persist(r, [job[r].rec EXCEPT !.phase = "admin-removed"], "finalize")

\* finalizeSelfLeave: cleanupSpaceLocally deletes the keys of the space.
Finalize(r) ==
    /\ pc[r] = "finalize"
    /\ left' = TRUE
    /\ key' = [g \in Gen |-> None] /\ cap' = [g \in Gen |-> None] /\ cur' = -1
    /\ Goto(r, "cleanup", job[r])
    /\ UNCHANGED <<store, broker, member, declared, recorded, sent, theirs, minted, bounds>>

Cleanup(r) ==
    /\ pc[r] = "cleanup"
    /\ Persist(r, [job[r].rec EXCEPT !.phase = "local-cleanup"], "complete")

Complete(r) ==
    /\ pc[r] = "complete"
    /\ Persist(r, [job[r].rec EXCEPT !.phase = "complete"], "delete")

\* deleteOwnStaging: the record of a newer removal stays.
Delete(r) ==
    /\ pc[r] = "delete"
    /\ LET d == job[r].did IN
       store' = IF Matches(store[d], job[r].rec) THEN [store EXCEPT ![d] = None] ELSE store
    /\ Stop(r)
    /\ UNCHANGED <<broker, keys, space, theirs, minted, bounds>>

\* The tab of a run is closed, or the browser is.
Crash(r) ==
    /\ pc[r] # "idle" /\ faults < MaxFaults
    /\ faults' = faults + 1
    /\ Stop(r)
    /\ UNCHANGED <<store, broker, keys, space, theirs, minted, foreign, reinvites>>

-----------------------------------------------------------------------------
(* The others.                                                              *)

\* Another admin who holds the present key runs the same workflow.
ForeignRotate ==
    /\ foreign < MaxForeign /\ bgen < MaxGen /\ minted < MaxMint
    /\ installed[bgen] \in theirs \/ <<bgen, installed[bgen]>> \in sent
    /\ installed' = [installed EXCEPT ![bgen + 1] = minted + 1]
    /\ bgen' = bgen + 1
    /\ theirs' = theirs \cup {minted + 1}
    /\ minted' = minted + 1 /\ foreign' = foreign + 1
    /\ UNCHANGED <<store, admin, keys, space, faults, reinvites, pc, job>>

\* applyKeyRotation: the rotation that follows the current generation is
\* applied; a later one is buffered until then.
ReceiveRotation ==
    /\ ~left /\ cur >= 0 /\ cur < bgen
    /\ installed[cur + 1] \in theirs
    /\ key' = [key EXCEPT ![cur + 1] = installed[cur + 1]]
    /\ cap' = [cap EXCEPT ![cur + 1] = installed[cur + 1]]
    /\ cur' = cur + 1
    /\ UNCHANGED <<store, broker, space, theirs, minted, bounds, pc, job>>

\* A member that is no admin leaves: its event names the next generation.
SelfLeave(d) ==
    /\ ~left /\ cur >= 0 /\ cur < MaxGen
    /\ d \in member \ {Owner} /\ declared[d] = 0
    /\ declared' = [declared EXCEPT ![d] = cur + 1]
    /\ member' = member \ {d}
    /\ UNCHANGED <<store, broker, keys, left, recorded, sent, theirs, minted, bounds, pc, job>>

\* addMember of a removed identity: the device rotates until its generation
\* is above every removal of that identity; the broker is not told.
RemovalGenerations(d) == {e.gen : e \in {f \in recorded : f.did = d}} \cup ({declared[d]} \ {0})

ReInvite(d) ==
    /\ reinvites < MaxReInvites
    /\ ~left /\ cur >= 0 /\ d \notin member
    /\ \E top \in Gen :
         /\ top >= cur
         /\ top = cur \/ top - 1 \in RemovalGenerations(d)
         /\ \A g \in RemovalGenerations(d) : g < top
         /\ minted + (top - cur) <= MaxMint
         /\ LET new == [g \in Gen |-> IF g > cur /\ g <= top THEN minted + (g - cur) ELSE key[g]]
            IN /\ key' = new
               /\ cap' = [g \in Gen |-> IF g > cur /\ g <= top THEN new[g] ELSE cap[g]]
               /\ sent' = sent \cup {<<g, new[g]>> : g \in cur + 1 .. top}
         /\ cur' = top
         /\ minted' = minted + (top - cur)
    /\ member' = member \cup {d}
    /\ reinvites' = reinvites + 1
    /\ UNCHANGED <<store, broker, left, declared, recorded, theirs, faults, foreign, pc, job>>

-----------------------------------------------------------------------------
Local(r) ==
    \/ Stage(r) \/ Put(r) \/ Replace(r) \/ Bind(r) \/ Mark(r)
    \/ Gap(r) \/ Taken(r) \/ Confirm(r) \/ AssertMaterial(r)
    \/ Commit(r) \/ SaveKey(r) \/ SaveCap(r) \/ Committed(r)
    \/ AdminMark(r) \/ AdminPhase(r) \/ Finalize(r)
    \/ Cleanup(r) \/ Complete(r) \/ Delete(r)

Remote(r) == RotateAnswered(r) \/ EffectsDone(r) \/ AdminAnswered(r)

Fail(r) == RotateLost(r) \/ EffectsFail(r) \/ AdminLost(r) \/ Crash(r)

Next ==
    \/ \E r \in Run : Local(r) \/ Remote(r) \/ Fail(r)
    \/ \E r \in Run, d \in Did : RemoveMember(r, d) \/ Enforce(r, d) \/ Recover(r, d)
    \/ \E d \in Did : SelfLeave(d) \/ ReInvite(d)
    \/ ForeignRotate \/ ReceiveRotation

Spec == Init /\ [][Next]_vars

Of(r, d) == job[r] # None /\ job[r].did = d

\* A run goes on, unanswered frames are sent again, and a recovery pass comes
\* with every start and reconnect.
Fairness ==
    /\ \A r \in Run : WF_vars(Local(r))
    /\ \A r \in Run, d \in Did : SF_vars(Of(r, d) /\ Remote(r)) /\ SF_vars(Recover(r, d))
    /\ WF_vars(ReceiveRotation)

FairSpec == Spec /\ Fairness

-----------------------------------------------------------------------------
(* Type correctness.                                                        *)
TypeOK ==
    /\ store \in [Did -> Record \cup {None}]
    /\ installed \in [Gen -> Nat \cup {None}] /\ bgen \in Gen /\ admin \in BOOLEAN
    /\ key \in [Gen -> Nat \cup {None}] /\ cap \in [Gen -> Nat \cup {None}]
    /\ cur \in -1 .. MaxGen
    /\ left \in BOOLEAN /\ member \subseteq Did /\ declared \in [Did -> Gen]
    /\ recorded \subseteq [did : Did, gen : Nat, mat : Nat]
    /\ sent \subseteq Nat \X Nat /\ theirs \subseteq Nat
    /\ minted \in Nat /\ faults \in Nat /\ foreign \in Nat /\ reinvites \in Nat
    /\ pc \in [Run -> Pc] /\ job \in [Run -> Job \cup {None}]
    /\ \A r \in Run :
         IF pc[r] = "idle" THEN job[r] = None
         ELSE job[r] \in Job /\ (pc[r] # "stage" => job[r].rec \in Record)

(* secure-removal-workflow.ts, the enforcement gate: a removal is recorded   *)
(* and a staged key activated only with the very material that the broker    *)
(* has installed for its generation, whatever other observers, admins and    *)
(* old records interfere.                                                    *)
RecordedIsEnforced ==
    \A e \in recorded : e.gen <= bgen /\ installed[e.gen] = e.mat

(* markBrokerConfirmed: the confirmation in a record that has an identity    *)
(* covers the material of that record.                                       *)
ConfirmedIsInstalled ==
    \A d \in Did : store[d] # None /\ store[d].sid # 0 /\ store[d].conf =>
        store[d].gen <= bgen /\ installed[store[d].gen] = store[d].mat

(* deletePendingRemoval: a record goes only when its own removal has been    *)
(* recorded, or when another admin's rotation has fulfilled it; a newer      *)
(* staging under the same key is never taken along.                          *)
NoRemovalForgotten ==
    [][\A d \in Did : store[d] # None /\ store'[d] = None =>
        LET rec == store[d] IN
        \/ \E e \in recorded : e.did = d /\ e.gen = rec.gen /\ e.mat = rec.mat
        \/ rec.kind = "canonical" /\ bgen >= rec.gen]_vars

(* finalizeSelfLeave: a departing admin deletes its keys only after its      *)
(* removal is in the log and the broker has taken its authority.             *)
LeftIsHandedBack == left => ~admin /\ \E e \in recorded : e.did = Owner

\* The removal can never be finished: its generation is passed or has another
\* key or capability locally, or the device is ahead of the broker, or the
\* space is gone.
Wedged(d) ==
    \/ cur > bgen
    \/ /\ store[d].conf /\ store[d].phase \in {"staged", "broker-confirmed"}
       /\ \/ cur > store[d].gen
          \/ cur = store[d].gen /\ (key[cur] # store[d].mat \/ cap[cur] \notin {None, store[d].mat})
    \/ left

\* A run needs material or a generation beyond the bounds of the instance.
AtBound ==
    \E r \in Run :
        \/ pc[r] \in {"stage", "gap", "taken"} /\ (minted = MaxMint \/ cur = MaxGen)
        \/ pc[r] = "bind" /\ job[r].rec.sid = 0 /\ minted = MaxMint

(* VE-C3: a staged removal ends under recovery, once the broker answers.     *)
RemovalEnds ==
    \A d \in Did : store[d] # None ~> store[d] = None \/ Wedged(d) \/ AtBound

=============================================================================
