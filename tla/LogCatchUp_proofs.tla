-------------------------- MODULE LogCatchUp_proofs --------------------------
(***************************************************************************)
(* Safety of LogCatchUp for every set of devices, entries and runs, every  *)
(* page size and every soft-skip threshold.                                *)
(*                                                                         *)
(* TypeOK and OneRunPerConnection are inductive together.  The action      *)
(* properties need what a run remembers: its page is the one the broker    *)
(* cuts for its cursor, the cursor is not above what is stored, and after  *)
(* the apply everything on the page is stored, buffered or foreign.        *)
(***************************************************************************)
EXTENDS LogCatchUp, FiniteSetTheorems, WellFoundedInduction, TLAPS

-----------------------------------------------------------------------------
(* What the heads of SyncHeads are, for every finite set S of sequence       *)
(* numbers (S \subseteq 0 .. N) and every set F of skipped holes.  The heads *)
(* are defined with CHOOSE; that the chosen number exists follows from the   *)
(* well-foundedness of the natural numbers.                                  *)

\* A nonempty set of naturals has a least element.
LEMMA LeastNat ==
    ASSUME NEW S, S \subseteq Nat, S # {}
    PROVE  \E m \in S : \A k \in S : m <= k
<1>1. PICK m \in S : \A y \in S : ~(<<y, m>> \in OpToRel(<, Nat))
    BY WFMin, NatLessThanWellFounded
<1>2. \A y \in S : <<y, m>> \in OpToRel(<, Nat) <=> y < m
    BY <1>1 DEF OpToRel
<1>3. \A y \in S : ~(y < m)
    BY <1>1, <1>2
<1>4. m \in Nat /\ \A y \in S : y \in Nat
    OBVIOUS
<1>5. \A y \in S : m <= y
    BY <1>3, <1>4
<1> QED  BY <1>5

\* A nonempty set of naturals below N has a greatest element.
LEMMA GreatestNat ==
    ASSUME NEW N \in Nat, NEW S, S \subseteq 0 .. N, S # {}
    PROVE  \E m \in S : \A k \in S : k <= m
<1> DEFINE T == {n \in Nat : \A k \in S : k <= n}
<1>1. N \in T  OBVIOUS
<1>2. PICK m \in T : \A k \in T : m <= k
    BY <1>1, LeastNat
<1>3. m \in S
  <2> SUFFICES ASSUME m \notin S PROVE FALSE  OBVIOUS
  <2>1. PICK k \in S : TRUE  OBVIOUS
  <2>2. m - 1 \in T
      BY <2>1
  <2> QED  BY <2>2, <1>2
<1> QED  BY <1>3, <1>2

\* getKnownHeads returns the largest stored number, or -1.
LEMMA KnownHeadIs ==
    ASSUME NEW N \in Nat, NEW S, S \subseteq 0 .. N
    PROVE  /\ KnownHead(S) \in S \cup {-1}
           /\ KnownHead(S) \in -1 .. N
           /\ S # {} => KnownHead(S) \in S
           /\ \A k \in S : k <= KnownHead(S)
<1>1. CASE S = {}  BY <1>1 DEF KnownHead
<1>2. CASE S # {}
  <2>1. \E n \in S : \A m \in S : m <= n
      BY <1>2, GreatestNat
  <2>2. /\ KnownHead(S) \in S
        /\ \A m \in S : m <= KnownHead(S)
      BY <1>2, <2>1 DEF KnownHead
  <2>3. KnownHead(S) \in 0 .. N
      BY <2>2
  <2> QED  BY <2>2, <2>3
<1> QED  BY <1>1, <1>2

\* strictContiguousHead returns the number below the first hole.
THEOREM StrictHeadIs ==
    ASSUME NEW N \in Nat, NEW S, S \subseteq 0 .. N
    PROVE  /\ StrictHead(S) \in -1 .. N
           /\ 0 .. StrictHead(S) \subseteq S
           /\ StrictHead(S) + 1 \notin S
<1> DEFINE T == Nat \ S
<1>1. N + 1 \in T  OBVIOUS
<1>2. PICK m \in T : \A k \in T : m <= k
    BY <1>1, LeastNat
<1>3. /\ m - 1 \in S \cup {-1}
      /\ 0 .. (m - 1) \subseteq S
      /\ (m - 1) + 1 \notin S
    BY <1>2
<1>4. /\ StrictHead(S) \in S \cup {-1}
      /\ 0 .. StrictHead(S) \subseteq S /\ StrictHead(S) + 1 \notin S
    BY <1>3 DEF StrictHead
<1>5. StrictHead(S) \in -1 .. N
  <2>1. CASE StrictHead(S) \in S
    <3>1. StrictHead(S) \in 0 .. N  BY <2>1
    <3> QED  BY <3>1
  <2>2. CASE StrictHead(S) = -1  BY <2>2
  <2> QED  BY <2>1, <2>2, <1>4
<1> QED  BY <1>4, <1>5

\* The wire cursor sits below a hole where it has to stop, and every earlier
\* hole is skipped.
LEMMA WireHeadIs ==
    ASSUME NEW N \in Nat, NEW S, S \subseteq 0 .. N, NEW F
    PROVE  /\ WireHead(S, F) + 1 \in HoleStarts(S)
           /\ WireHead(S, F) \in -1 .. KnownHead(S)
           /\ WireHead(S, F) \in -1 .. N
           /\ \A h \in HoleStarts(S) : h <= WireHead(S, F) => h \in F
<1> DEFINE stops == {h \in HoleStarts(S) : h \notin F \/ \A m \in S : m < h}
           top   == KnownHead(S) + 1
<1>1. KnownHead(S) \in -1 .. N /\ KnownHead(S) \in S \cup {-1} /\ \A k \in S : k <= KnownHead(S)
    BY KnownHeadIs
<1>2. HoleStarts(S) \subseteq Nat
    BY DEF HoleStarts
<1>3. top \in stops
    BY <1>1 DEF HoleStarts
<1>4. \E h \in stops : \A k \in stops : h <= k
    BY <1>2, <1>3, LeastNat
<1>5. PICK h : h = (CHOOSE i \in stops : \A k \in stops : i <= k)  OBVIOUS
<1>6. h \in stops /\ \A k \in stops : h <= k
    BY <1>4, <1>5
<1>7. WireHead(S, F) = h - 1
    BY <1>5 DEF WireHead
<1>8. h \in Nat /\ h <= top
    BY <1>6, <1>3, <1>2
<1>9. WireHead(S, F) + 1 = h
    BY <1>7, <1>8
<1>10. ASSUME NEW g \in HoleStarts(S), g <= WireHead(S, F) PROVE g \in F
  <2>1. g \in Nat /\ g < h
      BY <1>10, <1>7, <1>8, <1>2
  <2>2. g \notin stops
      BY <2>1, <1>6, <1>8
  <2> QED  BY <2>2, <1>10
<1> QED  BY <1>1, <1>6, <1>7, <1>8, <1>9, <1>10

\* getSyncRequestHeads: the cursor lies between the strict head and the
\* largest stored number, and passes a missing number only when it lies in a
\* hole that was declared skipped.  Nothing else is ever hidden from the
\* broker.
THEOREM CursorPassesOnlySkippedHoles ==
    ASSUME NEW N \in Nat, NEW S, S \subseteq 0 .. N, NEW F
    PROVE  /\ StrictHead(S) <= WireHead(S, F)
           /\ WireHead(S, F) <= KnownHead(S)
           /\ \A n \in 0 .. WireHead(S, F) :
                 n \notin S => \E f \in F : f \in 0 .. n /\ f .. n \cap S = {}
<1>1. /\ WireHead(S, F) + 1 \in HoleStarts(S)
      /\ WireHead(S, F) \in -1 .. KnownHead(S)
      /\ WireHead(S, F) \in -1 .. N
      /\ \A h \in HoleStarts(S) : h <= WireHead(S, F) => h \in F
    BY WireHeadIs
<1>2. /\ StrictHead(S) \in -1 .. N
      /\ 0 .. StrictHead(S) \subseteq S
    BY StrictHeadIs
<1>3. StrictHead(S) <= WireHead(S, F)
  <2>1. WireHead(S, F) + 1 \notin S
      BY <1>1 DEF HoleStarts
  <2> QED  BY <2>1, <1>1, <1>2
<1>4. ASSUME NEW n \in 0 .. WireHead(S, F), n \notin S
      PROVE  \E f \in F : f \in 0 .. n /\ f .. n \cap S = {}
  <2> DEFINE T == {f \in Nat : f <= n /\ f .. n \cap S = {}}
  <2>1. n \in Nat /\ n <= WireHead(S, F)
      BY <1>1, <1>4
  <2>2. n \in T
      BY <2>1, <1>4
  <2>3. PICK f \in T : \A k \in T : f <= k
      BY <2>2, LeastNat
  <2>4. f \in Nat /\ f <= n /\ f .. n \cap S = {}
      BY <2>3
  <2>5. f \notin S
      BY <2>4, <2>1
  <2>6. CASE f = 0
    <3>1. f \in HoleStarts(S)
        BY <2>5, <2>6 DEF HoleStarts
    <3> QED  BY <3>1, <2>4, <2>1, <1>1
  <2>7. CASE f # 0
    <3>1. f - 1 \in Nat /\ f - 1 \notin T
        BY <2>7, <2>4, <2>3
    <3>2. (f - 1) .. n \cap S # {}
        BY <3>1, <2>4, <2>1
    <3>3. f - 1 \in S
        BY <3>2, <2>4, <2>1
    <3>4. f \in HoleStarts(S)
        BY <3>3, <2>5, <2>4 DEF HoleStarts
    <3> QED  BY <3>4, <2>4, <2>1, <1>1
  <2> QED  BY <2>6, <2>7
<1> QED  BY <1>1, <1>3, <1>4

-----------------------------------------------------------------------------
(* The inductive invariant.                                                  *)

\* What a run remembers.
RunInv(r) ==
    /\ mem[r].page.entries \subseteq broker /\ mem[r].page.at \subseteq broker
    /\ phase[r] = "repair" => mem[r].todo # {}
    /\ phase[r] \in {"wait", "page", "gaps"} =>
          \A d \in Device : mem[r].cursor[d] <= KnownHeads(have)[d]
    /\ phase[r] \in {"page", "gaps"} => mem[r].page = Cut(mem[r].page.at, mem[r].cursor)
    /\ phase[r] = "gaps" => mem[r].page.entries \subseteq have \cup blocked \cup Foreign

MemInv ==
    /\ \A p \in late : p.entries \subseteq broker
    /\ \A r \in Run : RunInv(r)

IInv == TypeOK /\ OneRunPerConnection /\ MemInv

-----------------------------------------------------------------------------
(* Heads and pages.                                                          *)

LEMMA HeadsType ==
    ASSUME NEW es, NEW gs
    PROVE  /\ KnownHeads(es) \in Heads /\ StrictHeads(es) \in Heads
           /\ WireHeads(es, gs) \in Heads
           /\ \A d \in Device : WireHeads(es, gs)[d] <= KnownHeads(es)[d]
<1>1. MaxSeq \in Nat  BY CatchUpAssumption
<1>2. ASSUME NEW d \in Device
      PROVE  /\ KnownHead(Seqs(es, d)) \in -1 .. MaxSeq
             /\ StrictHead(Seqs(es, d)) \in -1 .. MaxSeq
             /\ WireHead(Seqs(es, d), Skips(gs, d)) \in -1 .. MaxSeq
             /\ WireHead(Seqs(es, d), Skips(gs, d)) <= KnownHead(Seqs(es, d))
  <2>1. Seqs(es, d) \subseteq 0 .. MaxSeq  BY DEF Seqs
  <2>2. KnownHead(Seqs(es, d)) \in -1 .. MaxSeq  BY <1>1, <2>1, KnownHeadIs
  <2>3. StrictHead(Seqs(es, d)) \in -1 .. MaxSeq  BY <1>1, <2>1, StrictHeadIs
  <2>4. WireHead(Seqs(es, d), Skips(gs, d)) \in -1 .. MaxSeq  BY <1>1, <2>1, WireHeadIs
  <2>5. WireHead(Seqs(es, d), Skips(gs, d)) <= KnownHead(Seqs(es, d))
      BY <1>1, <2>1, CursorPassesOnlySkippedHoles
  <2> QED  BY <2>2, <2>3, <2>4, <2>5
<1> QED  BY <1>2 DEF KnownHeads, StrictHeads, WireHeads, Heads

LEMMA BelowCursorIsSkipped ==
    ASSUME NEW N \in Nat, NEW S, S \subseteq 0 .. N, NEW F,
           NEW n \in 0 .. WireHead(S, F), n \notin S
    PROVE  \E f \in F : f \in 0 .. n
<1>1. \A m \in 0 .. WireHead(S, F) :
         m \notin S => \E f \in F : f \in 0 .. m /\ f .. m \cap S = {}
    BY CursorPassesOnlySkippedHoles
<1> QED  BY <1>1

\* What is stored only raises the known heads.
LEMMA KnownHeadsGrow ==
    ASSUME NEW es, NEW fs, es \subseteq fs
    PROVE  \A d \in Device : KnownHeads(es)[d] <= KnownHeads(fs)[d]
<1> SUFFICES ASSUME NEW d \in Device
             PROVE  KnownHead(Seqs(es, d)) <= KnownHead(Seqs(fs, d))
    BY DEF KnownHeads
<1>1. MaxSeq \in Nat  BY CatchUpAssumption
<1>2. Seqs(es, d) \subseteq Seqs(fs, d) /\ Seqs(fs, d) \subseteq 0 .. MaxSeq  BY DEF Seqs
<1>3. /\ KnownHead(Seqs(es, d)) \in Seqs(es, d) \cup {-1}
      /\ KnownHead(Seqs(fs, d)) \in -1 .. MaxSeq
      /\ \A k \in Seqs(fs, d) : k <= KnownHead(Seqs(fs, d))
    BY <1>1, <1>2, KnownHeadIs
<1>4. CASE KnownHead(Seqs(es, d)) \in Seqs(es, d)  BY <1>2, <1>3, <1>4
<1>5. CASE KnownHead(Seqs(es, d)) = -1  BY <1>3, <1>5
<1> QED  BY <1>3, <1>4, <1>5

LEMMA CutType ==
    ASSUME NEW log, log \subseteq Entry, NEW c
    PROVE  /\ Cut(log, c) \in Page
           /\ Cut(log, c).entries \subseteq log
           /\ Cut(log, c).at = log
    BY DEF Cut, Page

\* A page shows the entries of a device without leaving one out.
LEMMA CutHasNoHoles ==
    ASSUME NEW log, log \subseteq Entry, NEW c \in Heads,
           NEW e \in log, NEW f \in Cut(log, c).entries,
           e[1] = f[1], e[2] < f[2], e[2] > c[e[1]]
    PROVE  e \in Cut(log, c).entries
<1> DEFINE missing == {x \in log : x[2] > c[x[1]]}
           below(x) == {y \in missing : Before(y, x)}
<1>1. /\ f \in missing /\ e \in missing /\ Cardinality(below(f)) < Limit
      /\ Cut(log, c).entries = {x \in missing : Cardinality(below(x)) < Limit}
    BY DEF Cut
<1>2. below(e) \subseteq below(f)
  <2> SUFFICES ASSUME NEW x \in missing, Before(x, e) PROVE Before(x, f)  OBVIOUS
  <2>1. x \in Device \X (0 .. MaxSeq) /\ e \in Device \X (0 .. MaxSeq) /\ f \in Device \X (0 .. MaxSeq)
      BY <1>1, CatchUpAssumption
  <2>2. x[2] \in Int /\ e[2] \in Int /\ f[2] \in Int
      BY <2>1, CatchUpAssumption
  <2> QED  BY <2>2 DEF Before
<1>3. IsFiniteSet(below(f))
  <2>1. below(f) \subseteq Entry  OBVIOUS
  <2> QED  BY <2>1, CatchUpAssumption, FS_Subset
<1>4. /\ Cardinality(below(e)) <= Cardinality(below(f))
      /\ Cardinality(below(e)) \in Nat /\ Cardinality(below(f)) \in Nat
    BY <1>2, <1>3, FS_Subset, FS_CardinalityType
<1>5. Cardinality(below(e)) < Limit  BY <1>1, <1>4, CatchUpAssumption
<1> QED  BY <1>1, <1>5

\* A page that is not truncated shows everything above the cursor.
LEMMA LastPageIsComplete ==
    ASSUME NEW log, log \subseteq Entry, NEW c \in Heads, ~Cut(log, c).truncated,
           NEW e \in log, e[2] > c[e[1]]
    PROVE  e \in Cut(log, c).entries
<1> DEFINE missing == {x \in log : x[2] > c[x[1]]}
           below == {y \in missing : Before(y, e)}
<1>1. /\ e \in missing /\ ~(Cardinality(missing) > Limit)
      /\ Cut(log, c).entries = {x \in missing : Cardinality({y \in missing : Before(y, x)}) < Limit}
    BY DEF Cut
<1>2. e \notin below
  <2>1. e \in Device \X (0 .. MaxSeq)  BY CatchUpAssumption
  <2>2. e[1] \in Device /\ e[2] \in Int  BY <2>1, CatchUpAssumption
  <2>3. Rank[e[1]] \in Nat  BY <2>2, CatchUpAssumption
  <2> QED  BY <2>2, <2>3 DEF Before
<1>3. below \subseteq missing \ {e}  BY <1>2
<1>4. IsFiniteSet(missing)
  <2>1. missing \subseteq Entry  OBVIOUS
  <2> QED  BY <2>1, CatchUpAssumption, FS_Subset
<1>5. /\ IsFiniteSet(missing \ {e})
      /\ Cardinality(missing \ {e}) = Cardinality(missing) - 1
    BY <1>1, <1>4, FS_RemoveElement
<1>6. /\ Cardinality(below) <= Cardinality(missing \ {e})
      /\ Cardinality(below) \in Nat /\ Cardinality(missing) \in Nat
    BY <1>3, <1>4, <1>5, FS_Subset, FS_CardinalityType
<1>7. Cardinality(below) < Limit  BY <1>1, <1>5, <1>6, CatchUpAssumption
<1> QED  BY <1>1, <1>7

-----------------------------------------------------------------------------
(* What the helpers of the actions keep.                                     *)

\* Applying entries of the broker: what is stored grows, nothing on the way
\* is lost, gaps only go away.
LEMMA ApplyKeeps ==
    ASSUME TypeOK, NEW es, es \subseteq broker, Apply(es)
    PROVE  /\ have \subseteq have' /\ have' \subseteq broker \ Foreign
           /\ blocked' \subseteq (broker \cap Locked) \ have'
           /\ keyed => blocked' = {}
           /\ gaps' \subseteq gaps
           /\ have \cup blocked \subseteq have' \cup blocked'
           /\ es \subseteq have' \cup blocked' \cup Foreign
           /\ \A d \in Device : KnownHeads(have)[d] <= KnownHeads(have')[d]
<1> DEFINE Goal == /\ have' \subseteq broker \ Foreign
                   /\ blocked' \subseteq (broker \cap Locked) \ have'
                   /\ keyed => blocked' = {}
                   /\ have \cup blocked \subseteq have' \cup blocked'
                   /\ es \subseteq have' \cup blocked' \cup Foreign
<1>1. ASSUME keyed PROVE Goal  BY <1>1, CatchUpAssumption DEF TypeOK, Apply, Fresh, NoKey
<1>2. ASSUME ~keyed PROVE Goal  BY <1>2, CatchUpAssumption DEF TypeOK, Apply, Fresh, NoKey
<1>3. have \subseteq have' /\ gaps' \subseteq gaps  BY DEF Apply, Resolved
<1>4. \A d \in Device : KnownHeads(have)[d] <= KnownHeads(have')[d]
    BY <1>3, KnownHeadsGrow
<1> QED  BY <1>1, <1>2, <1>3, <1>4

\* A gap goes away only when its first entry is stored.
LEMMA ResolvedMeansStored ==
    ASSUME NEW gs, NEW es, NEW ds, NEW g \in gs, g \notin Resolved(gs, es, ds)
    PROVE  <<g.dev, g.first>> \in es
    BY DEF Resolved, Filled

LEMMA BlankType == Blank \in Mem
<1>1. -1 \in -1 .. MaxSeq  BY CatchUpAssumption
<1> QED  BY <1>1 DEF Blank, Mem, Heads, Page

\* A step of driveGapRepairs.
LEMMA RepairKeeps ==
    ASSUME TypeOK, NEW r \in Run, NEW known \in Heads,
           NEW todo \in SUBSET (Device \X (0 .. MaxSeq + 1)), Repair(r, known, todo)
    PROVE  /\ phase' \in [Run -> Phase] /\ mem' \in [Run -> Mem]
           /\ phase'[r] \in {"repair", "present"}
           /\ phase'[r] = "repair" => mem'[r].todo # {}
           /\ mem'[r].page = Blank.page
           /\ \A s \in Run \ {r} : phase'[s] = phase[s] /\ mem'[s] = mem[s]
<1>1. CASE todo = {}
    BY <1>1, BlankType DEF TypeOK, Repair, Goto, Phase
<1>2. CASE todo # {}
  <2> DEFINE h == RepairHeads(known, todo)
             m == [Blank EXCEPT !.todo = todo, !.base = known, !.cursor = h]
  <2>1. NextGap(todo) \in Device \X (0 .. MaxSeq + 1)
      BY <1>2 DEF NextGap
  <2>2. NextGap(todo)[2] - 1 \in -1 .. MaxSeq
      BY <2>1, CatchUpAssumption
  <2>3. h \in Heads
      BY <2>1, <2>2 DEF RepairHeads, Heads
  <2>4. m \in Mem /\ m.todo = todo /\ m.page = Blank.page
      BY <2>3, BlankType DEF Mem, Blank
  <2>5. Goto(r, "repair") /\ mem' = [mem EXCEPT ![r] = m]
      BY <1>2 DEF Repair
  <2> HIDE DEF m
  <2> QED  BY <1>2, <2>4, <2>5 DEF TypeOK, Goto, Phase
<1> QED  BY <1>1, <1>2

\* recordGapsFromPage writes gaps of the right form.
LEMMA RecordedType ==
    ASSUME TypeOK, NEW r \in Run
    PROVE  Recorded(r) \subseteq Gap
<1>1. ASSUME NEW d \in Device PROVE Observed(d, mem[r].cursor[d] + 1) \in Gap
  <2>1. mem[r].cursor[d] \in -1 .. MaxSeq  BY DEF TypeOK, Mem, Heads
  <2>2. mem[r].cursor[d] + 1 \in 0 .. MaxSeq + 1  BY <2>1, CatchUpAssumption
  <2> DEFINE same == {g \in gaps : g.dev = d /\ g.first = mem[r].cursor[d] + 1}
  <2>3. {epoch} \cup UNION {g.epochs : g \in same} \subseteq 0 .. Epochs - 1
      BY DEF TypeOK, Gap
  <2> QED  BY <2>2, <2>3 DEF Observed, Gap
<1>2. \A d \in MissingOnPage(r) : d \in Device  BY DEF MissingOnPage
<1> QED  BY <1>1, <1>2 DEF Recorded, TypeOK

\* The end of a run.
LEMMA FinishKeeps ==
    ASSUME TypeOK, OneRunPerConnection, NEW r \in Run, NEW b \in BOOLEAN, Finish(r, b)
    PROVE  /\ phase' \in [Run -> Phase] /\ mem' \in [Run -> Mem]
           /\ cur' \subseteq Run /\ waiting' \subseteq Run
           /\ catchingUp' \in BOOLEAN /\ inFlight' \in Run \cup {None} /\ active' \in Nat
           /\ busy' \in BOOLEAN /\ out' \in BOOLEAN
           /\ OneRunPerConnection'
           /\ phase'[r] = "idle" /\ mem'[r] = Blank
           /\ \A s \in Run \ {r} : phase'[s] = phase[s] /\ mem'[s] = mem[s]
<1>1. /\ phase' \in [Run -> Phase] /\ phase'[r] = "idle"
      /\ \A s \in Run \ {r} : phase'[s] = phase[s]
    BY DEF TypeOK, Finish, Goto, Phase
<1>2. /\ mem' \in [Run -> Mem] /\ mem'[r] = Blank
      /\ \A s \in Run \ {r} : mem'[s] = mem[s]
    BY BlankType DEF TypeOK, Finish
<1>3. cur' = cur \ {r} /\ cur' \subseteq Run /\ waiting' \subseteq Run
    BY DEF TypeOK, Finish
<1>4. catchingUp' \in BOOLEAN /\ inFlight' \in Run \cup {None}
    BY DEF TypeOK, Finish, Release
<1>5. busy' \in BOOLEAN /\ out' \in BOOLEAN
    BY DEF TypeOK, Finish
<1>6. CASE r \in cur
  <2>1. cur = {r} /\ active = 1  BY <1>6 DEF OneRunPerConnection
  <2>2. cur' = {} /\ active' = 0  BY <1>3, <1>6, <2>1 DEF Finish
  <2> QED  BY <2>2, <1>1, <1>2, <1>3, <1>4, <1>5 DEF OneRunPerConnection
<1>7. CASE r \notin cur
  <2>1. cur' = cur /\ active' = active  BY <1>3, <1>7 DEF Finish
  <2>2. \A s \in cur : s # r /\ catchingUp' /\ inFlight' = s
      BY <1>7 DEF OneRunPerConnection, Finish, Release
  <2>3. \A s \in cur : phase'[s] # "idle"
      BY <1>1, <2>2 DEF OneRunPerConnection, TypeOK
  <2>4. active' \in Nat  BY <2>1 DEF TypeOK
  <2>5. OneRunPerConnection'  BY <2>1, <2>2, <2>3 DEF OneRunPerConnection
  <2> QED  BY <2>4, <2>5, <1>1, <1>2, <1>3, <1>4, <1>5
<1> QED  BY <1>6, <1>7

\* A run that a step does not touch keeps what it remembers, as long as
\* nothing is taken away from the broker and the store.
LEMMA Undisturbed ==
    ASSUME IInv, NEW s \in Run, phase'[s] = phase[s], mem'[s] = mem[s],
           broker \subseteq broker', have \subseteq have',
           have \cup blocked \subseteq have' \cup blocked'
    PROVE  RunInv(s)'
<1>1. RunInv(s)  BY DEF IInv, MemInv
<1>2. ASSUME phase[s] \in {"wait", "page", "gaps"}, NEW d \in Device
      PROVE  mem[s].cursor[d] <= KnownHeads(have')[d]
  <2>1. KnownHeads(have)[d] <= KnownHeads(have')[d]  BY KnownHeadsGrow
  <2>2. mem[s].cursor[d] <= KnownHeads(have)[d]  BY <1>1, <1>2 DEF RunInv
  <2>3. mem[s].cursor[d] \in Int  BY DEF IInv, TypeOK, Mem, Heads
  <2>4. KnownHeads(have) \in Heads /\ KnownHeads(have') \in Heads  BY HeadsType
  <2>5. KnownHeads(have)[d] \in Int /\ KnownHeads(have')[d] \in Int  BY <2>4 DEF Heads
  <2> QED  BY <2>1, <2>2, <2>3, <2>5
<1>3. \A d \in Device : KnownHeads(have)'[d] = KnownHeads(have')[d]  BY DEF KnownHeads, Seqs
<1> QED  BY <1>1, <1>2, <1>3 DEF RunInv, Cut, Before

\* A blank run remembers nothing that could be wrong.
LEMMA BlankRun ==
    ASSUME NEW s \in Run, mem'[s] = Blank,
           phase'[s] \in {"idle", "present", "ask", "report"}
    PROVE  RunInv(s)'
    BY DEF RunInv, Blank

-----------------------------------------------------------------------------
(* Initial states and steps.                                                 *)

LEMMA InitIInv == Init => IInv
<1> SUFFICES ASSUME Init PROVE IInv  OBVIOUS
<1>1. TypeOK
  <2>1. /\ keyed \in BOOLEAN /\ (keyed => blocked = {}) /\ catchingUp \in BOOLEAN
        /\ due \in BOOLEAN /\ busy \in BOOLEAN /\ out \in BOOLEAN
      BY DEF Init
  <2>2. phase \in [Run -> Phase] /\ mem \in [Run -> Mem]
      BY BlankType DEF Init, Phase
  <2>3. epoch \in 0 .. Epochs - 1 /\ active \in Nat
      BY CatchUpAssumption DEF Init
  <2> QED  BY <2>1, <2>2, <2>3 DEF Init, TypeOK
<1>2. OneRunPerConnection
    BY DEF Init, OneRunPerConnection
<1>3. MemInv
    BY DEF Init, MemInv, RunInv, Blank
<1> QED  BY <1>1, <1>2, <1>3 DEF IInv

\* A step that ends a run.
LEMMA EndKeeps ==
    ASSUME IInv, NEW r \in Run, NEW b \in BOOLEAN, Finish(r, b),
           UNCHANGED <<broker, push, have, blocked, gaps, keyed, epoch, due>>,
           \A p \in late' : p \in late \/ (p \in Page /\ p.entries \subseteq broker)
    PROVE  IInv'
<1> USE DEF IInv
<1>1. /\ phase' \in [Run -> Phase] /\ mem' \in [Run -> Mem]
      /\ cur' \subseteq Run /\ waiting' \subseteq Run
      /\ catchingUp' \in BOOLEAN /\ inFlight' \in Run \cup {None} /\ active' \in Nat
      /\ busy' \in BOOLEAN /\ out' \in BOOLEAN
      /\ OneRunPerConnection'
      /\ phase'[r] = "idle" /\ mem'[r] = Blank
      /\ \A s \in Run \ {r} : phase'[s] = phase[s] /\ mem'[s] = mem[s]
    BY FinishKeeps
<1>2. TypeOK'  BY <1>1 DEF TypeOK
<1>3. RunInv(r)'  BY <1>1, BlankRun
<1>4. \A s \in Run \ {r} : RunInv(s)'  BY <1>1, Undisturbed
<1>5. \A p \in late' : p.entries \subseteq broker'  BY DEF MemInv
<1> QED  BY <1>1, <1>2, <1>3, <1>4, <1>5 DEF MemInv

\* Steps of one run.
LEMMA RunStepKeeps ==
    ASSUME IInv, NEW r \in Run, RunStep(r)
    PROVE  IInv'
<1> USE DEF IInv
<1>1. CASE StartCatchUp(r)
  <2> DEFINE todo == {<<g.dev, g.first>> : g \in gaps}
  <2>1. todo \in SUBSET (Device \X (0 .. MaxSeq + 1))  BY DEF TypeOK, Gap
  <2>2. KnownHeads(have) \in Heads  BY HeadsType
  <2>3. Repair(r, KnownHeads(have), todo)  BY <1>1 DEF StartCatchUp
  <2> HIDE DEF todo
  <2>4. /\ phase' \in [Run -> Phase] /\ mem' \in [Run -> Mem]
        /\ phase'[r] \in {"repair", "present"}
        /\ phase'[r] = "repair" => mem'[r].todo # {}
        /\ mem'[r].page = Blank.page
        /\ \A s \in Run \ {r} : phase'[s] = phase[s] /\ mem'[s] = mem[s]
      BY <2>1, <2>2, <2>3, RepairKeeps
  <2>5. cur = {} /\ cur' = {r} /\ active' = 1
      BY <1>1 DEF StartCatchUp, OneRunPerConnection, TypeOK
  <2>6. TypeOK'
    <3>1. /\ due' \in BOOLEAN /\ catchingUp' \in BOOLEAN /\ busy' \in BOOLEAN
          /\ out' \in BOOLEAN /\ inFlight' \in Run \cup {None} /\ active' \in Nat
      <4>1. due' = FALSE /\ catchingUp' = TRUE /\ busy' = TRUE /\ out' = TRUE /\ inFlight' = r
          BY <1>1 DEF StartCatchUp
      <4> QED  BY <4>1, <2>5
    <3>2. UNCHANGED <<broker, push, have, blocked, gaps, keyed, epoch, waiting, late>>
        BY <1>1 DEF StartCatchUp, store
    <3> QED  BY <3>1, <3>2, <2>4, <2>5 DEF TypeOK
  <2>7. OneRunPerConnection'  BY <1>1, <2>4, <2>5 DEF StartCatchUp, OneRunPerConnection
  <2>8. RunInv(r)'  BY <2>4 DEF RunInv, Blank
  <2>9. \A s \in Run \ {r} : RunInv(s)'  BY <1>1, <2>4, Undisturbed DEF StartCatchUp, store
  <2>10. late' = late /\ broker' = broker  BY <1>1 DEF StartCatchUp
  <2> QED  BY <2>6, <2>7, <2>8, <2>9, <2>10 DEF MemInv
<1>2. CASE RepairPage(r)
  <2> DEFINE m == mem[r]
             p == BrokerPage(m.cursor)
             seen == KnownHeads(Noted(p))
             raised == [d \in Device |-> IF seen[d] > m.cursor[d] THEN seen[d] ELSE m.cursor[d]]
  <2>1. m \in Mem /\ RunInv(r) /\ phase[r] = "repair"
      BY <1>2 DEF TypeOK, MemInv, RepairPage
  <2>2. p.entries \subseteq broker
      BY CutType DEF TypeOK, BrokerPage
  <2>3. Apply(p.entries)  BY <1>2 DEF RepairPage
  <2> HIDE DEF p
  <2>4. /\ have \subseteq have' /\ have' \subseteq broker \ Foreign
        /\ blocked' \subseteq (broker \cap Locked) \ have'
        /\ keyed => blocked' = {}
        /\ gaps' \subseteq gaps
        /\ have \cup blocked \subseteq have' \cup blocked'
      BY <2>2, <2>3, ApplyKeeps
  <2>5. seen \in Heads  BY HeadsType
  <2>6. raised \in Heads  BY <2>1, <2>5 DEF Heads, Mem
  <2> HIDE DEF seen
  <2>7. /\ phase' \in [Run -> Phase] /\ mem' \in [Run -> Mem]
        /\ phase'[r] \in {"repair", "present"}
        /\ phase'[r] = "repair" => mem'[r].todo # {}
        /\ mem'[r].page \in {Blank.page, m.page}
        /\ \A s \in Run \ {r} : phase'[s] = phase[s] /\ mem'[s] = mem[s]
    <3>1. CASE Repair(r, m.base, m.todo \ {NextGap(m.todo)})
      <4>1. m.base \in Heads /\ m.todo \ {NextGap(m.todo)} \in SUBSET (Device \X (0 .. MaxSeq + 1))
          BY <2>1 DEF Mem
      <4> QED  BY <3>1, <4>1, RepairKeeps
    <3>2. CASE mem' = [mem EXCEPT ![r] = [m EXCEPT !.cursor = raised]] /\ UNCHANGED phase
      <4>1. [m EXCEPT !.cursor = raised] \in Mem  BY <2>1, <2>6 DEF Mem
      <4>2. [m EXCEPT !.cursor = raised].page = m.page /\ [m EXCEPT !.cursor = raised].todo = m.todo
          BY <2>1 DEF Mem
      <4> HIDE DEF m, raised
      <4> QED  BY <3>2, <4>1, <4>2, <2>1 DEF TypeOK, RunInv, m
    <3> QED  BY <1>2, <3>1, <3>2 DEF RepairPage, p, seen
  <2>8. /\ due' \in BOOLEAN
        /\ UNCHANGED <<broker, push, keyed, epoch, guards, cur, waiting, late>>
      BY <1>2 DEF RepairPage, Calling, TypeOK
  <2>9. TypeOK'  BY <2>4, <2>7, <2>8 DEF TypeOK, guards
  <2>10. OneRunPerConnection'  BY <2>1, <2>7, <2>8 DEF OneRunPerConnection, guards, TypeOK
  <2>11. RunInv(r)'  BY <2>1, <2>7, <2>8 DEF RunInv, Blank
  <2>12. \A s \in Run \ {r} : RunInv(s)'  BY <2>4, <2>7, <2>8, Undisturbed
  <2> QED  BY <2>8, <2>9, <2>10, <2>11, <2>12 DEF MemInv
<1>3. CASE RepairTimeout(r)
  <2> DEFINE m == mem[r]
             todo == m.todo \ {NextGap(m.todo)}
             p == BrokerPage(m.cursor)
  <2>1. m \in Mem /\ phase[r] = "repair" /\ m.base \in Heads
        /\ todo \in SUBSET (Device \X (0 .. MaxSeq + 1))
      BY <1>3 DEF TypeOK, RepairTimeout, Mem
  <2>2. Repair(r, m.base, todo)  BY <1>3 DEF RepairTimeout
  <2>3. p \in Page /\ p.entries \subseteq broker
      BY CutType DEF TypeOK, BrokerPage
  <2>4. late' \subseteq late \cup {p}  BY <1>3 DEF RepairTimeout, Unanswered
  <2>5. UNCHANGED <<broker, push, store, keyed, epoch, guards, cur, waiting, due>>
      BY <1>3 DEF RepairTimeout
  <2> HIDE DEF p, todo
  <2>6. /\ phase' \in [Run -> Phase] /\ mem' \in [Run -> Mem]
        /\ phase'[r] \in {"repair", "present"}
        /\ phase'[r] = "repair" => mem'[r].todo # {}
        /\ mem'[r].page = Blank.page
        /\ \A s \in Run \ {r} : phase'[s] = phase[s] /\ mem'[s] = mem[s]
      BY <2>1, <2>2, RepairKeeps
  <2>7. TypeOK'  BY <2>3, <2>4, <2>5, <2>6 DEF TypeOK, guards, store
  <2>8. OneRunPerConnection'  BY <2>1, <2>5, <2>6 DEF OneRunPerConnection, guards, TypeOK
  <2>9. RunInv(r)'  BY <2>6 DEF RunInv, Blank
  <2>10. \A s \in Run \ {r} : RunInv(s)'  BY <2>5, <2>6, Undisturbed DEF store
  <2> QED  BY <2>3, <2>4, <2>5, <2>7, <2>8, <2>9, <2>10 DEF MemInv
<1>4. CASE PresentFails(r)
  <2>1. Finish(r, TRUE) /\ late' = late  BY <1>4 DEF PresentFails
  <2>2. UNCHANGED <<broker, push, have, blocked, gaps, keyed, epoch, due>>
      BY <1>4 DEF PresentFails, store
  <2> QED  BY <2>1, <2>2, EndKeeps
<1>5. CASE AskPage(r)
  <2> DEFINE m == [Blank EXCEPT !.base = StrictHeads(have), !.cursor = WireHeads(have, gaps)]
  <2>1. /\ StrictHeads(have) \in Heads /\ WireHeads(have, gaps) \in Heads
        /\ \A d \in Device : WireHeads(have, gaps)[d] <= KnownHeads(have)[d]
      BY HeadsType
  <2>2. m \in Mem /\ m.page = Blank.page /\ m.cursor = WireHeads(have, gaps)
      BY <2>1, BlankType DEF Mem, Blank
  <2>3. phase' = [phase EXCEPT ![r] = "wait"] /\ mem' = [mem EXCEPT ![r] = m]
        /\ waiting' = waiting \cup {r}
      BY <1>5 DEF AskPage, Goto
  <2> HIDE DEF m
  <2>4. /\ phase' \in [Run -> Phase] /\ mem' \in [Run -> Mem]
        /\ phase'[r] = "wait" /\ mem'[r] = m
        /\ \A s \in Run \ {r} : phase'[s] = phase[s] /\ mem'[s] = mem[s]
      BY <2>2, <2>3 DEF TypeOK, Phase
  <2>5. UNCHANGED <<broker, push, have, blocked, gaps, keyed, epoch, catchingUp, inFlight,
                    active, busy, out, cur, late, due>>
      BY <1>5 DEF AskPage, store, guards
  <2>6. TypeOK'  BY <2>3, <2>4, <2>5 DEF TypeOK
  <2>7. OneRunPerConnection'  BY <2>4, <2>5 DEF OneRunPerConnection, TypeOK
  <2>8. RunInv(r)'  BY <2>1, <2>2, <2>4, <2>5 DEF RunInv, Blank, KnownHeads, Seqs
  <2>9. \A s \in Run \ {r} : RunInv(s)'  BY <2>4, <2>5, Undisturbed
  <2> QED  BY <2>5, <2>6, <2>7, <2>8, <2>9 DEF MemInv
<1>6. CASE ReceivePage(r)
  <2> DEFINE p == BrokerPage(mem[r].cursor)
             m == [mem[r] EXCEPT !.page = p]
  <2>1. p \in Page /\ p.entries \subseteq broker /\ p.at = broker
      BY CutType DEF TypeOK, BrokerPage
  <2>2. p = Cut(p.at, mem[r].cursor)  BY <2>1 DEF BrokerPage
  <2> HIDE DEF p
  <2>3. m \in Mem /\ m.page = p /\ m.cursor = mem[r].cursor
      BY <2>1 DEF TypeOK, Mem
  <2>4. phase[r] = "wait" /\ phase' = [phase EXCEPT ![r] = "page"]
        /\ mem' = [mem EXCEPT ![r] = m] /\ waiting' = waiting \ {r}
      BY <1>6 DEF ReceivePage, Goto, p
  <2> HIDE DEF m
  <2>5. /\ phase' \in [Run -> Phase] /\ mem' \in [Run -> Mem]
        /\ phase'[r] = "page" /\ mem'[r] = m
        /\ \A s \in Run \ {r} : phase'[s] = phase[s] /\ mem'[s] = mem[s]
      BY <2>3, <2>4 DEF TypeOK, Phase
  <2>6. UNCHANGED <<broker, push, have, blocked, gaps, keyed, epoch, catchingUp, inFlight,
                    active, busy, out, cur, late, due>>
      BY <1>6 DEF ReceivePage, store, guards
  <2>7. TypeOK'  BY <2>4, <2>5, <2>6 DEF TypeOK
  <2>8. OneRunPerConnection'  BY <2>5, <2>6 DEF OneRunPerConnection, TypeOK
  <2>9. \A d \in Device : mem[r].cursor[d] <= KnownHeads(have)[d]
      BY <2>4 DEF MemInv, RunInv
  <2>10. RunInv(r)'
    <3>1. mem'[r].page = Cut(mem'[r].page.at, mem'[r].cursor)
        BY <2>2, <2>3, <2>5
    <3>2. \A d \in Device : mem'[r].cursor[d] <= KnownHeads(have')[d]
        BY <2>9, <2>3, <2>5, <2>6
    <3> QED  BY <3>1, <3>2, <2>1, <2>3, <2>5, <2>6 DEF RunInv, Cut, Before, KnownHeads, Seqs
  <2>11. \A s \in Run \ {r} : RunInv(s)'  BY <2>5, <2>6, Undisturbed
  <2> QED  BY <2>6, <2>7, <2>8, <2>10, <2>11 DEF MemInv
<1>7. CASE TimeOut(r)
  <2> DEFINE p == BrokerPage(mem[r].cursor)
  <2>1. p \in Page /\ p.entries \subseteq broker
      BY CutType DEF TypeOK, BrokerPage
  <2>2. Finish(r, TRUE) /\ late' \subseteq late \cup {p}  BY <1>7 DEF TimeOut, Unanswered
  <2>3. UNCHANGED <<broker, push, have, blocked, gaps, keyed, epoch, due>>
      BY <1>7 DEF TimeOut, store
  <2> HIDE DEF p
  <2> QED  BY <2>1, <2>2, <2>3, EndKeeps
<1>8. CASE ApplyPage(r)
  <2> DEFINE es == mem[r].page.entries
  <2>1. es \subseteq broker /\ RunInv(r)  BY DEF MemInv, RunInv
  <2>2. Apply(es) /\ phase[r] = "page" /\ phase' = [phase EXCEPT ![r] = "gaps"] /\ mem' = mem
      BY <1>8 DEF ApplyPage, Goto
  <2> HIDE DEF es
  <2>3. /\ have \subseteq have' /\ have' \subseteq broker \ Foreign
        /\ blocked' \subseteq (broker \cap Locked) \ have'
        /\ keyed => blocked' = {}
        /\ gaps' \subseteq gaps
        /\ have \cup blocked \subseteq have' \cup blocked'
        /\ es \subseteq have' \cup blocked' \cup Foreign
      BY <2>1, <2>2, ApplyKeeps
  <2>4. /\ phase' \in [Run -> Phase] /\ phase'[r] = "gaps"
        /\ \A s \in Run \ {r} : phase'[s] = phase[s]
      BY <2>2 DEF TypeOK, Phase
  <2>5. due' \in BOOLEAN  BY <1>8 DEF ApplyPage, Calling, TypeOK
  <2>6. UNCHANGED <<broker, push, keyed, epoch, catchingUp, inFlight, active, busy, out,
                    cur, waiting, late>>
      BY <1>8 DEF ApplyPage, guards
  <2>7. TypeOK'  BY <2>2, <2>3, <2>4, <2>5, <2>6 DEF TypeOK
  <2>8. OneRunPerConnection'  BY <2>4, <2>6 DEF OneRunPerConnection, TypeOK
  <2>9. RunInv(r)'
    <3>1. ASSUME NEW d \in Device PROVE mem[r].cursor[d] <= KnownHeads(have')[d]
      <4>1. mem[r].cursor[d] <= KnownHeads(have)[d]  BY <2>1, <2>2 DEF RunInv
      <4>2. KnownHeads(have)[d] <= KnownHeads(have')[d]  BY <2>3, KnownHeadsGrow
      <4>3. KnownHeads(have) \in Heads /\ KnownHeads(have') \in Heads  BY HeadsType
      <4>4. mem[r].cursor[d] \in Int /\ KnownHeads(have)[d] \in Int /\ KnownHeads(have')[d] \in Int
          BY <4>3 DEF TypeOK, Mem, Heads
      <4> QED  BY <4>1, <4>2, <4>4
    <3>2. mem[r].page = Cut(mem[r].page.at, mem[r].cursor)  BY <2>1, <2>2 DEF RunInv
    <3>3. mem[r].page.entries \subseteq have' \cup blocked' \cup Foreign  BY <2>3 DEF es
    <3> QED  BY <3>1, <3>2, <3>3, <2>1, <2>2, <2>4, <2>6
             DEF RunInv, Cut, Before, KnownHeads, Seqs
  <2>10. \A s \in Run \ {r} : RunInv(s)'  BY <2>2, <2>3, <2>4, <2>6, Undisturbed
  <2> QED  BY <2>6, <2>7, <2>8, <2>9, <2>10 DEF MemInv
<1>9. CASE Conclude(r)
  <2>1. gaps' \subseteq Gap  BY <1>9, RecordedType DEF Conclude
  <2>2. UNCHANGED <<broker, push, have, blocked, keyed, epoch, catchingUp, inFlight,
                    active, busy, out, cur, waiting, late, due>>
      BY <1>9 DEF Conclude, guards
  <2>3. PICK b \in BOOLEAN, p \in {"report", "ask"} :
           /\ phase' = [phase EXCEPT ![r] = p]
           /\ mem' = [mem EXCEPT ![r] = IF p = "ask" THEN Blank ELSE [mem[r] EXCEPT !.result = b]]
      BY <1>9 DEF Conclude, Goto
  <2>4. /\ [mem[r] EXCEPT !.result = b] \in Mem
        /\ [mem[r] EXCEPT !.result = b].page = mem[r].page
      BY DEF TypeOK, Mem
  <2>5. /\ phase' \in [Run -> Phase] /\ mem' \in [Run -> Mem] /\ phase'[r] \in {"report", "ask"}
        /\ mem'[r].page \in {mem[r].page, Blank.page}
        /\ \A s \in Run \ {r} : phase'[s] = phase[s] /\ mem'[s] = mem[s]
      BY <2>3, <2>4, BlankType DEF TypeOK, Phase
  <2>6. TypeOK'  BY <2>1, <2>2, <2>5 DEF TypeOK
  <2>7. OneRunPerConnection'  BY <2>2, <2>5 DEF OneRunPerConnection, TypeOK
  <2>8. RunInv(r)'  BY <2>2, <2>5 DEF MemInv, RunInv, Blank
  <2>9. \A s \in Run \ {r} : RunInv(s)'  BY <2>2, <2>5, Undisturbed
  <2> QED  BY <2>2, <2>6, <2>7, <2>8, <2>9 DEF MemInv
<1>10. CASE Report(r)
  <2>1. Finish(r, mem[r].result) /\ mem[r].result \in BOOLEAN /\ late' = late
      BY <1>10 DEF Report, TypeOK, Mem
  <2>2. UNCHANGED <<broker, push, have, blocked, gaps, keyed, epoch, due>>
      BY <1>10 DEF Report, store
  <2> QED  BY <2>1, <2>2, EndKeeps
<1> QED  BY <1>1, <1>2, <1>3, <1>4, <1>5, <1>6, <1>7, <1>8, <1>9, <1>10 DEF RunStep

\* A step that leaves every run where it is.
LEMMA RunsStay ==
    ASSUME IInv, TypeOK', UNCHANGED <<catchingUp, inFlight, active, phase, cur, mem>>,
           broker \subseteq broker', have \subseteq have',
           have \cup blocked \subseteq have' \cup blocked', late' \subseteq late
    PROVE  IInv'
<1>1. OneRunPerConnection'  BY DEF IInv, OneRunPerConnection
<1>2. \A s \in Run : RunInv(s)'  BY Undisturbed
<1>3. \A p \in late' : p.entries \subseteq broker'  BY DEF IInv, MemInv
<1> QED  BY <1>1, <1>2, <1>3 DEF IInv, MemInv

\* Steps without a run.
LEMMA OtherStepKeeps ==
    ASSUME IInv,
           \/ Coalesce
           \/ \E e \in Entry : Publish(e)
           \/ \E e \in Entry : ReceiveLive(e)
           \/ \E p \in late : LatePage(p)
           \/ ImportKey \/ Reconnect \/ Restart \/ AgeGaps
           \/ UNCHANGED vars
    PROVE  IInv'
<1>0. TypeOK /\ OneRunPerConnection /\ MemInv  BY DEF IInv
<1>1. CASE Coalesce
  <2>1. due' = FALSE  BY <1>1 DEF Coalesce
  <2>2. UNCHANGED <<broker, push, have, blocked, gaps, keyed, epoch, catchingUp, inFlight,
                    active, busy, out, phase, cur, waiting, mem, late>>
      BY <1>1 DEF Coalesce, store, guards, runs
  <2>3. TypeOK'  BY <1>0, <2>1, <2>2 DEF TypeOK
  <2> QED  BY <2>2, <2>3, RunsStay
<1>2. CASE \E e \in Entry : Publish(e)
  <2>1. PICK e \in Entry : Publish(e)  BY <1>2
  <2>2. UNCHANGED <<have, blocked, gaps, keyed, epoch, catchingUp, inFlight,
                    active, busy, out, phase, cur, waiting, mem, late, due>>
      BY <2>1 DEF Publish, store, guards, runs
  <2>3. broker' = broker \cup {e} /\ push' \subseteq push \cup {e}  BY <2>1 DEF Publish
  <2>4. TypeOK'  BY <1>0, <2>2, <2>3 DEF TypeOK
  <2> QED  BY <2>2, <2>3, <2>4, RunsStay
<1>3. CASE \E e \in Entry : ReceiveLive(e)
  <2>1. PICK e \in Entry : ReceiveLive(e)  BY <1>3
  <2>2. UNCHANGED <<broker, keyed, epoch, catchingUp, inFlight,
                    active, busy, out, phase, cur, waiting, mem, late>>
      BY <2>1 DEF ReceiveLive, guards, runs
  <2>3. Apply({e}) /\ {e} \subseteq broker /\ push' \subseteq push
      BY <1>0, <2>1 DEF ReceiveLive, TypeOK
  <2>4. /\ have \subseteq have' /\ have' \subseteq broker \ Foreign
        /\ blocked' \subseteq (broker \cap Locked) \ have'
        /\ keyed => blocked' = {}
        /\ gaps' \subseteq gaps
        /\ have \cup blocked \subseteq have' \cup blocked'
      BY <1>0, <2>3, ApplyKeeps
  <2>5. due' \in BOOLEAN  BY <1>0, <2>1 DEF ReceiveLive, Calling, TypeOK
  <2>6. TypeOK'  BY <1>0, <2>2, <2>3, <2>4, <2>5 DEF TypeOK
  <2> QED  BY <2>2, <2>4, <2>6, RunsStay
<1>4. CASE \E p \in late : LatePage(p)
  <2>1. PICK p \in late : LatePage(p)  BY <1>4
  <2>2. UNCHANGED <<broker, push, keyed, epoch, catchingUp, inFlight,
                    active, phase, cur, waiting, mem>>
      BY <2>1 DEF LatePage, runs
  <2>3. Apply(p.entries) /\ p.entries \subseteq broker /\ late' \subseteq late
      BY <1>0, <2>1 DEF LatePage, MemInv
  <2>4. /\ have \subseteq have' /\ have' \subseteq broker \ Foreign
        /\ blocked' \subseteq (broker \cap Locked) \ have'
        /\ keyed => blocked' = {}
        /\ gaps' \subseteq gaps
        /\ have \cup blocked \subseteq have' \cup blocked'
      BY <1>0, <2>3, ApplyKeeps
  <2>5. due' \in BOOLEAN /\ busy' \in BOOLEAN /\ out' \in BOOLEAN
    <3>1. p.truncated \in BOOLEAN  BY <1>0, <2>1 DEF TypeOK, Page
    <3> QED  BY <1>0, <2>1, <3>1 DEF LatePage, Calling, TypeOK
  <2>6. TypeOK'  BY <1>0, <2>2, <2>3, <2>4, <2>5 DEF TypeOK
  <2> QED  BY <2>2, <2>3, <2>4, <2>6, RunsStay
<1>5. CASE ImportKey
  <2>1. UNCHANGED <<broker, push, epoch, catchingUp, inFlight,
                    active, busy, out, phase, cur, waiting, mem, late>>
      BY <1>5 DEF ImportKey, guards, runs
  <2>2. have' = have \cup blocked /\ blocked' = {} /\ gaps' \subseteq gaps
      BY <1>5 DEF ImportKey, Resolved
  <2>3. keyed' = TRUE  BY <1>5 DEF ImportKey
  <2>4. due' \in BOOLEAN  BY <1>0, <1>5 DEF ImportKey, Calling, TypeOK
  <2>5. have' \subseteq broker \ Foreign  BY <1>0, <2>2, CatchUpAssumption DEF TypeOK
  <2>6. TypeOK'  BY <1>0, <2>1, <2>2, <2>3, <2>4, <2>5 DEF TypeOK
  <2> QED  BY <2>1, <2>2, <2>6, RunsStay
<1>6. CASE Reconnect
  <2>1. epoch' \in 0 .. Epochs - 1
      BY <1>0, <1>6, CatchUpAssumption DEF Reconnect, TypeOK
  <2>2. /\ catchingUp' = FALSE /\ active' = 0 /\ cur' = {} /\ waiting' = {}
        /\ push' = {} /\ late' = {} /\ due' = TRUE
      BY <1>6 DEF Reconnect
  <2>3. UNCHANGED <<broker, have, blocked, gaps, keyed, inFlight, busy, out, phase, mem>>
      BY <1>6 DEF Reconnect, store
  <2>4. TypeOK'  BY <1>0, <2>1, <2>2, <2>3 DEF TypeOK
  <2>5. OneRunPerConnection'  BY <2>2 DEF OneRunPerConnection
  <2>6. \A s \in Run : RunInv(s)'  BY <2>3, Undisturbed
  <2> QED  BY <2>2, <2>4, <2>5, <2>6 DEF IInv, MemInv
<1>7. CASE Restart
  <2>1. /\ epoch' = 0 /\ catchingUp' = FALSE /\ inFlight' = None /\ active' = 0
        /\ busy' = FALSE /\ out' = FALSE /\ cur' = {} /\ waiting' = {}
        /\ blocked' = {} /\ push' = {} /\ late' = {} /\ due' = TRUE
        /\ UNCHANGED <<broker, have, gaps, keyed>>
      BY <1>7 DEF Restart
  <2>2. phase' = [r \in Run |-> "idle"] /\ mem' = [r \in Run |-> Blank]
      BY <1>7 DEF Restart
  <2>3. phase' \in [Run -> Phase] /\ mem' \in [Run -> Mem]
      BY <2>2, BlankType DEF Phase
  <2>4. TypeOK'
    <3>1. 0 \in 0 .. Epochs - 1  BY CatchUpAssumption
    <3> QED  BY <1>0, <2>1, <2>3, <3>1 DEF TypeOK
  <2>5. OneRunPerConnection'  BY <2>1 DEF OneRunPerConnection
  <2>6. \A s \in Run : RunInv(s)'  BY <2>2, BlankRun
  <2> QED  BY <2>1, <2>4, <2>5, <2>6 DEF IInv, MemInv
<1>8. CASE AgeGaps
  <2>1. gaps' \subseteq Gap
    <3>1. \A g \in Gap : [g EXCEPT !.old = TRUE] \in Gap  BY DEF Gap
    <3>2. gaps' = {[g EXCEPT !.old = TRUE] : g \in gaps}  BY <1>8 DEF AgeGaps
    <3>3. gaps \subseteq Gap  BY <1>0 DEF TypeOK
    <3> HIDE DEF Gap
    <3> QED  BY <3>1, <3>2, <3>3
  <2>2. UNCHANGED <<broker, push, have, blocked, keyed, epoch, catchingUp, inFlight,
                    active, busy, out, phase, cur, waiting, mem, late, due>>
      BY <1>8 DEF AgeGaps, guards, runs
  <2>3. TypeOK'  BY <1>0, <2>1, <2>2 DEF TypeOK
  <2> QED  BY <2>2, <2>3, RunsStay
<1>9. CASE UNCHANGED vars
  <2>1. UNCHANGED <<broker, push, have, blocked, gaps, keyed, epoch, catchingUp, inFlight,
                    active, busy, out, phase, cur, waiting, mem, late, due>>
      BY <1>9 DEF vars, store, guards, runs
  <2>2. TypeOK'  BY <1>0, <2>1 DEF TypeOK
  <2> QED  BY <2>1, <2>2, RunsStay
<1> QED  BY <1>1, <1>2, <1>3, <1>4, <1>5, <1>6, <1>7, <1>8, <1>9

LEMMA StepKeeps == IInv /\ [Next]_vars => IInv'
<1> SUFFICES ASSUME IInv, [Next]_vars PROVE IInv'  OBVIOUS
<1>1. CASE \E r \in Run : RunStep(r)  BY <1>1, RunStepKeeps
<1>2. CASE ~ \E r \in Run : RunStep(r)  BY <1>2, OtherStepKeeps DEF Next
<1> QED  BY <1>1, <1>2

LEMMA Inductive == Spec => []IInv
    BY InitIInv, StepKeeps, PTL DEF Spec

-----------------------------------------------------------------------------
(* Which step touches the gaps, and which ends the phase "gaps".             *)

\* Gaps are written down at the end of a page, grow old, or are resolved.
LEMMA GapSteps ==
    ASSUME IInv, [Next]_vars
    PROVE  \/ gaps' = gaps
           \/ \E ds : gaps' = Resolved(gaps, have', ds)
           \/ \E r \in Run : Conclude(r)
           \/ AgeGaps
<1>1. CASE \E r \in Run : RunStep(r)
  <2>1. PICK r \in Run : RunStep(r)  BY <1>1
  <2>2. CASE StartCatchUp(r)  BY <2>2 DEF StartCatchUp, store
  <2>3. CASE RepairPage(r)  BY <2>3 DEF RepairPage, Apply
  <2>4. CASE RepairTimeout(r)  BY <2>4 DEF RepairTimeout, store
  <2>5. CASE PresentFails(r)  BY <2>5 DEF PresentFails, store
  <2>6. CASE AskPage(r)  BY <2>6 DEF AskPage, store
  <2>7. CASE ReceivePage(r)  BY <2>7 DEF ReceivePage, store
  <2>8. CASE TimeOut(r)  BY <2>8 DEF TimeOut, store
  <2>9. CASE ApplyPage(r)  BY <2>9 DEF ApplyPage, Apply
  <2>10. CASE Conclude(r)  BY <2>10
  <2>11. CASE Report(r)  BY <2>11 DEF Report, store
  <2> QED  BY <2>1, <2>2, <2>3, <2>4, <2>5, <2>6, <2>7, <2>8, <2>9, <2>10, <2>11 DEF RunStep
<1>2. CASE Coalesce  BY <1>2 DEF Coalesce, store
<1>3. CASE \E e \in Entry : Publish(e)  BY <1>3 DEF Publish, store
<1>4. CASE \E e \in Entry : ReceiveLive(e)  BY <1>4 DEF ReceiveLive, Apply
<1>5. CASE \E p \in late : LatePage(p)  BY <1>5 DEF LatePage, Apply
<1>6. CASE ImportKey  BY <1>6 DEF ImportKey
<1>7. CASE Reconnect  BY <1>7 DEF Reconnect, store
<1>8. CASE Restart  BY <1>8 DEF Restart
<1>9. CASE UNCHANGED vars  BY <1>9 DEF vars, store
<1> QED  BY <1>1, <1>2, <1>3, <1>4, <1>5, <1>6, <1>7, <1>8, <1>9 DEF Next

\* A run leaves the phase "gaps" by Conclude, or with the process.
LEMMA GapsPhaseEnds ==
    ASSUME IInv, [Next]_vars, NEW r \in Run, phase[r] = "gaps", phase'[r] # "gaps"
    PROVE  Conclude(r) \/ Restart
<1> USE DEF IInv
<1>1. CASE \E s \in Run : RunStep(s)
  <2>1. PICK s \in Run : RunStep(s)  BY <1>1
  <2>2. s = r \/ phase'[r] = phase[r]
    <3>1. CASE StartCatchUp(s)  BY <3>1 DEF StartCatchUp, Repair, Goto, TypeOK
    <3>2. CASE RepairPage(s)  BY <3>2 DEF RepairPage, Repair, Goto, TypeOK
    <3>3. CASE RepairTimeout(s)  BY <3>3 DEF RepairTimeout, Repair, Goto, TypeOK
    <3>4. CASE PresentFails(s)  BY <3>4 DEF PresentFails, Finish, Goto, TypeOK
    <3>5. CASE AskPage(s)  BY <3>5 DEF AskPage, Goto, TypeOK
    <3>6. CASE ReceivePage(s)  BY <3>6 DEF ReceivePage, Goto, TypeOK
    <3>7. CASE TimeOut(s)  BY <3>7 DEF TimeOut, Finish, Goto, TypeOK
    <3>8. CASE ApplyPage(s)  BY <3>8 DEF ApplyPage, Goto, TypeOK
    <3>9. CASE Conclude(s)  BY <3>9 DEF Conclude, Goto, TypeOK
    <3>10. CASE Report(s)  BY <3>10 DEF Report, Finish, Goto, TypeOK
    <3> QED  BY <2>1, <3>1, <3>2, <3>3, <3>4, <3>5, <3>6, <3>7, <3>8, <3>9, <3>10 DEF RunStep
  <2>3. RunStep(r)  BY <2>1, <2>2
  <2> QED  BY <2>3 DEF RunStep, StartCatchUp, RepairPage, RepairTimeout, PresentFails,
                       AskPage, ReceivePage, TimeOut, ApplyPage, Report
<1>2. CASE ~ \E s \in Run : RunStep(s)
    BY <1>2 DEF Next, Coalesce, Publish, ReceiveLive, LatePage, ImportKey, Reconnect,
                AgeGaps, vars, runs
<1> QED  BY <1>1, <1>2

-----------------------------------------------------------------------------
(* The theorems.                                                             *)

\* The state of the coordinator and the store stays well formed; in
\* particular what is stored or buffered is always something the broker
\* holds, and nothing is buffered once the key is known.
THEOREM TypeCorrect == Spec => []TypeOK
    BY Inductive, PTL DEF IInv

\* The identity token in releaseCatchUpGuard keeps a run that a reconnect
\* left behind from releasing the guard of its successor: a connection never
\* has two runs.
THEOREM OneRun == Spec => []OneRunPerConnection
    BY Inductive, PTL DEF IInv

\* A gap record leaves the store only by autoResolveGaps, when the missing
\* entry has been stored.
THEOREM SkipsAreNotFinal == Spec => NoFinalSkip
<1> DEFINE Kept == \A g \in gaps : \/ \E h \in gaps' : h.dev = g.dev /\ h.first = g.first
                                   \/ <<g.dev, g.first>> \in have'
<1>1. IInv /\ [Next]_vars => [Kept]_vars
  <2> SUFFICES ASSUME IInv, [Next]_vars, NEW g \in gaps
               PROVE  \/ \E h \in gaps' : h.dev = g.dev /\ h.first = g.first
                      \/ <<g.dev, g.first>> \in have'
      OBVIOUS
  <2>1. CASE gaps' = gaps  BY <2>1
  <2>2. CASE \E ds : gaps' = Resolved(gaps, have', ds)
    <3>1. PICK ds : gaps' = Resolved(gaps, have', ds)  BY <2>2
    <3> QED  BY <3>1, ResolvedMeansStored
  <2>3. CASE \E r \in Run : Conclude(r)
    <3>1. PICK r \in Run : gaps' = Recorded(r)  BY <2>3 DEF Conclude
    <3> DEFINE new == {Observed(d, mem[r].cursor[d] + 1) : d \in MissingOnPage(r)}
    <3>2. gaps' = new \cup {x \in gaps : \A h \in new : <<x.dev, x.first>> # <<h.dev, h.first>>}
        BY <3>1 DEF Recorded
    <3> HIDE DEF new
    <3> QED  BY <3>2
  <2>4. CASE AgeGaps
    <3>1. [g EXCEPT !.old = TRUE] \in gaps'  BY <2>4 DEF AgeGaps
    <3>2. g \in Gap  BY DEF IInv, TypeOK
    <3>3. [g EXCEPT !.old = TRUE].dev = g.dev /\ [g EXCEPT !.old = TRUE].first = g.first
        BY <3>2 DEF Gap
    <3> QED  BY <3>1, <3>3
  <2> QED  BY <2>1, <2>2, <2>3, <2>4, GapSteps
<1> QED  BY <1>1, Inductive, PTL DEF Spec, NoFinalSkip

\* recordGapsFromPage takes only a number for a hole that the broker did not
\* hold when it cut the page, or that the engine cannot apply: the index order
\* of the broker leaves nothing out of what a page shows of a device.
THEOREM HolesAreReal == Spec => HolesAreConfirmed
<1> DEFINE Confirmed ==
        \A r \in Run : phase[r] = "gaps" /\ phase'[r] # "gaps" =>
          \A g \in gaps' \ gaps :
             <<g.dev, g.first>> \in Foreign \/ <<g.dev, g.first>> \notin mem[r].page.at
<1>1. IInv /\ [Next]_vars => [Confirmed]_vars
  <2> SUFFICES ASSUME IInv, [Next]_vars, NEW r \in Run, phase[r] = "gaps", phase'[r] # "gaps",
                      NEW g \in gaps' \ gaps,
                      <<g.dev, g.first>> \notin Foreign, <<g.dev, g.first>> \in mem[r].page.at
               PROVE  FALSE
      OBVIOUS
  <2>1. gaps' = Recorded(r)  BY GapsPhaseEnds DEF Conclude, Restart
  <2>2. PICK d \in MissingOnPage(r) : g = Observed(d, mem[r].cursor[d] + 1)
      BY <2>1 DEF Recorded
  <2> DEFINE c == mem[r].cursor
             log == mem[r].page.at
             e == <<d, c[d] + 1>>
  <2>3. d \in Device  BY <2>2 DEF MissingOnPage
  <2>4. g.dev = d /\ g.first = c[d] + 1  BY <2>2 DEF Observed
  <2>5. c \in Heads /\ log \subseteq Entry  BY DEF IInv, TypeOK, Mem, Page
  <2>6. mem[r].page = Cut(log, c)  BY DEF IInv, MemInv, RunInv
  <2>7. PICK n \in Seqs(Noted(mem[r].page), d) : n > c[d] + 1
      BY <2>2 DEF MissingOnPage
  <2>8. <<d, n>> \in Cut(log, c).entries  BY <2>6, <2>7 DEF Seqs, Noted
  <2>9. e \in log /\ e \notin Foreign  BY <2>4
  <2>10. c[d] \in -1 .. MaxSeq  BY <2>3, <2>5 DEF Heads
  <2>11. e \in Cut(log, c).entries
    <3>1. e[1] = d /\ e[2] = c[d] + 1 /\ <<d, n>>[1] = d /\ <<d, n>>[2] = n  OBVIOUS
    <3>2. c[d] + 1 > c[d]  BY <2>10, CatchUpAssumption
    <3> HIDE DEF c, log, e
    <3> QED  BY <2>5, <2>7, <2>8, <2>9, <3>1, <3>2, CutHasNoHoles
  <2>12. c[d] + 1 \in 0 .. MaxSeq  BY <2>5, <2>9, CatchUpAssumption
  <2>13. c[d] + 1 \in Seqs(Noted(mem[r].page), d)
      BY <2>6, <2>9, <2>11, <2>12 DEF Seqs, Noted
  <2>14. c[d] + 1 > c[d] + 1  BY <2>2, <2>13 DEF MissingOnPage
  <2> QED  BY <2>10, <2>14, CatchUpAssumption
<1> QED  BY <1>1, Inductive, PTL DEF Spec, HolesAreConfirmed

\* A run of catchUp that reports nothing outstanding has seen everything the
\* broker held when it answered the last request, up to skipped holes: the
\* last page shows what is above its cursor, and the cursor has passed nothing
\* else, because it is below the largest stored number and no gap is open.
THEOREM AllClearMeansComplete == Spec => AllClearIsComplete
<1> DEFINE Clear ==
        \A r \in Run : phase[r] = "gaps" /\ phase'[r] = "report" /\ ~mem'[r].result
                          => Covered(mem[r].page.at)'
<1>1. IInv /\ [Next]_vars => [Clear]_vars
  <2> SUFFICES ASSUME IInv, [Next]_vars, NEW r \in Run, phase[r] = "gaps",
                      phase'[r] = "report", ~mem'[r].result
               PROVE  Covered(mem[r].page.at)'
      OBVIOUS
  <2>1. Conclude(r)
    <3>1. ~Restart  BY DEF Restart
    <3> QED  BY <3>1, GapsPhaseEnds
  <2> DEFINE c == mem[r].cursor
             log == mem[r].page.at
  <2>2. have' = have /\ blocked' = blocked  BY <2>1 DEF Conclude
  <2>3. /\ mem' = [mem EXCEPT ![r] = [mem[r] EXCEPT !.result = OpenGaps(have, gaps') # {}]]
        /\ ~mem[r].page.truncated
    <3>1. phase'[r] # "ask"  OBVIOUS
    <3>2. ~(phase' = [phase EXCEPT ![r] = "ask"])  BY <3>1 DEF IInv, TypeOK
    <3>3. ~(mem' = [mem EXCEPT ![r] = [mem[r] EXCEPT !.result = TRUE]])
        BY DEF IInv, TypeOK, Mem
    <3> QED  BY <2>1, <3>2, <3>3 DEF Conclude, Goto
  <2>4. mem'[r].page.at = log /\ OpenGaps(have, gaps') = {}
      BY <2>3 DEF IInv, TypeOK, Mem
  <2>5. c \in Heads /\ log \subseteq Entry  BY DEF IInv, TypeOK, Mem, Page
  <2>6. /\ mem[r].page = Cut(log, c)
        /\ \A d \in Device : c[d] <= KnownHeads(have)[d]
        /\ mem[r].page.entries \subseteq have \cup blocked \cup Foreign
      BY DEF IInv, MemInv, RunInv
  <2>7. ASSUME NEW e \in log, e \notin have \cup blocked \cup Foreign
        PROVE  /\ e[2] <= WireHeads(have, gaps')[e[1]]
               /\ \E n \in Skips(gaps', e[1]) : n <= e[2]
    <3> DEFINE d == e[1]
               S == Seqs(have, d)
    <3>1. d \in Device /\ e[2] \in 0 .. MaxSeq /\ e = <<d, e[2]>>
        BY <2>5, CatchUpAssumption
    <3>2. ~(e[2] > c[d])
      <4>1. ~Cut(log, c).truncated  BY <2>3, <2>6
      <4>2. e \notin Cut(log, c).entries  BY <2>6, <2>7
      <4> HIDE DEF c, log
      <4> QED  BY <4>1, <4>2, <2>5, LastPageIsComplete
    <3>3. c[d] \in Int /\ c[d] <= KnownHeads(have)[d]  BY <2>5, <2>6, <3>1 DEF Heads
    <3>4. KnownHeads(have)[d] \in Int /\ WireHeads(have, gaps')[d] \in Int
      <4>1. KnownHeads(have) \in Heads /\ WireHeads(have, gaps') \in Heads  BY HeadsType
      <4> QED  BY <3>1, <4>1 DEF Heads
    <3>5. ~(WireHeads(have, gaps')[d] < KnownHeads(have)[d])
        BY <2>4, <3>1 DEF OpenGaps
    <3>6. e[2] <= WireHeads(have, gaps')[d]
        BY <3>1, <3>2, <3>3, <3>4, <3>5
    <3>7. e[2] \in 0 .. WireHead(S, Skips(gaps', d)) /\ e[2] \notin S
      <4>1. WireHeads(have, gaps')[d] = WireHead(S, Skips(gaps', d))  BY <3>1 DEF WireHeads
      <4>2. e[2] \notin S  BY <2>7, <3>1 DEF Seqs
      <4> QED  BY <3>1, <3>4, <3>6, <4>1, <4>2
    <3>8. S \subseteq 0 .. MaxSeq /\ MaxSeq \in Nat  BY CatchUpAssumption DEF Seqs
    <3> HIDE DEF S
    <3> DEFINE F == Skips(gaps', d)
    <3>9. e[2] \in 0 .. WireHead(S, F) /\ e[2] \notin S  BY <3>7
    <3> HIDE DEF F
    <3>10. \E f \in F : f \in 0 .. e[2]
        BY <3>8, <3>9, BelowCursorIsSkipped
    <3> QED  BY <3>1, <3>6, <3>10 DEF F
  <2>8. ASSUME NEW e \in log PROVE e \in have' \cup blocked' \cup Foreign \/ Skipped(e)'
    <3>1. Skipped(e)' <=> /\ e[2] <= WireHeads(have', gaps')[e[1]]
                          /\ \E n \in Skips(gaps', e[1]) : n <= e[2]
        BY DEF Skipped, WireHeads, Skips, Seqs
    <3> QED  BY <2>2, <2>7, <3>1
  <2> QED  BY <2>4, <2>8 DEF Covered
<1> QED  BY <1>1, Inductive, PTL DEF Spec, AllClearIsComplete

=============================================================================
