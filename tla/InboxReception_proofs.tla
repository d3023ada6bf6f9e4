----------------------- MODULE InboxReception_proofs -----------------------
(***************************************************************************)
(* Proofs about InboxReception for any messages, loads, handlers and       *)
(* faults: type correctness, a recorded message is kept unless one of the  *)
(* paths that mark it loose was taken, and the capability of the current   *)
(* generation comes with its key.                                          *)
(***************************************************************************)
EXTENDS InboxReception, TLAPS

-----------------------------------------------------------------------------
(* The inductive invariant.                                                *)

\* Kept, with the current generation in the place of the keys below it.
Traced(m) ==
    \/ m \in doc.applied
    \/ m \in Invite /\ doc.meta
    \/ m \in Rotation /\ (m \in disk \cup InPass \/ Gen[m] <= Cur)

\* CanWrite for one message.
Writable(m) == m \in disk \cup InPass \cup loose \/ Gen[m] < Cur \/ Gen[m] \in caps

Accounted(m) == (m \in loose \/ Traced(m)) /\ (m \in Keyed => Writable(m))

\* A rotation that needs no record: its generation is there or overtaken.
InEffect(m) == Gen[m] <= Cur /\ (Gen[m] < Cur \/ Gen[m] \in caps)

Rest == {"idle", "next", "flush"}
PassPlaces == {"idle", "next", "delete", "classify", "save", "key", "cap", "dup", "erase"}

\* Which messages come to which place.
Fits(w, p, m) ==
    /\ p \in Rest \/ m \in Msg
    /\ p = "dispatch" => m \in Host
    /\ p \in {"classify", "dup", "erase", "save", "delete"} => m \in Rotation
    /\ p \in {"key", "cap", "pass"} => m \in Keyed
    /\ p \in {"join", "persist"} => m \in Invite
    /\ p = "note" => m \in Invalid
    /\ IF w = Pass THEN p \in PassPlaces /\ (p \in Rest \/ m \in Rotation)
       ELSE p \notin {"next", "delete"}

\* What a worker that is suspended at p with m can rely on.
Reached(p, m) ==
    /\ p \in {"cap", "dup", "erase", "pass"} /\ m \in Rotation => Gen[m] <= Cur
    /\ p = "key" /\ m \in Rotation => Gen[m] <= Cur + 1
    /\ p = "pass" /\ m \in Invite => doc.meta
    /\ p \in {"erase", "pass", "join", "persist"} => Gen[m] \in caps
    /\ p = "record" /\ m \notin Invalid => Accounted(m)

Suspended == [Worker -> [pc : Places, msg : Msg \cup {None}]]

Shapes == \A w \in Worker : /\ Fits(w, at[w].pc, at[w].msg)
                            /\ at[w].pc \in Rest => at[w].msg = None
Reaches == \A w \in Worker : Reached(at[w].pc, at[w].msg)

Lists == todo[Pass] \subseteq Rotation /\ \A t \in Task : todo[t] \subseteq Host

\* The keys have a largest generation.  Between 0 and it some may be missing,
\* but only below one that another device had.
Gapless == \A g \in 0 .. Cur : Passed(g)
Topped == Cur \in Int /\ Cur \in keys \cup {-1} /\ (\A k \in keys : k <= Cur) /\ Gapless

Recorded == \A m \in history \ Invalid : Accounted(m)

IInv == TypeOK /\ Shapes /\ Reaches /\ Lists /\ Topped /\ Recorded

-----------------------------------------------------------------------------
(* Generations.                                                            *)

\* When keys are added, those up to n among them, the largest one grows.
LEMMA TopGrows ==
    ASSUME keys \subseteq Nat, Topped, NEW K \in SUBSET Nat, NEW n \in K,
           \A k \in K : k <= n, keys' = keys \cup K,
           \A g \in 0 .. n : g <= Cur \/ Passed(g)'
    PROVE  Topped' /\ Cur <= Cur' /\ \A k \in K : k <= Cur'
<1>1. PICK g \in keys' \cup {-1} : \A k \in keys' : k <= g
  <2>1. Cur \in Int /\ n \in Int /\ \A k \in keys : k <= Cur
    BY DEF Topped
  <2>2. CASE n <= Cur
    <3>1. Cur \in keys' \cup {-1}
      BY DEF Topped
    <3>2. \A k \in keys' : k <= Cur
      BY <2>1, <2>2
    <3> QED  BY <3>1, <3>2
  <2>3. CASE n > Cur
    <3>1. \A k \in keys' : k <= n
      BY <2>1, <2>3
    <3> QED  BY <3>1
  <2> QED  BY <2>1, <2>2, <2>3
<1>2. Cur' \in keys' \cup {-1} /\ \A k \in keys' : k <= Cur'
  BY <1>1 DEF Cur
<1>3. Cur' \in Int /\ Cur \in Int
  BY <1>2 DEF Topped
<1>4. Cur <= Cur'
  <2>1. CASE Cur = -1
    BY <1>2, <2>1
  <2>2. CASE Cur \in keys
    BY <1>2, <2>2
  <2> QED  BY <2>1, <2>2 DEF Topped
<1>5. Gapless'
  <2>1. ASSUME NEW h \in 0 .. Cur' PROVE Passed(h)'
    <3>1. CASE h <= Cur
      <4>1. h \in 0 .. Cur
        BY <1>3, <2>1, <3>1
      <4>2. Passed(h)
        BY <4>1 DEF Topped, Gapless
      <4> QED  BY <4>2 DEF Passed
    <3>2. CASE ~(h <= Cur)
      <4>1. Cur' \in keys \cup K
        BY <1>2, <1>3, <2>1
      <4>2. Cur' \in K
        BY <1>3, <2>1, <3>2, <4>1 DEF Topped
      <4>3. h \in 0 .. n
        BY <1>3, <2>1, <4>2
      <4> QED  BY <3>2, <4>3
    <3> QED  BY <3>1, <3>2
  <2> QED  BY <2>1 DEF Gapless
<1> QED  BY <1>2, <1>3, <1>4, <1>5 DEF Topped

LEMMA SameTop == ASSUME Topped, keys' = keys PROVE Topped' /\ Cur' = Cur /\ Cur <= Cur'
<1>1. Cur' = Cur
  BY DEF Cur
<1>2. Gapless => Gapless'
  BY <1>1 DEF Gapless, Passed
<1> QED  BY <1>1, <1>2 DEF Topped

-----------------------------------------------------------------------------
(* How workers move.                                                       *)

LEMMA PlaceIs ==
    ASSUME NEW p \in Places, NEW m \in Msg \cup {None}
    PROVE  /\ Place(p, m) \in [pc : Places, msg : Msg \cup {None}]
           /\ Place(p, m).pc = p
           /\ Place(p, m).msg = IF p \in Rest THEN None ELSE m
  BY DEF Place, Rest

\* What has been stored stays stored, as long as the program runs.
Grows ==
    /\ caps \subseteq caps' /\ (doc.meta => doc'.meta)
    /\ Cur \in Int /\ Cur' \in Int /\ Cur <= Cur'
    /\ \A m \in Msg \ Invalid : Accounted(m) => Accounted(m)'

LEMMA ReachedStays ==
    ASSUME Grows, NEW p, NEW m \in Msg, m \in Keyed => Gen[m] \in Nat, Reached(p, m)
    PROVE  Reached(p, m)'
<1> USE DEF Reached, Grows
<1>1. (p \in {"cap", "dup", "erase", "pass"} /\ m \in Rotation => Gen[m] <= Cur)'
  BY DEF Keyed
<1>2. (p = "record" /\ m \notin Invalid => Accounted(m))'
  OBVIOUS
<1>3. (p = "key" /\ m \in Rotation => Gen[m] <= Cur + 1)'
  BY DEF Keyed
<1> QED  BY <1>1, <1>2, <1>3

LEMMA RestIsReached == ASSUME NEW p \in Rest, NEW m PROVE Reached(p, m)'
  BY DEF Reached, Rest

LEMMA Moves ==
    ASSUME IInv, Grows, at' \in Suspended,
           \A w \in Worker :
               \/ at'[w] = at[w]
               \/ \E p \in Places, m \in Msg \cup {None} :
                     at'[w] = Place(p, m) /\ Fits(w, p, m) /\ Reached(p, m)'
    PROVE  Shapes' /\ Reaches'
<1> SUFFICES ASSUME NEW w \in Worker
             PROVE  /\ Fits(w, at'[w].pc, at'[w].msg)
                    /\ at'[w].pc \in Rest => at'[w].msg = None
                    /\ Reached(at[w].pc, at[w].msg)'
  BY DEF Shapes, Reaches, Fits
<1>1. CASE at'[w] = at[w]
  <2>1. PICK p, m : p = at[w].pc /\ m = at[w].msg
    OBVIOUS
  <2>2. Fits(w, p, m) /\ (p \in Rest => m = None) /\ Reached(p, m)
    BY <2>1 DEF IInv, Shapes, Reaches
  <2>3. Reached(p, m)'
    <3>1. CASE p \in Rest
      BY <3>1, RestIsReached
    <3>2. CASE p \notin Rest
      <4>1. m \in Msg
        BY <2>2, <3>2 DEF Fits
      <4> QED  BY <2>2, <4>1, ReachedStays, ReceptionAssumption
    <3> QED  BY <3>1, <3>2
  <2>4. at'[w].pc = p /\ at'[w].msg = m
    BY <1>1, <2>1
  <2>5. Reached(at[w].pc, at[w].msg)'
    BY <2>3, <2>4
  <2> QED  BY <2>2, <2>4, <2>5
<1>2. CASE \E p \in Places, m \in Msg \cup {None} :
               at'[w] = Place(p, m) /\ Fits(w, p, m) /\ Reached(p, m)'
  <2>1. PICK p \in Places, m \in Msg \cup {None} :
               at'[w] = Place(p, m) /\ Fits(w, p, m) /\ Reached(p, m)'
    BY <1>2
  <2>2. at'[w].pc = p /\ at'[w].msg = IF p \in Rest THEN None ELSE m
    BY <2>1, PlaceIs
  <2>3. CASE p \in Rest
    <3>1. Fits(w, p, None)
      BY <2>1, <2>3 DEF Fits, Rest, PassPlaces
    <3>2. Reached(p, None)'
      BY <2>3, RestIsReached
    <3>3. Reached(at[w].pc, at[w].msg)'
      BY <2>2, <2>3, <3>2
    <3> QED  BY <2>2, <2>3, <3>1, <3>3
  <2>4. CASE p \notin Rest
    <3>1. Reached(at[w].pc, at[w].msg)'
      BY <2>1, <2>2, <2>4
    <3> QED  BY <2>1, <2>2, <2>4, <3>1
  <2> QED  BY <2>3, <2>4
<1> QED  BY <1>1, <1>2

\* TypeOK without the workers.
Typed ==
    /\ queue \subseteq Msg /\ sent \subseteq queue /\ old \subseteq Msg
    /\ history \subseteq Msg /\ loose \subseteq Msg
    /\ doc \in Document /\ saved \in Document
    /\ held \subseteq Host /\ listening \subseteq {"delivery", "update"}
    /\ keys \subseteq Nat /\ caps \subseteq Nat /\ space \in BOOLEAN
    /\ mem \subseteq Rotation /\ disk \subseteq Rotation /\ up \in BOOLEAN
    /\ todo \in [Worker -> SUBSET Msg] /\ faults \in 0 .. MaxFaults

LEMMA TypedIs == TypeOK <=> Typed /\ at \in Suspended
  BY DEF TypeOK, Typed, Suspended

\* The stores only grow.
Stored ==
    /\ doc.applied \subseteq doc'.applied /\ (doc.meta => doc'.meta)
    /\ caps \subseteq caps' /\ Cur <= Cur' /\ Topped'

\* No record is given up.
Quiet == disk \subseteq disk' /\ loose \subseteq loose'

\* The pass gives up a message only when it is in effect or has a record.
LEMMA QuietGrows ==
    ASSUME IInv, Stored, Quiet,
           \A m \in InPass \ Invalid : m \in InPass' \cup disk' \cup loose' \/ InEffect(m)'
    PROVE  Grows
<1>1. Cur \in Int /\ Cur' \in Int
  BY DEF IInv, Topped, Stored
<1>2. ASSUME NEW m \in Msg \ Invalid, Accounted(m)
      PROVE  Accounted(m)'
  <2>1. m \in Keyed => Gen[m] \in Nat
    BY ReceptionAssumption
  <2>2. CASE m \in InPass
    <3>1. m \in Rotation /\ m \in Keyed
      BY <2>2 DEF InPass, Keyed
    <3> QED  BY <1>1, <2>1, <2>2, <3>1 DEF Accounted, Traced, Writable, InEffect
  <2>3. CASE m \notin InPass
    <3>1. m \in loose' \/ Traced(m)'
      <4>1. CASE m \in Rotation
        BY <1>1, <1>2, <2>1, <2>3, <4>1 DEF Accounted, Traced, Stored, Quiet, Keyed
      <4>2. CASE m \notin Rotation
        BY <1>2, <4>2 DEF Accounted, Traced, Stored, Quiet
      <4> QED  BY <4>1, <4>2
    <3>2. m \in Keyed => Writable(m)'
      BY <1>1, <1>2, <2>1, <2>3 DEF Accounted, Writable, Stored, Quiet
    <3> QED  BY <3>1, <3>2 DEF Accounted
  <2> QED  BY <2>2, <2>3
<1> QED  BY <1>1, <1>2 DEF Grows, Stored

LEMMA Assemble ==
    ASSUME IInv, Grows, Topped', Typed', Lists', history' = history, at' \in Suspended,
           \A w \in Worker :
               \/ at'[w] = at[w]
               \/ \E p \in Places, m \in Msg \cup {None} :
                     at'[w] = Place(p, m) /\ Fits(w, p, m) /\ Reached(p, m)'
    PROVE  IInv'
<1>1. Shapes' /\ Reaches'
  BY Moves
<1>2. TypeOK'
  BY TypedIs DEF TypeOK, Typed, Suspended
<1>3. Recorded'
  BY DEF IInv, Recorded, Grows, TypeOK
<1> QED  BY <1>1, <1>2, <1>3 DEF IInv

LEMMA Entered ==
    ASSUME IInv, NEW w \in Worker, NEW p \in Places, NEW m \in Msg \cup {None}, Enter(w, p, m)
    PROVE  /\ at' \in Suspended /\ at'[w] = Place(p, m)
           /\ \A v \in Worker \ {w} : at'[v] = at[v]
<1>1. at \in Suspended
  BY TypedIs DEF IInv
<1>2. Place(p, m) \in [pc : Places, msg : Msg \cup {None}]
  BY PlaceIs
<1> QED  BY <1>1, <1>2 DEF Suspended, Enter

\* A worker, perhaps the pass, moves.
LEMMA WorkerMoves ==
    ASSUME IInv, NEW w \in Worker, NEW p \in Places, NEW m \in Msg \cup {None},
           Enter(w, p, m), Fits(w, p, m), Reached(p, m)',
           Grows, Topped', Typed', Lists', history' = history
    PROVE  IInv'
<1>1. /\ at' \in Suspended /\ at'[w] = Place(p, m)
      /\ \A v \in Worker \ {w} : at'[v] = at[v]
  BY Entered
<1>2. \E q \in Places, n \in Msg \cup {None} :
         at'[w] = Place(q, n) /\ Fits(w, q, n) /\ Reached(q, n)'
  BY <1>1
<1>3. \A v \in Worker :
         \/ at'[v] = at[v]
         \/ \E q \in Places, n \in Msg \cup {None} :
               at'[v] = Place(q, n) /\ Fits(v, q, n) /\ Reached(q, n)'
  BY <1>1, <1>2
<1> QED  BY <1>1, <1>3, Assemble

\* A pass that does not move keeps its message.
LEMMA PassStays == ASSUME at'[Pass] = at[Pass] PROVE InPass' = InPass
  BY DEF InPass, msg

\* A task moves, and nothing is given up.
LEMMA TaskMoves ==
    ASSUME IInv, NEW t \in Task, NEW p \in Places, NEW m \in Msg \cup {None},
           Enter(t, p, m), Fits(t, p, m), Reached(p, m)',
           Stored, Quiet, Typed', Lists', history' = history
    PROVE  IInv'
<1>1. t \in Worker /\ Pass \in Worker /\ t # Pass
  BY ReceptionAssumption DEF Worker
<1>2. InPass' = InPass
  <2>1. at'[Pass] = at[Pass]
    BY <1>1, Entered
  <2> QED  BY <2>1, PassStays
<1>3. Grows /\ Topped'
  BY <1>2, QuietGrows DEF Stored
<1> QED  BY <1>1, <1>3, WorkerMoves

\* No worker moves, and nothing is given up.
LEMMA NoMoves ==
    ASSUME IInv, at' = at, Stored, Quiet, Typed', Lists', history' = history
    PROVE  IInv'
<1>1. Grows
  BY PassStays, QuietGrows
<1>2. Topped' /\ at' \in Suspended
  BY TypedIs DEF Stored, IInv
<1> QED  BY <1>1, <1>2, Assemble

LEMMA SameStored ==
    ASSUME IInv, UNCHANGED <<doc, keys, caps>>
    PROVE  Stored
  BY SameTop DEF IInv, Stored

LEMMA SameLists == ASSUME IInv, todo' = todo PROVE Lists'
  BY DEF IInv, Lists

LEMMA FaultCounts == ASSUME IInv, Fault PROVE faults' \in 0 .. MaxFaults
  BY ReceptionAssumption DEF IInv, TypeOK, Fault

\* What is known of the message of a worker at p.
LEMMA Carries ==
    ASSUME IInv, NEW w \in Worker, NEW p, At(w, p), p \notin Rest
    PROVE  \E m \in Msg : m = msg(w) /\ m = at[w].msg /\ Fits(w, p, m) /\ Reached(p, m)
<1>1. Fits(w, p, at[w].msg) /\ Reached(p, at[w].msg)
  BY DEF IInv, Shapes, Reaches, At
<1>2. at[w].msg \in Msg
  BY <1>1 DEF Fits
<1> QED  BY <1>1, <1>2 DEF msg

\* A worker has no message while it rests.
LEMMA RestHasNone ==
    ASSUME IInv, NEW w \in Worker, at[w].pc \in Rest PROVE at[w].msg = None
  BY DEF IInv, Shapes

-----------------------------------------------------------------------------
(* The frame and the host.                                                 *)

LEMMA TakeKeeps ==
    ASSUME IInv, NEW t \in Task, NEW m \in Msg,
           Replay(t, m) \/ Refuse(t, m) \/ Deliver(t, m) \/ Accept(t, m)
    PROVE  IInv'
<1> USE DEF Replay, Refuse, Deliver, Accept, Take, Arrives, personal, host, store
<1>1. /\ UNCHANGED <<queue, old, history, personal, host, store, space, mem, disk, up, todo,
                     loose, faults>>
      /\ sent' \subseteq queue'
  BY DEF IInv, TypeOK
<1>2. Typed' /\ Quiet
  BY <1>1 DEF IInv, TypeOK, Typed, Quiet
<1>3. Stored /\ Lists' /\ history' = history
  BY <1>1, SameStored, SameLists
<1>4. PICK p \in {"ack", "note", "dispatch", "key"} :
         /\ Enter(t, p, m)
         /\ p = "note" => m \in Invalid
         /\ p = "dispatch" => m \in Host
         /\ p = "key" => m \in Invite
  OBVIOUS
<1>5. Fits(t, p, m) /\ p \in Places
  BY <1>4, ReceptionAssumption DEF Fits, Keyed, Places
<1>6. Reached(p, m)'
  BY <1>4, ReceptionAssumption DEF Reached
<1> QED  BY <1>2, <1>3, <1>4, <1>5, <1>6, TaskMoves

LEMMA RejectKeeps == ASSUME IInv, NEW m \in Msg, Reject(m) PROVE IInv'
<1> USE DEF Reject, Arrives, personal, host, store
<1>1. Stored /\ Lists' /\ Quiet
  BY SameStored, SameLists DEF Quiet
<1>2. Typed'
  BY FaultCounts DEF IInv, TypeOK, Typed
<1> QED  BY <1>1, <1>2, NoMoves

\* A handler that ends leaves its message behind.
LEMMA DoneEnters ==
    ASSUME NEW t, Done(t) PROVE \E p \in {"idle", "flush"} : Enter(t, p, msg(t))
  BY DEF Done, Goto

\* A task goes to rest.
LEMMA TaskRests ==
    ASSUME IInv, NEW t \in Task, \E p \in {"idle", "flush"} : Enter(t, p, msg(t)),
           Stored, Quiet, Typed', Lists', history' = history
    PROVE  IInv'
<1>1. PICK p \in {"idle", "flush"}, m \in {msg(t)} : Enter(t, p, m) /\ m = msg(t)
  OBVIOUS
<1>2. m \in Msg \cup {None} /\ p \in Places /\ p \in Rest
  BY <1>1 DEF IInv, TypeOK, msg, Places, Worker, Rest
<1>3. Fits(t, p, m)
  BY <1>1, <1>2, ReceptionAssumption DEF Fits, Rest
<1>4. Reached(p, m)'
  BY <1>2, RestIsReached
<1> QED  BY <1>1, <1>2, <1>3, <1>4, TaskMoves

LEMMA AckKeeps == ASSUME IInv, NEW t \in Task, Ack(t) \/ LoseAck(t) PROVE IInv'
<1> USE DEF Ack, LoseAck, wire, personal, host, store
<1>1. /\ UNCHANGED <<old, history, personal, host, store, space, mem, disk, up, todo, loose>>
      /\ queue' \subseteq queue /\ sent' \subseteq queue'
      /\ faults' \in 0 .. MaxFaults
  BY FaultCounts DEF IInv, TypeOK
<1>2. Typed'
  BY <1>1 DEF IInv, TypeOK, Typed
<1>3. Stored /\ Quiet /\ Lists' /\ history' = history
  BY <1>1, SameStored, SameLists DEF Quiet
<1>4. \E p \in {"idle", "flush"} : Enter(t, p, msg(t))
  BY DoneEnters
<1> QED  BY <1>2, <1>3, <1>4, TaskRests

\* The one step that records: the worker could account for its message.
LEMMA RecordKeeps == ASSUME IInv, NEW t \in Task, Record(t) PROVE IInv'
<1> USE DEF Record, wire, personal, host, store
<1>1. /\ UNCHANGED <<queue, sent, old, personal, host, store, space, mem, disk, up, todo,
                     loose, faults>>
      /\ t \in Worker /\ Pass \in Worker /\ t # Pass
  BY ReceptionAssumption DEF Worker
<1>2. PICK m \in Msg : /\ m = msg(t) /\ history' = history \cup {m}
                       /\ m \notin Invalid => Accounted(m)
  <2>1. msg(t) \in Msg /\ (msg(t) \notin Invalid => Accounted(msg(t)))
    BY <1>1 DEF IInv, Shapes, Fits, Reaches, Reached, Rest, msg
  <2> QED  BY <2>1
<1>3. PICK p \in {"ack", "idle", "flush"} : Enter(t, p, m)
  BY <1>2, DoneEnters DEF Goto
<1>4. p \in Places /\ Fits(t, p, m) /\ Reached(p, m)'
  BY <1>1, <1>3 DEF Fits, Reached, Places, Rest
<1>5. /\ at' \in Suspended /\ at'[t] = Place(p, m)
      /\ \A v \in Worker \ {t} : at'[v] = at[v]
  BY <1>1, <1>3, <1>4, Entered
<1>6. Stored /\ Quiet /\ Lists' /\ Topped'
  BY <1>1, SameStored, SameLists DEF Quiet, Stored
<1>7. Typed'
  BY <1>1, <1>2 DEF IInv, TypeOK, Typed
<1>8. Grows
  BY <1>1, <1>5, <1>6, PassStays, QuietGrows
<1>9. Shapes' /\ Reaches'
  <2>1. \E q \in Places, n \in Msg \cup {None} :
               at'[t] = Place(q, n) /\ Fits(t, q, n) /\ Reached(q, n)'
    BY <1>4, <1>5
  <2>2. \A w \in Worker :
           \/ at'[w] = at[w]
           \/ \E q \in Places, n \in Msg \cup {None} :
                 at'[w] = Place(q, n) /\ Fits(w, q, n) /\ Reached(q, n)'
    BY <1>5, <2>1
  <2> QED  BY <1>5, <1>8, <2>2, Moves
<1>10. TypeOK'
  BY <1>5, <1>7, TypedIs DEF TypeOK, Typed, Suspended
<1>11. Recorded'
  <2>1. ASSUME NEW n \in history' \ Invalid PROVE Accounted(n)'
    <3>1. n \in Msg \ Invalid
      BY <1>2 DEF IInv, TypeOK
    <3>2. Accounted(n)
      BY <1>2 DEF IInv, Recorded
    <3> QED  BY <1>8, <3>1, <3>2 DEF Grows
  <2> QED  BY <2>1 DEF Recorded
<1> QED  BY <1>6, <1>9, <1>10, <1>11 DEF IInv

LEMMA HoldKeeps == ASSUME IInv, NEW m \in Msg, Hold(m) PROVE IInv'
<1> USE DEF Hold, Arrives, personal, store
<1>1. Stored /\ Lists'
  BY SameStored, SameLists
<1>2. Quiet /\ Typed'
  BY DEF Quiet, IInv, TypeOK, Typed
<1> QED  BY <1>1, <1>2, NoMoves

LEMMA ApplyKeeps == ASSUME IInv, NEW t \in Task, Apply(t) PROVE IInv'
<1> USE DEF Apply, wire, store, host
<1>1. PICK m \in Host : /\ m = msg(t) /\ Enter(t, "record", m)
                        /\ doc' = [doc EXCEPT !.applied = doc.applied \cup {m}]
  <2>1. t \in Worker
    BY DEF Worker
  <2>2. msg(t) \in Host
    BY <2>1 DEF IInv, Shapes, Fits, At, msg
  <2> QED  BY <2>2 DEF Goto
<1>2. doc' \in Document /\ doc'.applied = doc.applied \cup {m} /\ doc'.meta = doc.meta
  BY <1>1 DEF IInv, TypeOK, Document
<1>3. Stored /\ Lists'
  BY <1>2, SameTop, SameLists DEF Stored, IInv
<1>4. Quiet /\ Typed'
  BY <1>2 DEF Quiet, IInv, TypeOK, Typed
<1>5. "record" \in Places /\ m \in Msg \cup {None} /\ Fits(t, "record", m)
  BY ReceptionAssumption DEF Fits, Places, Msg, Rest
<1>6. Reached("record", m)'
  BY <1>2, ReceptionAssumption DEF Reached, Accounted, Traced
<1>7. history' = history
  OBVIOUS
<1> QED  BY <1>1, <1>3, <1>4, <1>5, <1>6, <1>7, TaskMoves

LEMMA SubscribeKeeps ==
    ASSUME IInv, NEW t \in Task, NEW k \in {"delivery", "update"}, Subscribe(t, k)
    PROVE  IInv'
<1> USE DEF Subscribe, wire, personal, store
<1>1. \E p \in {"idle", "flush"} : Enter(t, p, msg(t))
  BY DEF Goto
<1>2. Stored /\ history' = history
  BY SameStored
<1>3. Quiet /\ Typed'
  <2>1. todo' \in [Worker -> SUBSET Msg] /\ held' \subseteq Host
    BY DEF IInv, TypeOK, Msg
  <2> QED  BY <2>1 DEF Quiet, IInv, TypeOK, Typed
<1>4. Lists'
  <2> DEFINE flushed == {n \in held : Kind(n) = k}
  <2>1. todo' = [todo EXCEPT ![t] = flushed] /\ todo \in [Worker -> SUBSET Msg]
    BY DEF IInv, TypeOK
  <2>2. flushed \subseteq Host
    BY DEF IInv, TypeOK
  <2> HIDE DEF flushed
  <2>3. t \in Worker /\ Pass # t /\ Pass \in Worker
    BY ReceptionAssumption DEF Worker
  <2> QED  BY <2>1, <2>2, <2>3 DEF IInv, Lists, Worker
<1> QED  BY <1>1, <1>2, <1>3, <1>4, TaskRests

\* A flush puts one message less on its list.
LEMMA ShorterLists ==
    ASSUME IInv, NEW t \in Task, NEW S, S \subseteq todo[t], todo' = [todo EXCEPT ![t] = S]
    PROVE  Lists' /\ todo' \in [Worker -> SUBSET Msg]
<1>1. t \in Worker /\ Pass \in Worker /\ t # Pass
  BY ReceptionAssumption DEF Worker
<1>2. todo \in [Worker -> SUBSET Msg]
  BY DEF IInv, TypeOK
<1>3. todo'[Pass] = todo[Pass] /\ \A v \in Task : todo'[v] \subseteq todo[v]
  BY <1>1, <1>2 DEF Worker
<1>4. todo' \in [Worker -> SUBSET Msg]
  BY <1>1, <1>2
<1> QED  BY <1>3, <1>4 DEF IInv, Lists

LEMMA FlushKeeps == ASSUME IInv, NEW t \in Task, Flush(t) PROVE IInv'
<1> USE DEF Flush, wire, personal, store
<1>1. t \in Worker /\ todo \in [Worker -> SUBSET Msg]
  BY DEF Worker, IInv, TypeOK
<1>2. PICK m \in todo[t] :
          /\ todo' = [todo EXCEPT ![t] = todo[t] \ {m}]
          /\ \/ Kind(m) \in listening /\ Enter(t, "dispatch", m) /\ UNCHANGED <<held, loose>>
             \/ /\ Kind(m) \notin listening /\ m \in Delivery
                /\ loose' = loose \cup {m} /\ Enter(t, "record", m) /\ UNCHANGED held
             \/ /\ Kind(m) \notin listening /\ m \in Update
                /\ held' = held \cup {m} /\ UNCHANGED loose
                /\ Goto(t, IF todo[t] = {m} THEN "idle" ELSE "flush")
  BY <1>1
<1>3. m \in Host /\ m \in Msg
  BY <1>1, <1>2 DEF IInv, Lists
<1>4. Lists' /\ todo' \in [Worker -> SUBSET Msg]
  <2>1. todo[t] \ {m} \subseteq todo[t]
    OBVIOUS
  <2> QED  BY <1>2, <2>1, ShorterLists
<1>5. Stored /\ history' = history
  BY SameStored
<1>6. Quiet /\ Typed'
  BY <1>2, <1>3, <1>4 DEF Quiet, IInv, TypeOK, Typed
<1>7. CASE Enter(t, "dispatch", m)
  <2>1. "dispatch" \in Places /\ Fits(t, "dispatch", m) /\ Reached("dispatch", m)'
    BY <1>1, <1>3, ReceptionAssumption DEF Fits, Reached, Places
  <2> QED  BY <1>3, <1>4, <1>5, <1>6, <1>7, <2>1, TaskMoves
<1>8. CASE loose' = loose \cup {m} /\ Enter(t, "record", m)
  <2>1. "record" \in Places /\ Fits(t, "record", m)
    BY <1>1, <1>3, ReceptionAssumption DEF Fits, Places
  <2>2. Reached("record", m)'
    BY <1>3, <1>8, ReceptionAssumption DEF Reached, Accounted, Writable
  <2> QED  BY <1>3, <1>4, <1>5, <1>6, <1>8, <2>1, <2>2, TaskMoves
<1>9. CASE Goto(t, IF todo[t] = {m} THEN "idle" ELSE "flush")
  <2>1. \E p \in {"idle", "flush"} : Enter(t, p, msg(t))
    BY <1>9 DEF Goto
  <2> QED  BY <1>4, <1>5, <1>6, <2>1, TaskRests
<1> QED  BY <1>2, <1>7, <1>8, <1>9

LEMMA SaveKeeps == ASSUME IInv, Save PROVE IInv'
<1> USE DEF Save, wire, host, store
<1>1. Stored /\ Lists' /\ history' = history
  BY SameStored, SameLists
<1>2. Quiet /\ Typed'
  BY DEF Quiet, IInv, TypeOK, Typed
<1> QED  BY <1>1, <1>2, NoMoves

-----------------------------------------------------------------------------
(* Rotations and invites.                                                  *)

LEMMA RotateKeeps == ASSUME IInv, NEW t \in Task, NEW m \in Msg, Rotate(t, m) PROVE IInv'
<1> USE DEF Rotate, Arrives, Begin, personal, host, store
<1>1. Stored /\ Lists' /\ history' = history
  BY SameStored, SameLists
<1>2. mem' \subseteq Rotation /\ sent' \subseteq queue'
  BY DEF IInv, TypeOK
<1>3. Quiet /\ Typed'
  BY <1>2 DEF Quiet, IInv, TypeOK, Typed
<1>4. PICK p \in {"classify", "save"} : Enter(t, p, m)
  OBVIOUS
<1>5. p \in Places /\ Fits(t, p, m) /\ Reached(p, m)'
  BY <1>4, ReceptionAssumption DEF Places, Fits, Reached
<1> QED  BY <1>1, <1>3, <1>4, <1>5, TaskMoves

\* A step of a worker; the pass gives up a message only when it is refused,
\* in effect or on disk.
LEMMA StepGrows ==
    ASSUME IInv, NEW w \in Worker, NEW p \in Places, NEW m \in Msg, m = msg(w),
           Enter(w, p, m), Stored, Quiet,
           w = Pass /\ m \notin Invalid =>
               InEffect(m)' \/ m \in disk' \cup loose' \/ p \notin {"delete", "erase"} \cup Rest
    PROVE  Grows
<1>1. /\ at'[w] = Place(p, m) /\ \A v \in Worker \ {w} : at'[v] = at[v]
  BY Entered
<1>2. at'[w].pc = p /\ at'[w].msg = IF p \in Rest THEN None ELSE m
  BY <1>1, PlaceIs
<1>3. Pass \in Worker
  BY DEF Worker
<1>4. ASSUME NEW n \in InPass \ Invalid
      PROVE  n \in InPass' \cup disk' \cup loose' \/ InEffect(n)'
  <2>1. CASE w # Pass
    BY <1>1, <1>3, <2>1, PassStays
  <2>2. CASE w = Pass
    <3>1. n = m /\ n \in Rotation
      BY <2>2 DEF InPass
    <3> QED  BY <1>2, <2>2, <3>1 DEF InPass, msg
  <2> QED  BY <2>1, <2>2
<1> QED  BY <1>4, QuietGrows

LEMMA ClassifyKeeps == ASSUME IInv, NEW w \in Worker, Classify(w) PROVE IInv'
<1> USE DEF Classify, wire, personal, host, store
<1>1. PICK m \in Msg : m = msg(w) /\ m = at[w].msg /\ Fits(w, "classify", m)
  BY Carries DEF Rest
<1>2. m \in Rotation /\ Gen[m] \in Nat /\ m \in Keyed
  BY <1>1, ReceptionAssumption DEF Fits, Keyed
<1>3. Stored /\ Lists' /\ history' = history /\ Topped'
  BY SameStored, SameLists DEF Stored
<1>4. mem' \subseteq Rotation
  BY <1>1, <1>2 DEF IInv, TypeOK
<1>5. Quiet /\ Typed'
  BY <1>4 DEF Quiet, IInv, TypeOK, Typed
<1>6. Cur' = Cur /\ Cur \in Int
  BY SameTop DEF IInv, Topped
<1>7. PICK p \in {"next", "note", "dup", "key", "save"} :
          /\ Enter(w, p, m)
          /\ p = "next" => m \in Invalid /\ w = Pass
          /\ p = "note" => m \in Invalid /\ w # Pass
          /\ p = "dup" => Gen[m] <= Cur
          /\ p = "key" => Gen[m] = Cur + 1
  BY <1>1, <1>2, <1>6 DEF Goto, Conclude
<1>8. p \in Places /\ Fits(w, p, m)
  BY <1>1, <1>2, <1>7 DEF Places, Fits, PassPlaces, Rest
<1>9. Reached(p, m)'
  BY <1>2, <1>6, <1>7, ReceptionAssumption DEF Reached
<1>10. Grows
  BY <1>1, <1>3, <1>5, <1>7, <1>8, StepGrows DEF Rest
<1> QED  BY <1>3, <1>5, <1>7, <1>8, <1>9, <1>10, WorkerMoves

LEMMA SaveKeyKeeps == ASSUME IInv, NEW w \in Worker, SaveKey(w) PROVE IInv'
<1> USE DEF SaveKey, wire, personal, host
<1>1. PICK m \in Msg : m = msg(w) /\ Fits(w, "key", m) /\ Reached("key", m)
  BY Carries DEF Rest
<1>2. m \in Keyed /\ Gen[m] \in Nat
  BY <1>1, ReceptionAssumption DEF Fits
<1>3. PICK K \in SUBSET Nat : /\ keys' = keys \cup K /\ Gen[m] \in K
                              /\ \A k \in K : k <= Gen[m]
  <2>1. keys' = keys \cup (IF m \in Invite THEN 0 .. Gen[m] ELSE {Gen[m]})
    BY <1>1
  <2>2. CASE m \in Invite
    <3>1. /\ 0 .. Gen[m] \in SUBSET Nat /\ Gen[m] \in 0 .. Gen[m]
          /\ \A k \in 0 .. Gen[m] : k <= Gen[m]
      BY <1>2
    <3>2. keys' = keys \cup 0 .. Gen[m]
      BY <2>1, <2>2
    <3> QED  BY <3>1, <3>2
  <2>3. CASE m \notin Invite
    <3>1. /\ {Gen[m]} \in SUBSET Nat /\ Gen[m] \in {Gen[m]}
          /\ \A k \in {Gen[m]} : k <= Gen[m]
      BY <1>2
    <3>2. keys' = keys \cup {Gen[m]}
      BY <2>1, <2>3
    <3> QED  BY <3>1, <3>2
  <2> QED  BY <2>2, <2>3
<1>4. Topped' /\ Cur <= Cur' /\ Gen[m] <= Cur'
  <2>1. ASSUME NEW g \in 0 .. Gen[m] PROVE g <= Cur \/ Passed(g)'
    <3>1. CASE m \in Invite
      <4>1. g \in keys'
        BY <1>1, <3>1
      <4> QED  BY <4>1 DEF Passed
    <3>2. CASE m \notin Invite
      <4>1. Gen[m] <= Cur + 1 /\ Gen[m] \in keys' /\ Cur \in Int
        BY <1>1, <1>2, <1>3, <3>2 DEF Reached, Keyed, IInv, Topped
      <4>2. g <= Cur \/ g = Gen[m]
        BY <1>2, <4>1
      <4> QED  BY <4>1, <4>2 DEF Passed
    <3> QED  BY <3>1, <3>2
  <2> QED  BY <1>3, <2>1, TopGrows DEF IInv, TypeOK
<1>5. Stored /\ Lists' /\ history' = history
  BY <1>4, SameLists DEF Stored
<1>6. keys' \subseteq Nat
  BY <1>3 DEF IInv, TypeOK
<1>7. Quiet /\ Typed'
  BY <1>6 DEF Quiet, IInv, TypeOK, Typed
<1>8. Enter(w, "cap", m) /\ "cap" \in Places /\ Fits(w, "cap", m) /\ Reached("cap", m)'
  BY <1>1, <1>2, <1>4 DEF Goto, Places, Fits, PassPlaces, Reached, Rest
<1>9. Grows
  BY <1>1, <1>5, <1>7, <1>8, StepGrows DEF Rest
<1> QED  BY <1>4, <1>5, <1>7, <1>8, <1>9, WorkerMoves

LEMMA SaveCapabilityKeeps == ASSUME IInv, NEW w \in Worker, SaveCapability(w) PROVE IInv'
<1> USE DEF SaveCapability, wire, personal, host
<1>1. PICK m \in Msg : m = msg(w) /\ Fits(w, "cap", m) /\ Reached("cap", m)
  BY Carries DEF Rest
<1>2. m \in Keyed /\ Gen[m] \in Nat /\ caps' = caps \cup {Gen[m]}
  BY <1>1, ReceptionAssumption DEF Fits
<1>3. Stored /\ Lists' /\ history' = history /\ Topped' /\ Cur' = Cur
  BY <1>2, SameTop, SameLists DEF Stored, IInv
<1>4. Quiet /\ Typed'
  BY <1>2 DEF Quiet, IInv, TypeOK, Typed
<1>5. PICK p \in {"join", "erase"} :
          Enter(w, p, m) /\ (p = "join" <=> m \in Invite)
  BY <1>1 DEF Goto
<1>6. p \in Places /\ Fits(w, p, m) /\ Reached(p, m)'
  BY <1>1, <1>2, <1>3, <1>5, ReceptionAssumption
     DEF Places, Fits, PassPlaces, Reached, Rest, Keyed
<1>7. w = Pass => InEffect(m)'
  <2>1. w = Pass => m \in Rotation
    BY <1>1 DEF Fits, Rest
  <2> QED  BY <1>1, <1>2, <1>3, <2>1 DEF Reached, InEffect
<1>8. Grows
  BY <1>1, <1>3, <1>4, <1>5, <1>6, <1>7, StepGrows
<1> QED  BY <1>3, <1>4, <1>5, <1>6, <1>8, WorkerMoves

LEMMA ImportDuplicateKeeps == ASSUME IInv, NEW w \in Worker, ImportDuplicate(w) PROVE IInv'
<1> USE DEF ImportDuplicate, wire, personal, host
<1>1. PICK m \in Msg : m = msg(w) /\ Fits(w, "dup", m) /\ Reached("dup", m)
  BY Carries DEF Rest
<1>2. /\ m \in Rotation /\ m \in Keyed /\ Gen[m] \in Nat /\ Gen[m] <= Cur
      /\ caps' = IF Gen[m] = Cur THEN caps \cup {Cur} ELSE caps
  BY <1>1, ReceptionAssumption DEF Fits, Reached, Keyed
<1>3. Stored /\ Lists' /\ history' = history /\ Topped' /\ Cur' = Cur
  BY <1>2, SameTop, SameLists DEF Stored, IInv
<1>4. Quiet /\ Typed'
  BY <1>2 DEF Quiet, IInv, TypeOK, Typed
<1>5. PICK p \in {"next", "record"} : Enter(w, p, m) /\ (p = "next" <=> w = Pass)
  BY <1>1 DEF Goto, Conclude
<1>6. p \in Places /\ Fits(w, p, m)
  BY <1>1, <1>2, <1>5 DEF Places, Fits, PassPlaces, Rest
<1>7. InEffect(m)'
  <2>1. Cur \in Int
    BY DEF IInv, Topped
  <2> QED  BY <1>2, <1>3, <2>1 DEF InEffect
<1>8. Reached(p, m)'
  BY <1>2, <1>5, <1>7 DEF Reached, Accounted, Traced, Writable, InEffect
<1>9. Grows
  BY <1>1, <1>3, <1>4, <1>5, <1>6, <1>7, StepGrows
<1> QED  BY <1>3, <1>4, <1>5, <1>6, <1>8, <1>9, WorkerMoves

LEMMA SavePendingKeeps == ASSUME IInv, NEW w \in Worker, SavePending(w) PROVE IInv'
<1> USE DEF SavePending, wire, personal, host, store
<1>1. PICK m \in Msg : m = msg(w) /\ m = at[w].msg /\ Fits(w, "save", m)
  BY Carries DEF Rest
<1>2. m \in Rotation /\ disk' = disk \cup {m} /\ loose' = loose \ {m}
  BY <1>1 DEF Fits
<1>3. Stored /\ Lists' /\ history' = history /\ Topped' /\ Cur' = Cur
  BY SameStored, SameTop, SameLists DEF Stored, IInv
<1>4. Typed'
  BY <1>2 DEF IInv, TypeOK, Typed
<1>5. PICK p \in {"next", "record"} : Enter(w, p, m) /\ (p = "next" <=> w = Pass)
  BY <1>1 DEF Goto, Conclude
<1>6. p \in Places /\ Fits(w, p, m)
  BY <1>1, <1>2, <1>5 DEF Places, Fits, PassPlaces, Rest
<1>7. Accounted(m)' /\ Reached(p, m)'
  BY <1>2, <1>5 DEF Accounted, Traced, Writable, Reached
<1>8. ASSUME NEW n \in Msg \ Invalid, n # m, Accounted(n) PROVE Accounted(n)'
  <2>1. n \in InPass => n \in InPass'
    <3>1. CASE w = Pass
      BY <1>1, <1>8, <3>1 DEF InPass
    <3>2. CASE w # Pass
      <4>1. at'[Pass] = at[Pass]
        BY <1>5, <1>6, <3>2, Entered DEF Worker
      <4> QED  BY <4>1, PassStays
    <3> QED  BY <3>1, <3>2
  <2> QED  BY <1>2, <1>3, <1>8, <2>1 DEF Accounted, Traced, Writable
<1>9. Grows
  BY <1>3, <1>7, <1>8 DEF Grows, Stored, IInv, Topped
<1> QED  BY <1>3, <1>4, <1>5, <1>6, <1>7, <1>9, WorkerMoves

\* The pass begins or is left alone; either way it keeps its message.
PassMay(aside) ==
    /\ at'[Pass] = at[Pass] \/ (at[Pass].msg = None /\ at'[Pass] = Place("next", None))
    /\ todo' \in [Worker -> SUBSET Msg] /\ todo'[Pass] \subseteq todo[Pass] \cup aside
    /\ \A t \in Task : todo'[t] = todo[t]

LEMMA PassMayStart ==
    ASSUME IInv, NEW aside \in SUBSET Rotation, PassTodo(aside),
           at'[Pass] = IF Starts(aside) THEN Place("next", None) ELSE at[Pass]
    PROVE  PassMay(aside)
<1>1. Pass \in Worker /\ Task \subseteq Worker /\ Pass \notin Task
  BY ReceptionAssumption DEF Worker
<1>2. todo \in [Worker -> SUBSET Msg] /\ aside \subseteq Msg
  BY DEF IInv, TypeOK, Msg, Keyed
<1>3. CASE Starts(aside)
  <2>1. at[Pass].msg = None
    BY <1>1, <1>3, RestHasNone DEF Starts, At, Rest
  <2> QED  BY <1>1, <1>2, <1>3, <2>1 DEF PassTodo, PassMay
<1>4. CASE ~Starts(aside)
  BY <1>1, <1>2, <1>4 DEF PassTodo, PassMay
<1> QED  BY <1>3, <1>4

LEMMA PassLists == ASSUME IInv, NEW aside \in SUBSET Rotation, PassMay(aside) PROVE Lists'
  BY DEF IInv, Lists, PassMay

\* Also the pass is where it was or at the beginning.
LEMMA PassMoves ==
    ASSUME NEW aside, PassMay(aside)
    PROVE  \/ at'[Pass] = at[Pass]
           \/ \E p \in Places, m \in Msg \cup {None} :
                 at'[Pass] = Place(p, m) /\ Fits(Pass, p, m) /\ Reached(p, m)'
<1>1. "next" \in Places /\ Fits(Pass, "next", None)
  BY DEF Places, Fits, PassPlaces, Rest
<1>2. Reached("next", None)'
  BY DEF Reached
<1> QED  BY <1>1, <1>2 DEF PassMay

\* The pass has the same message as before.
LEMMA PassHolds == ASSUME NEW aside, PassMay(aside), None \notin Msg PROVE InPass \subseteq InPass'
<1>1. CASE at'[Pass] = at[Pass]
  BY <1>1, PassStays
<1>2. CASE at[Pass].msg = None
  BY <1>2 DEF InPass, msg, Msg, Keyed
<1> QED  BY <1>1, <1>2 DEF PassMay

LEMMA StartPassMoves ==
    ASSUME IInv, NEW t \in Task, NEW m \in Msg, m = msg(t), NEW aside \in SUBSET Rotation,
           StartPass(t, aside)
    PROVE  /\ PassMay(aside) /\ at' \in Suspended
           /\ \E p \in {"pass", "record"} : at'[t] = Place(p, m)
           /\ \A v \in Worker \ {t, Pass} : at'[v] = at[v]
<1>1. Pass \in Worker /\ t \in Worker /\ Pass # t
  BY ReceptionAssumption DEF Worker
<1>2. at \in Suspended
  BY TypedIs DEF IInv
<1>3. PICK p \in {"pass", "record"} : p = IF Starts(aside) THEN "pass" ELSE "record"
  OBVIOUS
<1>4. Place(p, m) \in [pc : Places, msg : Msg \cup {None}]
  BY PlaceIs DEF Places
<1>5. Place("next", None) \in [pc : Places, msg : Msg \cup {None}]
  BY PlaceIs DEF Places
<1>6. at' = [at EXCEPT ![t] = Place(p, m),
                       ![Pass] = IF Starts(aside) THEN Place("next", None) ELSE at[Pass]]
  BY <1>1, <1>2, <1>3 DEF StartPass, Suspended
<1>7. at' \in Suspended
  BY <1>1, <1>2, <1>4, <1>5, <1>6 DEF Suspended
<1>8. /\ at'[t] = Place(p, m)
      /\ at'[Pass] = IF Starts(aside) THEN Place("next", None) ELSE at[Pass]
      /\ \A v \in Worker \ {t, Pass} : at'[v] = at[v]
  BY <1>1, <1>2, <1>6 DEF Suspended
<1>9. PassMay(aside)
  BY <1>8, PassMayStart DEF StartPass
<1> QED  BY <1>7, <1>8, <1>9

LEMMA JoinKeeps == ASSUME IInv, NEW t \in Task, Join(t) PROVE IInv'
<1> USE DEF Join, wire, personal, host, store
<1>1. t \in Worker
  BY DEF Worker
<1>2. PICK m \in Msg : m = msg(t) /\ Fits(t, "join", m) /\ Reached("join", m)
  BY <1>1, Carries DEF Rest
<1>3. m \in Invite /\ m \in Keyed /\ Gen[m] \in caps
  BY <1>2 DEF Fits, Reached, Keyed
<1>4. Stored /\ Lists' /\ history' = history
  BY SameStored, SameLists
<1>5. loose' = IF space /\ ~doc.meta THEN loose \cup {m} ELSE loose
  BY <1>2
<1>6. Quiet /\ Typed'
  BY <1>5 DEF Quiet, IInv, TypeOK, Typed
<1>7. PICK p \in {"record", "persist"} : Enter(t, p, m) /\ (p = "record" => space)
  BY <1>2 DEF Goto, IInv, TypeOK
<1>8. p \in Places /\ Fits(t, p, m)
  BY <1>2, <1>3, <1>7, ReceptionAssumption DEF Fits, Places
<1>9. Reached(p, m)'
  BY <1>3, <1>5, <1>7 DEF Reached, Accounted, Traced, Writable
<1> QED  BY <1>4, <1>6, <1>7, <1>8, <1>9, TaskMoves

LEMMA PersistKeeps == ASSUME IInv, NEW t \in Task, Persist(t) PROVE IInv'
<1> USE DEF Persist, wire, host, store
<1>1. t \in Worker
  BY DEF Worker
<1>2. PICK m \in Msg : m = msg(t) /\ Fits(t, "persist", m) /\ Reached("persist", m)
  BY <1>1, Carries DEF Rest
<1>3. m \in Invite /\ m \in Keyed /\ m \notin Rotation /\ Gen[m] \in caps /\ mem \in SUBSET Rotation
  BY <1>2, ReceptionAssumption DEF Fits, Reached, Keyed, IInv, TypeOK
<1>4. /\ PassMay(mem) /\ at' \in Suspended
      /\ \E p \in {"pass", "record"} : at'[t] = Place(p, m)
      /\ \A v \in Worker \ {t, Pass} : at'[v] = at[v]
  BY <1>2, <1>3, StartPassMoves
<1>5. doc' \in Document /\ doc'.applied = doc.applied /\ doc'.meta = TRUE
  BY DEF IInv, TypeOK, Document
<1>6. Stored /\ history' = history /\ Topped'
  BY <1>5, SameTop DEF Stored, IInv
<1>7. Lists'
  BY <1>3, <1>4, PassLists
<1>8. Quiet /\ Typed'
  BY <1>4, <1>5 DEF Quiet, IInv, TypeOK, Typed, PassMay
<1>9. Grows
  <2>1. InPass \subseteq InPass'
    BY <1>4, PassHolds, ReceptionAssumption
  <2> QED  BY <1>6, <1>8, <2>1, QuietGrows
<1>10. \E p \in Places, n \in Msg \cup {None} :
          at'[t] = Place(p, n) /\ Fits(t, p, n) /\ Reached(p, n)'
  <2>1. PICK p \in {"pass", "record"} : at'[t] = Place(p, m)
    BY <1>4
  <2>2. Accounted(m)'
    BY <1>3, <1>5 DEF Accounted, Traced, Writable
  <2>3. Reached(p, m)' /\ Fits(t, p, m) /\ p \in Places
    BY <1>2, <1>3, <1>5, <2>1, <2>2, ReceptionAssumption DEF Reached, Fits, Places
  <2> QED  BY <2>1, <2>3
<1>11. \A v \in Worker :
          \/ at'[v] = at[v]
          \/ \E p \in Places, n \in Msg \cup {None} :
                at'[v] = Place(p, n) /\ Fits(v, p, n) /\ Reached(p, n)'
  BY <1>4, <1>10, PassMoves
<1> QED  BY <1>4, <1>6, <1>7, <1>8, <1>9, <1>11, Assemble

-----------------------------------------------------------------------------
(* The pass.                                                               *)

\* An applied rotation needs no record any more.
LEMMA ErasedGrows ==
    ASSUME IInv, NEW m \in Rotation, Gen[m] <= Cur, Gen[m] \in caps,
           disk' = disk \ {m}, UNCHANGED <<doc, keys, caps, loose>>, InPass \subseteq InPass'
    PROVE  Grows
<1>1. Cur' = Cur /\ Cur \in Int
  BY SameTop DEF IInv, Topped
<1>2. ASSUME NEW n \in Msg \ Invalid, Accounted(n) PROVE Accounted(n)'
  <2>1. CASE n = m
    BY <1>1, <2>1 DEF Accounted, Traced, Writable
  <2>2. CASE n # m
    BY <1>1, <1>2, <2>2 DEF Accounted, Traced, Writable
  <2> QED  BY <2>1, <2>2
<1> QED  BY <1>1, <1>2 DEF Grows

LEMMA EraseKeeps == ASSUME IInv, NEW w \in Worker, Erase(w) PROVE IInv'
<1> USE DEF Erase, wire, personal, host, store
<1>1. PICK m \in Msg : m = msg(w) /\ m = at[w].msg /\ Fits(w, "erase", m) /\ Reached("erase", m)
  BY Carries DEF Rest
<1>2. /\ m \in Rotation /\ m \in Keyed /\ Gen[m] <= Cur /\ Gen[m] \in caps
      /\ mem' = mem \ {m} /\ disk' = disk \ {m}
  BY <1>1 DEF Fits, Reached, Keyed
<1>3. history' = history /\ Topped' /\ Cur' = Cur
  BY SameTop DEF IInv
<1>4. CASE w = Pass
  <2>1. Enter(w, "next", m) /\ "next" \in Places /\ Fits(w, "next", m) /\ Reached("next", m)'
    BY <1>1, <1>4 DEF Goto, Places, Fits, PassPlaces, Reached, Rest
  <2>2. Grows
    <3>1. InPass = {}
      BY <1>4 DEF InPass, At
    <3> QED  BY <1>2, <3>1, ErasedGrows
  <2>3. Typed'
    BY <1>2, <1>4 DEF IInv, TypeOK, Typed
  <2>4. Lists'
    BY <1>4, SameLists
  <2> QED  BY <1>3, <2>1, <2>2, <2>3, <2>4, WorkerMoves
<1>5. CASE w # Pass
  <2>1. w \in Task
    BY <1>5 DEF Worker
  <2>2. PICK aside \in SUBSET Rotation : aside = mem' /\ StartPass(w, aside)
    BY <1>2, <1>5 DEF IInv, TypeOK
  <2>3. /\ PassMay(aside) /\ at' \in Suspended
        /\ \E p \in {"pass", "record"} : at'[w] = Place(p, m)
        /\ \A v \in Worker \ {w, Pass} : at'[v] = at[v]
    BY <1>1, <2>1, <2>2, StartPassMoves
  <2>4. Lists'
    BY <2>3, PassLists
  <2>5. Typed'
    BY <1>2, <2>3 DEF IInv, TypeOK, Typed, PassMay
  <2>6. Grows
    <3>1. InPass \subseteq InPass'
      BY <2>3, PassHolds, ReceptionAssumption
    <3> QED  BY <1>2, <3>1, ErasedGrows
  <2>7. \E p \in Places, n \in Msg \cup {None} :
            at'[w] = Place(p, n) /\ Fits(w, p, n) /\ Reached(p, n)'
    <3>1. PICK p \in {"pass", "record"} : at'[w] = Place(p, m)
      BY <2>3
    <3>2. Accounted(m)'
      BY <1>2, <1>3 DEF Accounted, Traced, Writable
    <3>3. Reached(p, m)' /\ Fits(w, p, m) /\ p \in Places
      BY <1>2, <1>3, <1>5, <3>1, <3>2, ReceptionAssumption DEF Reached, Fits, Places
    <3> QED  BY <3>1, <3>3
  <2>8. \A v \in Worker :
            \/ at'[v] = at[v]
            \/ \E p \in Places, n \in Msg \cup {None} :
                  at'[v] = Place(p, n) /\ Fits(v, p, n) /\ Reached(p, n)'
    BY <2>3, <2>7, PassMoves
  <2> QED  BY <1>3, <2>3, <2>4, <2>5, <2>6, <2>8, Assemble
<1> QED  BY <1>4, <1>5

LEMMA PassNextKeeps == ASSUME IInv, PassNext PROVE IInv'
<1> USE DEF PassNext, wire, personal, host, store
<1>1. Pass \in Worker /\ Pass \notin Task /\ Task \subseteq Worker
  BY ReceptionAssumption DEF Worker
<1>2. PICK m \in todo[Pass] :
          /\ todo' = [todo EXCEPT ![Pass] = todo[Pass] \ {m}]
          /\ IF m \in mem THEN mem' = mem \ {m} /\ Enter(Pass, "delete", m)
             ELSE UNCHANGED <<mem, at>>
  BY <1>1 DEF IInv, TypeOK
<1>3. m \in Rotation /\ m \in Msg
  BY <1>1, <1>2 DEF IInv, Lists, TypeOK
<1>4. InPass = {}
  <2>1. at[Pass].msg = None
    BY <1>1, RestHasNone DEF At, Rest
  <2> QED  BY <2>1, ReceptionAssumption DEF InPass, msg, Msg, Keyed
<1>5. todo' \in [Worker -> SUBSET Msg] /\ Lists'
  <2>1. /\ todo' \in [Worker -> SUBSET Msg] /\ todo'[Pass] \subseteq todo[Pass]
        /\ \A t \in Task : todo'[t] = todo[t]
    BY <1>1, <1>2 DEF IInv, TypeOK
  <2> QED  BY <2>1 DEF IInv, Lists
<1>6. Typed' /\ Quiet
  BY <1>2, <1>5 DEF IInv, TypeOK, Typed, Quiet
<1>7. Stored /\ history' = history /\ Topped'
  BY SameStored DEF Stored
<1>8. CASE m \in mem
  <2>1. "delete" \in Places /\ Fits(Pass, "delete", m) /\ Reached("delete", m)'
    BY <1>3 DEF Places, Fits, PassPlaces, Reached
  <2>2. Grows
    BY <1>4, <1>6, <1>7, QuietGrows
  <2> QED  BY <1>1, <1>2, <1>3, <1>5, <1>6, <1>7, <1>8, <2>1, <2>2, WorkerMoves
<1>9. CASE m \notin mem
  BY <1>2, <1>5, <1>6, <1>7, <1>9, NoMoves
<1> QED  BY <1>8, <1>9

\* The record is gone, but now the pass has the message.
LEMMA PassDeleteKeeps == ASSUME IInv, PassDelete PROVE IInv'
<1> USE DEF PassDelete, Begin, wire, personal, host, store
<1>1. Pass \in Worker
  BY DEF Worker
<1>2. PICK m \in Msg : m = msg(Pass) /\ m = at[Pass].msg /\ Fits(Pass, "delete", m)
  BY <1>1, Carries DEF Rest
<1>3. /\ m \in Rotation /\ disk' = disk \ {m} /\ loose' = loose /\ mem' \in {mem, mem \cup {m}}
  BY <1>2 DEF Fits
<1>4. Typed'
  BY <1>3 DEF IInv, TypeOK, Typed
<1>5. history' = history /\ Topped' /\ Cur' = Cur /\ Lists' /\ Cur \in Int
  BY SameTop, SameLists DEF IInv, Topped
<1>6. PICK p \in {"classify", "save"} : Enter(Pass, p, m)
  BY <1>2
<1>7. p \in Places /\ Fits(Pass, p, m) /\ Reached(p, m)'
  BY <1>3, <1>6 DEF Places, Fits, PassPlaces, Reached, Msg, Keyed
<1>8. m \in InPass'
  <2>1. at'[Pass] = Place(p, m)
    BY <1>1, <1>6, <1>7, Entered
  <2>2. at'[Pass].msg = m /\ at'[Pass].pc = p
    BY <1>6, <1>7, <2>1, PlaceIs DEF Rest
  <2> QED  BY <1>3, <1>6, <2>2 DEF InPass, msg
<1>9. ASSUME NEW n \in Msg \ Invalid, Accounted(n) PROVE Accounted(n)'
  <2>1. CASE n = m
    BY <1>3, <1>8, <2>1 DEF Accounted, Traced, Writable
  <2>2. CASE n # m
    BY <1>2, <1>3, <1>5, <1>9, <2>2 DEF Accounted, Traced, Writable, InPass
  <2> QED  BY <2>1, <2>2
<1>10. Grows
  BY <1>5, <1>9 DEF Grows
<1> QED  BY <1>1, <1>4, <1>5, <1>6, <1>7, <1>10, WorkerMoves

\* A handler that waits for the pass can account for its message.
LEMMA WaitingIsAccounted ==
    ASSUME IInv, NEW t \in Worker, At(t, "pass")
    PROVE  \E m \in Msg : m = at[t].msg /\ Fits(t, "record", m) /\ Accounted(m)
<1>1. PICK m \in Msg : m = at[t].msg /\ Fits(t, "pass", m) /\ Reached("pass", m)
  BY Carries DEF Rest
<1>2. Fits(t, "record", m)
  BY <1>1 DEF Fits, PassPlaces
<1>3. Accounted(m)
  BY <1>1 DEF Fits, Reached, Accounted, Traced, Writable, Keyed
<1> QED  BY <1>1, <1>2, <1>3

LEMMA PassEndKeeps == ASSUME IInv, PassEnd PROVE IInv'
<1> USE DEF PassEnd, wire, personal, host, store
<1>1. Pass \in Worker /\ at \in Suspended
  BY TypedIs DEF Worker, IInv
<1>2. Stored /\ Quiet /\ Lists' /\ history' = history /\ Topped'
  BY SameStored, SameLists DEF Quiet, Stored
<1>3. Typed'
  BY DEF IInv, TypeOK, Typed
<1>4. InPass = {}
  <2>1. at[Pass].msg = None
    BY <1>1, RestHasNone DEF At, Rest
  <2> QED  BY <2>1, ReceptionAssumption DEF InPass, msg, Msg, Keyed
<1>5. Grows
  BY <1>2, <1>4, QuietGrows
<1>6. ASSUME NEW w \in Worker
      PROVE  /\ at'[w] \in [pc : Places, msg : Msg \cup {None}]
             /\ \/ at'[w] = at[w]
                \/ \E p \in Places, m \in Msg \cup {None} :
                      at'[w] = Place(p, m) /\ Fits(w, p, m) /\ Reached(p, m)'
  <2>1. CASE w = Pass
    <3>1. at'[w] = Place("idle", None) /\ "idle" \in Places
      BY <2>1 DEF Places
    <3>2. Fits(w, "idle", None) /\ Reached("idle", None)'
      BY <2>1 DEF Fits, PassPlaces, Rest, Reached
    <3> QED  BY <3>1, <3>2, PlaceIs
  <2>2. CASE w # Pass /\ At(w, "pass")
    <3>1. PICK m \in Msg : m = at[w].msg /\ Fits(w, "record", m) /\ Accounted(m)
      BY <2>2, WaitingIsAccounted
    <3>2. at'[w] = Place("record", m) /\ "record" \in Places
      BY <2>2, <3>1 DEF Places, msg
    <3>3. Reached("record", m)'
      BY <1>5, <3>1 DEF Grows, Reached
    <3> QED  BY <3>1, <3>2, <3>3, PlaceIs
  <2>3. CASE w # Pass /\ ~At(w, "pass")
    BY <1>1, <2>3 DEF Suspended
  <2> QED  BY <2>1, <2>2, <2>3
<1>7. at' \in Suspended
  <2>1. at' = [w \in Worker |-> at'[w]]
    OBVIOUS
  <2> QED  BY <1>6, <2>1 DEF Suspended
<1> QED  BY <1>2, <1>3, <1>5, <1>6, <1>7, Assemble

-----------------------------------------------------------------------------
(* Start, synchronisation and faults.                                       *)

LEMMA RestorePendingKeeps == ASSUME IInv, RestorePending PROVE IInv'
<1> USE DEF RestorePending, wire, personal, host, store
<1>1. Stored /\ Lists' /\ history' = history
  BY SameStored, SameLists
<1>2. Quiet /\ Typed'
  BY DEF Quiet, IInv, TypeOK, Typed
<1> QED  BY <1>1, <1>2, NoMoves

LEMMA MergeKeeps == ASSUME IInv, NEW m \in Msg, Merge(m) PROVE IInv'
<1> USE DEF Merge, wire, host, store
<1>1. doc' \in Document /\ doc'.applied = doc.applied /\ doc'.meta = TRUE
  BY DEF IInv, TypeOK, Document
<1>2. Stored /\ Lists' /\ history' = history
  BY <1>1, SameTop, SameLists DEF Stored, IInv
<1>3. Quiet /\ Typed'
  BY <1>1 DEF Quiet, IInv, TypeOK, Typed
<1> QED  BY <1>2, <1>3, NoMoves

LEMMA ImportKeyKeeps == ASSUME IInv, NEW m \in Elsewhere, ImportKey(m) PROVE IInv'
<1> USE DEF ImportKey, wire, personal, host
<1>1. PICK g \in Nat : g = Gen[m]
  BY ReceptionAssumption
<1>2. Topped' /\ Cur <= Cur' /\ keys' \subseteq Nat
  <2>1. {g} \in SUBSET Nat /\ g \in {g} /\ \A k \in {g} : k <= g
    OBVIOUS
  <2>2. keys' = keys \cup {g} /\ keys \subseteq Nat /\ Topped
    BY <1>1 DEF IInv, TypeOK
  <2>3. ASSUME NEW k \in 0 .. g PROVE Passed(k)'
    <3>1. k = g \/ k < g
      OBVIOUS
    <3>2. Gen[m] \in keys'
      BY <1>1, <2>2
    <3> QED  BY <1>1, <3>1, <3>2 DEF Passed
  <2> QED  BY <2>1, <2>2, <2>3, TopGrows
<1>3. Stored /\ Lists' /\ history' = history
  BY <1>2, SameLists DEF Stored
<1>4. Quiet /\ Typed'
  BY <1>2 DEF Quiet, IInv, TypeOK, Typed
<1> QED  BY <1>3, <1>4, NoMoves

LEMMA ImportSeedKeeps == ASSUME IInv, NEW m \in Elsewhere, ImportSeed(m) PROVE IInv'
<1> USE DEF ImportSeed, wire, personal, host
<1>1. Gen[m] \in Nat
  BY ReceptionAssumption
<1>2. Stored /\ Lists' /\ history' = history
  BY SameTop, SameLists DEF Stored, IInv
<1>3. Quiet /\ Typed'
  BY <1>1 DEF Quiet, IInv, TypeOK, Typed
<1> QED  BY <1>2, <1>3, NoMoves

\* A caller that is no handler starts the pass.
LEMMA LonePassKeeps == ASSUME IInv, RestoreSpace \/ RequestSync PROVE IInv'
<1> USE DEF RestoreSpace, RequestSync, wire, personal, host, store
<1>1. Pass \in Worker /\ at \in Suspended
  BY TypedIs DEF Worker, IInv
<1>2. PICK aside \in SUBSET Rotation : StartLonePass(aside)
  BY DEF IInv, TypeOK
<1>3. Place("next", None) \in [pc : Places, msg : Msg \cup {None}]
  BY PlaceIs DEF Places
<1>4. /\ at' \in Suspended
      /\ at'[Pass] = IF Starts(aside) THEN Place("next", None) ELSE at[Pass]
      /\ \A w \in Worker \ {Pass} : at'[w] = at[w]
  BY <1>1, <1>2, <1>3 DEF StartLonePass, Suspended
<1>5. PassMay(aside)
  BY <1>2, <1>4, PassMayStart DEF StartLonePass
<1>6. Stored /\ Topped' /\ history' = history
  BY SameStored DEF Stored
<1>7. Typed' /\ Quiet
  BY <1>5 DEF IInv, TypeOK, Typed, Quiet, PassMay
<1>8. Lists'
  BY <1>5, PassLists
<1>9. Grows
  <2>1. InPass \subseteq InPass'
    BY <1>5, PassHolds, ReceptionAssumption
  <2> QED  BY <1>6, <1>7, <2>1, QuietGrows
<1>10. \A w \in Worker :
          \/ at'[w] = at[w]
          \/ \E p \in Places, m \in Msg \cup {None} :
                at'[w] = Place(p, m) /\ Fits(w, p, m) /\ Reached(p, m)'
  BY <1>4, <1>5, PassMoves
<1> QED  BY <1>4, <1>6, <1>7, <1>8, <1>9, <1>10, Assemble

LEMMA FailKeeps == ASSUME IInv, NEW t \in Task, Fail(t) PROVE IInv'
<1> USE DEF Fail, wire, personal, host, store
<1>1. Stored /\ Quiet /\ history' = history
  BY SameStored DEF Quiet
<1>2. \E p \in {"idle", "flush"} : Enter(t, p, msg(t))
  BY DoneEnters DEF Goto
<1>3. Lists' /\ todo' \in [Worker -> SUBSET Msg]
  <2>1. CASE UNCHANGED todo
    BY <2>1, SameLists DEF IInv, TypeOK
  <2>2. CASE todo' = [todo EXCEPT ![t] = {}]
    <3>1. PICK S : S = {}
      OBVIOUS
    <3>2. S \subseteq todo[t] /\ todo' = [todo EXCEPT ![t] = S]
      BY <2>2, <3>1
    <3> HIDE DEF Fail
    <3> QED  BY <3>2, ShorterLists
  <2> QED  BY <2>1, <2>2
<1>4. Typed'
  BY <1>3, FaultCounts DEF IInv, TypeOK, Typed
<1> QED  BY <1>1, <1>2, <1>3, <1>4, TaskRests

LEMMA PassFailKeeps == ASSUME IInv, PassFail PROVE IInv'
<1> USE DEF PassFail, wire, personal, host, store
<1>1. Pass \in Worker /\ Pass \notin Task /\ Task \subseteq Worker /\ at \in Suspended
  BY TypedIs, ReceptionAssumption DEF Worker, IInv
<1>2. faults' \in 0 .. MaxFaults
  BY FaultCounts
<1>3. Stored /\ Quiet /\ history' = history /\ Topped'
  BY SameStored DEF Quiet, Stored
<1>4. Grows
  BY <1>3, QuietGrows
<1>5. loose' \subseteq Msg
  BY DEF IInv, TypeOK, InPass, Msg, Keyed
<1>6. CASE At(Pass, "save")
  <2>1. PICK m \in Msg : m = msg(Pass) /\ Fits(Pass, "save", m)
    BY <1>1, <1>6, Carries DEF Rest
  <2>2. Enter(Pass, "next", m) /\ "next" \in Places /\ Fits(Pass, "next", m)
    BY <1>6, <2>1 DEF Goto, Places, Fits, PassPlaces, Rest
  <2>3. Reached("next", m)'
    BY DEF Reached
  <2>4. Lists'
    BY <1>6, SameLists
  <2>5. Typed'
    BY <1>2, <1>5, <1>6 DEF IInv, TypeOK, Typed
  <2> QED  BY <1>1, <1>3, <1>4, <2>2, <2>3, <2>4, <2>5, WorkerMoves
<1>7. CASE ~At(Pass, "save")
  <2>1. /\ todo' = [todo EXCEPT ![Pass] = {}]
        /\ at' = [w \in Worker |-> IF w = Pass \/ At(w, "pass") THEN Place("idle", None)
                                   ELSE at[w]]
    BY <1>7
  <2>2. /\ todo' \in [Worker -> SUBSET Msg] /\ todo'[Pass] = {}
        /\ \A t \in Task : todo'[t] = todo[t]
    BY <1>1, <2>1 DEF IInv, TypeOK
  <2>3. Lists'
    BY <2>2 DEF IInv, Lists
  <2>4. Typed'
    BY <1>2, <1>5, <2>2 DEF IInv, TypeOK, Typed
  <2>5. Place("idle", None) \in [pc : Places, msg : Msg \cup {None}] /\ "idle" \in Places
    BY PlaceIs DEF Places
  <2>6. at' \in Suspended
    BY <1>1, <2>1, <2>5 DEF Suspended
  <2>7. \A w \in Worker : Fits(w, "idle", None) /\ Reached("idle", None)'
    BY DEF Fits, PassPlaces, Rest, Reached
  <2>8. \A w \in Worker :
           \/ at'[w] = at[w]
           \/ \E p \in Places, m \in Msg \cup {None} :
                 at'[w] = Place(p, m) /\ Fits(w, p, m) /\ Reached(p, m)'
    <3>1. \A w \in Worker : at'[w] = at[w] \/ at'[w] = Place("idle", None)
      BY <2>1
    <3> QED  BY <2>5, <2>7, <3>1
  <2> QED  BY <1>3, <1>4, <2>3, <2>4, <2>6, <2>8, Assemble
<1> QED  BY <1>6, <1>7

LEMMA ReconnectKeeps == ASSUME IInv, Reconnect PROVE IInv'
<1> USE DEF Reconnect, personal, host, store
<1>1. faults' \in 0 .. MaxFaults
  BY FaultCounts DEF IInv, TypeOK
<1>2. Stored /\ Lists' /\ history' = history
  BY SameStored, SameLists
<1>3. Quiet /\ Typed'
  BY <1>1 DEF Quiet, IInv, TypeOK, Typed
<1> QED  BY <1>2, <1>3, NoMoves

LEMMA UnsubscribeKeeps == ASSUME IInv, Unsubscribe PROVE IInv'
<1> USE DEF Unsubscribe, wire, personal, store
<1>1. Stored /\ Lists' /\ history' = history
  BY SameStored, SameLists
<1>2. Quiet /\ Typed'
  BY FaultCounts DEF Quiet, IInv, TypeOK, Typed
<1> QED  BY <1>1, <1>2, NoMoves

\* Here what was recorded may fall back: it is marked, and no worker relies
\* on it any more.
LEMMA CrashKeeps == ASSUME IInv, Crash PROVE IInv'
<1> USE DEF Crash, store
<1>1. Topped' /\ Cur' = Cur /\ history' = history
  BY SameTop DEF IInv
<1>2. Lists' /\ todo' \in [Worker -> SUBSET Msg]
  BY DEF Lists, Worker
<1>3. Typed'
  <2>1. InPass \subseteq Msg
    BY DEF InPass, Msg, Keyed
  <2> QED  BY <1>2, <2>1, FaultCounts DEF IInv, TypeOK, Typed
<1>4. /\ Place("idle", None) \in [pc : Places, msg : Msg \cup {None}]
      /\ Place("idle", None).pc = "idle" /\ Place("idle", None).msg = None
  BY PlaceIs DEF Places, Rest
<1>5. at' \in Suspended /\ \A w \in Worker : at'[w].pc = "idle" /\ at'[w].msg = None
  BY <1>4 DEF Suspended
<1>6. TypeOK'
  BY <1>3, <1>5, TypedIs DEF TypeOK, Typed, Suspended
<1>7. Shapes' /\ Reaches'
  BY <1>5 DEF Shapes, Reaches, Fits, Reached, PassPlaces, Rest
<1>8. Recorded'
  <2>1. ASSUME NEW m \in history \ Invalid PROVE Accounted(m)'
    <3>1. Accounted(m)
      BY <2>1 DEF IInv, Recorded
    <3>2. m \in loose' \/ Traced(m)'
      BY <1>1, <2>1, <3>1 DEF Accounted, Traced, IInv, TypeOK, Document
    <3>3. m \in Keyed => Writable(m)'
      BY <1>1, <3>1 DEF Accounted, Writable
    <3> QED  BY <3>2, <3>3 DEF Accounted
  <2> QED  BY <1>1, <2>1 DEF Recorded
<1> QED  BY <1>1, <1>2, <1>6, <1>7, <1>8 DEF IInv

-----------------------------------------------------------------------------
(* The theorems.                                                            *)

LEMMA InitIInv == Init => IInv
<1> SUFFICES ASSUME Init PROVE IInv
  OBVIOUS
<1> USE DEF Init
<1>1. Place("idle", None) \in [pc : Places, msg : Msg \cup {None}] /\ "idle" \in Places
  BY PlaceIs DEF Places
<1>2. Place("idle", None).pc = "idle" /\ Place("idle", None).msg = None
  BY <1>1, PlaceIs DEF Rest
<1>3. at \in Suspended /\ \A w \in Worker : at[w].pc = "idle" /\ at[w].msg = None
  BY <1>1, <1>2 DEF Suspended
<1>4. keys \in {{0}, {}} /\ caps = keys /\ doc \in Document
  <2>1. keys \in {{0}, {}} /\ caps = keys
    BY Zenon
  <2>2. doc \in Document
    BY DEF Document
  <2> QED  BY <2>1, <2>2
<1>5. Typed
  <2>1. queue \subseteq Msg /\ 0 \in 0 .. MaxFaults
    BY ReceptionAssumption
  <2>2. keys \subseteq Nat /\ caps \subseteq Nat
    BY <1>4
  <2> QED  BY <1>4, <2>1, <2>2 DEF Typed
<1>6. TypeOK
  BY <1>3, <1>5, TypedIs
<1>7. Shapes /\ Reaches
  BY <1>3 DEF Shapes, Reaches, Fits, Reached, PassPlaces, Rest
<1>8. Lists
  BY DEF Lists, Worker
<1>9. Topped
  <2>1. PICK g \in {-1, 0} : g \in keys \cup {-1} /\ \A k \in keys : k <= g
    BY <1>4
  <2>2. Cur \in keys \cup {-1} /\ \A k \in keys : k <= Cur
    BY <2>1 DEF Cur
  <2>3. Cur \in {-1, 0}
    BY <1>4, <2>2
  <2>4. ASSUME NEW h \in 0 .. Cur PROVE Passed(h)
    <3>1. Cur = 0 /\ h = 0
      BY <2>3
    <3> QED  BY <2>2, <3>1 DEF Passed
  <2>5. Gapless
    BY <2>4 DEF Gapless
  <2> QED  BY <2>2, <2>3, <2>5 DEF Topped
<1>10. Recorded
  BY DEF Recorded
<1> QED  BY <1>6, <1>7, <1>8, <1>9, <1>10 DEF IInv

LEMMA StutterKeeps == ASSUME IInv, UNCHANGED vars PROVE IInv'
<1> USE DEF vars, wire, personal, host, store
<1>1. Stored /\ Lists' /\ history' = history
  BY SameStored, SameLists
<1>2. Quiet /\ Typed'
  BY DEF Quiet, IInv, TypeOK, Typed
<1> QED  BY <1>1, <1>2, NoMoves

LEMMA NextKeeps == ASSUME IInv, [Next]_vars PROVE IInv'
<1>1. ASSUME NEW t \in Task, NEW m \in Msg, Receive(t, m) PROVE IInv'
  BY <1>1, TakeKeeps, RotateKeeps DEF Receive
<1>2. ASSUME NEW w \in Worker, Step(w) PROVE IInv'
  BY <1>2, ClassifyKeeps, SavePendingKeeps, SaveKeyKeeps, SaveCapabilityKeeps,
     ImportDuplicateKeeps, EraseKeeps DEF Step
<1>3. ASSUME NEW t \in Task, TaskStep(t) PROVE IInv'
  <2>1. t \in Worker
    BY DEF Worker
  <2> QED  BY <1>2, <1>3, <2>1, RecordKeeps, AckKeeps, ApplyKeeps, FlushKeeps, JoinKeeps,
              PersistKeeps DEF TaskStep
<1>4. ASSUME NEW t \in Task,
             \/ Fail(t) \/ LoseAck(t) \/ \E k \in {"delivery", "update"} : Subscribe(t, k)
      PROVE  IInv'
  BY <1>4, FailKeeps, AckKeeps, SubscribeKeeps
<1>5. ASSUME NEW m \in Msg, Hold(m) \/ Reject(m) \/ Merge(m) PROVE IInv'
  BY <1>5, HoldKeeps, RejectKeeps, MergeKeeps
<1>6. CASE PassStep \/ PassFail
  <2>1. Pass \in Worker
    BY DEF Worker
  <2> QED  BY <1>2, <1>6, <2>1, PassNextKeeps, PassDeleteKeeps, PassEndKeeps, PassFailKeeps
           DEF PassStep
<1>7. CASE RestorePending \/ Synchronise \/ Save
  BY <1>7, RestorePendingKeeps, LonePassKeeps, ImportKeyKeeps, ImportSeedKeeps, SaveKeeps
     DEF Synchronise
<1>8. CASE Unsubscribe \/ Reconnect \/ Crash
  BY <1>8, UnsubscribeKeeps, ReconnectKeeps, CrashKeeps
<1>9. CASE UNCHANGED vars
  BY <1>9, StutterKeeps
<1> QED  BY <1>1, <1>3, <1>4, <1>5, <1>6, <1>7, <1>8, <1>9 DEF Next

\* All parts of the inductive invariant hold in every reachable state.
THEOREM Inductive == Spec => []IInv
  BY InitIInv, NextKeeps, PTL DEF Spec

(* Every variable keeps its type; in particular only rotations are put     *)
(* aside, and the broker has sent only what it still has.                  *)
THEOREM TypeCorrect == Spec => []TypeOK
<1>1. IInv => TypeOK
  BY DEF IInv
<1> QED  BY <1>1, Inductive, PTL

(* A message whose id is in the history has its effect in the personal     *)
(* document, has a record on disk or in the pass, or its key is stored or  *)
(* passed by one of another device (concludeByDisposition,                 *)
(* applyKeyRotationBody, processPendingForSpace), for any handlers and     *)
(* faults; only the paths that mark it loose can lose it.                  *)
THEOREM RecordedLeavesTrace == Spec => []RecordedIsKept
<1>1. ASSUME IInv PROVE RecordedIsKept
  <2>1. ASSUME NEW m \in history \ (Invalid \cup loose) PROVE Kept(m)
    <3>1. Traced(m) /\ Gapless
      BY <1>1, <2>1 DEF IInv, Recorded, Accounted, Topped
    <3>2. CASE m \in Rotation /\ Gen[m] <= Cur
      <4>1. Gen[m] \in Nat /\ Cur \in Int
        BY <1>1, <3>2, ReceptionAssumption DEF Keyed, IInv, Topped
      <4>2. Passed(Gen[m])
        BY <3>1, <3>2, <4>1 DEF Gapless
      <4> QED  BY <3>2, <4>2 DEF Kept
    <3>3. CASE ~(m \in Rotation /\ Gen[m] <= Cur)
      BY <3>1, <3>3 DEF Traced, Kept
    <3> QED  BY <3>2, <3>3
  <2> QED  BY <2>1 DEF RecordedIsKept
<1> QED  BY <1>1, Inductive, PTL

(* A device that has concluded the rotation to its current generation has  *)
(* the capability as well, although key and capability are two writes and  *)
(* the key may come from another device (importDuplicateCapabilityMaterial).*)
THEOREM KeyAndCapability == Spec => []CanWrite
<1>1. ASSUME IInv PROVE CanWrite
  <2>1. ASSUME NEW m \in (history \cap Keyed) \ (Invalid \cup disk \cup InPass \cup loose),
               Gen[m] = Cur
        PROVE  Cur \in caps
    <3>1. Writable(m) /\ Cur \in Int
      BY <1>1, <2>1 DEF IInv, Recorded, Accounted, Topped
    <3> QED  BY <2>1, <3>1 DEF Writable
  <2> QED  BY <2>1 DEF CanWrite
<1> QED  BY <1>1, Inductive, PTL

=============================================================================
