------------------------- MODULE InboxQueue_proofs -------------------------
(***************************************************************************)
(* Proofs about InboxQueue for any numbers of devices, messages and any    *)
(* retention periods.  The status of an entry is evidence: "acked" says    *)
(* the device processed the message, "sender-excluded" that it sent it.    *)
(***************************************************************************)
EXTENDS InboxQueue, TLAPS

AckedIsProcessed ==
    \A m \in Msg, x \in Device : entry[m][x] = "acked" => <<x, m>> \in processed

ExcludedIsAuthor ==
    \A m \in Msg, x \in Device : entry[m][x] = "sender-excluded" => <<x, m>> \in authored

\* Only devices of the recipient have entries.
EntryOfRecipient ==
    \A m \in Stored, x \in Device : entry[m][x] # "none" => DidOf[x] = row[m].to

IInv ==
    /\ TypeOK
    /\ AckedIsProcessed
    /\ ExcludedIsAuthor
    /\ EntryOfRecipient
    /\ ActiveDevicesTracked
    /\ PendingIsOffered

(* A fully delivered message is known to every active device.                *)
LEMMA DeliveredIsKnown ==
    ASSUME NEW m \in Msg, NEW st \in [Device -> Status], NEW active \in SUBSET Device,
           \A x \in Device : st[x] = "acked" => <<x, m>> \in processed,
           \A x \in Device : st[x] = "sender-excluded" => <<x, m>> \in authored,
           IsFullyDelivered(st, active)
    PROVE  /\ \E x \in Device : <<x, m>> \in processed
           /\ \A x \in active : <<x, m>> \in processed \cup authored
  BY DEF IsFullyDelivered

LEMMA InitIInv == Init => IInv
  BY InboxAssumption DEF Init, IInv, TypeOK, AckedIsProcessed, ExcludedIsAuthor, EntryOfRecipient,
     ActiveDevicesTracked, PendingIsOffered, NoEntries, Stored, Status

(* Registering mints the missing entries and offers everything pending.      *)
LEMMA RegisterIInv ==
    ASSUME IInv, NEW x \in Device, Register(x) PROVE IInv'
<1> USE InboxAssumption DEF IInv
<1>1. /\ Minted(x) \in [Msg -> [Device -> Status]]
      /\ \A m \in Msg : \A y \in Device \ {x} : Minted(x)[m][y] = entry[m][y]
      /\ \A m \in Msg : Minted(x)[m][x] =
            IF m \in Stored /\ row[m].to = DidOf[x] /\ entry[m][x] = "none"
            THEN "pending" ELSE entry[m][x]
      /\ \A m \in Msg \ Stored : Minted(x)[m] = entry[m]
  BY DEF Minted, TypeOK, Status
<1>2. /\ Stored' = Stored /\ entry' = Minted(x) /\ row' = row /\ now' = now
      /\ revoked' = revoked /\ processed' = processed /\ authored' = authored
      /\ online' = online \cup {x}
  BY DEF Register, Stored
<1>3. TypeOK'
  <2>1. Redelivered(x) \subseteq Msg
    BY DEF Redelivered, Stored
  <2>2. \A m \in Msg \ Stored' : entry'[m] = NoEntries'
    BY <1>1, <1>2 DEF TypeOK, NoEntries
  <2> QED
    BY <1>1, <1>2, <2>1, <2>2 DEF TypeOK, Register
<1>4. AckedIsProcessed' /\ ExcludedIsAuthor'
  BY <1>1, <1>2 DEF AckedIsProcessed, ExcludedIsAuthor
<1>5. EntryOfRecipient'
  BY <1>1, <1>2 DEF EntryOfRecipient, Stored
<1>6. ActiveDevicesTracked'
  <2> SUFFICES ASSUME NEW m \in Stored', NEW y \in online', y \in EffectiveActive(row[m].to)'
               PROVE  entry'[m][y] # "none"
    BY <1>2 DEF ActiveDevicesTracked
  <2>1. CASE y = x
    BY <2>1, <1>1, <1>2 DEF EffectiveActive, Stored
  <2>2. CASE y # x
    BY <2>2, <1>1, <1>2 DEF ActiveDevicesTracked, EffectiveActive, Register, TypeOK, Stored
  <2> QED
    BY <2>1, <2>2
<1>7. PendingIsOffered'
  <2> SUFFICES ASSUME NEW m \in Stored', NEW y \in online', entry'[m][y] = "pending"
               PROVE  m \in sent'[y]
    BY DEF PendingIsOffered
  <2>1. CASE y = x
    <3>1. row[m].to = DidOf[x]
      BY <2>1, <1>1, <1>2 DEF EntryOfRecipient, Stored
    <3> QED
      BY <2>1, <3>1, <1>1, <1>2 DEF Register, Redelivered, TypeOK
  <2>2. CASE y # x
    BY <2>2, <1>1, <1>2 DEF PendingIsOffered, Register, TypeOK, Stored
  <2> QED
    BY <2>1, <2>2
<1> QED
  BY <1>3, <1>4, <1>5, <1>6, <1>7

(* The fan-out gives every active device of the recipient an entry.          *)
LEMMA SendIInv ==
    ASSUME IInv, NEW x \in Device, NEW m \in Msg, NEW d \in Did, NEW e \in Env, Send(x, m, d, e)
    PROVE  IInv'
<1> USE InboxAssumption DEF IInv
<1>1. /\ FannedOut(m, x, d) \in [Device -> Status]
      /\ \A y \in Device : entry[m][y] # "none" => FannedOut(m, x, d)[y] = entry[m][y]
      /\ \A y \in Device : entry[m][y] = "none" =>
            \/ FannedOut(m, x, d)[y] = "none" /\ y \notin EffectiveActive(d)
            \/ FannedOut(m, x, d)[y] = "pending" /\ y \in Targets(x, d)
            \/ FannedOut(m, x, d)[y] = "sender-excluded" /\ y = x /\ y \in EffectiveActive(d)
  BY DEF FannedOut, Targets, TypeOK, Status
<1>2. /\ entry' = [entry EXCEPT ![m] = FannedOut(m, x, d)]
      /\ Stored' = Stored \cup {m} /\ row'[m].to = d
      /\ row' \in [Msg -> Row \cup {None}]
      /\ \A n \in Msg \ {m} : row'[n] = row[n]
      /\ m \in Stored => row' = row
      /\ UNCHANGED <<now, seen, revoked, online, processed>>
      /\ authored' = authored \cup {<<x, m>>}
  BY DEF Send, Stored, Row, TypeOK
<1>3. TypeOK'
  <2>1. sent' \in [Device -> SUBSET Msg]
    BY DEF Send, TypeOK
  <2>2. \A n \in Msg \ Stored' : entry'[n] = NoEntries'
    BY <1>2 DEF TypeOK, NoEntries
  <2> QED
    BY <1>1, <1>2, <2>1, <2>2 DEF TypeOK, Send
<1>4. AckedIsProcessed' /\ ExcludedIsAuthor'
  BY <1>1, <1>2 DEF AckedIsProcessed, ExcludedIsAuthor, TypeOK
<1>5. EntryOfRecipient'
  <2> SUFFICES ASSUME NEW n \in Stored', NEW y \in Device, entry'[n][y] # "none"
               PROVE  DidOf[y] = row'[n].to
    BY DEF EntryOfRecipient
  <2>1. CASE n # m
    <3>1. n \in Stored /\ n \in Msg
      BY <2>1, <1>2 DEF Stored
    <3> QED
      BY <2>1, <3>1, <1>2 DEF EntryOfRecipient, TypeOK
  <2>2. CASE n = m
    <3>1. CASE entry[m][y] = "none"
      BY <2>2, <3>1, <1>1, <1>2 DEF Targets, EffectiveActive, TypeOK
    <3>2. CASE entry[m][y] # "none"
      BY <2>2, <3>2, <1>1, <1>2 DEF EntryOfRecipient, TypeOK, NoEntries, Stored
    <3> QED
      BY <3>1, <3>2
  <2> QED
    BY <2>1, <2>2
<1>6. ActiveDevicesTracked'
  <2> SUFFICES ASSUME NEW n \in Stored', NEW y \in online', y \in EffectiveActive(row[n].to)'
               PROVE  entry'[n][y] # "none"
    BY DEF ActiveDevicesTracked
  <2>1. CASE n # m
    <3>1. n \in Stored /\ n \in Msg
      BY <2>1, <1>2 DEF Stored
    <3> QED
      BY <2>1, <3>1, <1>2 DEF ActiveDevicesTracked, EffectiveActive, TypeOK
  <2>2. CASE n = m
    <3>1. y \in EffectiveActive(d)
      BY <2>2, <1>2 DEF EffectiveActive
    <3> QED
      BY <2>2, <3>1, <1>1, <1>2 DEF TypeOK, EffectiveActive
  <2> QED
    BY <2>1, <2>2
<1>7. PendingIsOffered'
  <2> SUFFICES ASSUME NEW n \in Stored', NEW y \in online', entry'[n][y] = "pending"
               PROVE  n \in sent'[y]
    BY DEF PendingIsOffered
  <2>1. y \in Device /\ y \in online
    BY <1>2 DEF TypeOK
  <2>2. sent[y] \subseteq sent'[y]
    BY <2>1 DEF Send, TypeOK
  <2>3. CASE n # m \/ entry[m][y] = "pending"
    BY <2>1, <2>2, <2>3, <1>2 DEF PendingIsOffered, TypeOK, NoEntries, Stored
  <2>4. CASE n = m /\ entry[m][y] # "pending"
    <3>1. y \in Targets(x, d)
      BY <2>1, <2>4, <1>1, <1>2 DEF TypeOK
    <3> QED
      BY <2>1, <2>4, <3>1 DEF Send, TypeOK
  <2> QED
    BY <2>3, <2>4
<1> QED
  BY <1>3, <1>4, <1>5, <1>6, <1>7

(* The steps that only remove rows and entries, acknowledge a pending entry  *)
(* or shrink the set of active devices.                                      *)
LEMMA ShrinkIInv ==
    ASSUME IInv, TypeOK',
           UNCHANGED <<online, sent, authored>>, processed \subseteq processed',
           Stored' \subseteq Stored, \A m \in Stored' : row'[m] = row[m],
           \A m \in Msg, x \in Device :
              \/ entry'[m][x] = entry[m][x]
              \/ m \notin Stored' /\ entry'[m][x] = "none"
              \/ entry'[m][x] = "none" /\ \A d \in Did : x \notin EffectiveActive(d)'
              \/ entry[m][x] = "pending" /\ entry'[m][x] = "acked" /\ <<x, m>> \in processed',
           \A d \in Did : EffectiveActive(d)' \subseteq EffectiveActive(d)
    PROVE  IInv'
<1> USE InboxAssumption DEF IInv
<1>1. Stored \subseteq Msg /\ online \subseteq Device /\ \A m \in Stored : row[m].to \in Did
  BY DEF Stored, TypeOK, Row
<1>2. ASSUME NEW m \in Msg, NEW x \in Device
      PROVE  /\ entry'[m][x] = "acked" => <<x, m>> \in processed'
             /\ entry'[m][x] = "sender-excluded" => <<x, m>> \in authored'
  <2>1. /\ entry[m][x] = "acked" => <<x, m>> \in processed
        /\ entry[m][x] = "sender-excluded" => <<x, m>> \in authored
    BY DEF AckedIsProcessed, ExcludedIsAuthor
  <2>2. \/ entry'[m][x] = entry[m][x]
        \/ entry'[m][x] = "none"
        \/ entry'[m][x] = "acked" /\ <<x, m>> \in processed'
    OBVIOUS
  <2> QED
    BY <2>1, <2>2
<1>3. EntryOfRecipient'
  <2> SUFFICES ASSUME NEW m \in Stored', NEW x \in Device, entry'[m][x] # "none"
               PROVE  DidOf[x] = row'[m].to
    BY DEF EntryOfRecipient
  <2>1. m \in Msg /\ m \in Stored /\ entry[m][x] # "none"
    BY <1>1
  <2> QED
    BY <2>1 DEF EntryOfRecipient
<1>4. ActiveDevicesTracked'
  <2> SUFFICES ASSUME NEW m \in Stored', NEW x \in online', x \in EffectiveActive(row[m].to)'
               PROVE  entry'[m][x] # "none"
    BY DEF ActiveDevicesTracked
  <2>1. row'[m].to = row[m].to /\ row[m].to \in Did /\ m \in Msg /\ m \in Stored /\ x \in Device
    BY <1>1
  <2>2. \E d \in Did : d = row[m].to /\ x \in EffectiveActive(d)'
    BY <2>1 DEF EffectiveActive
  <2>3. entry[m][x] # "none"
    BY <2>1, <2>2 DEF ActiveDevicesTracked
  <2> QED
    BY <2>1, <2>2, <2>3
<1>5. PendingIsOffered'
  BY <1>1 DEF PendingIsOffered
<1> QED
  BY <1>2, <1>3, <1>4, <1>5 DEF AckedIsProcessed, ExcludedIsAuthor

LEMMA AckIInv ==
    ASSUME IInv, NEW x \in Device, NEW m \in Msg, Ack(x, m) PROVE IInv'
<1> DEFINE st == [entry[m] EXCEPT ![x] = "acked"]
<1>1. st \in [Device -> Status] /\ NoEntries \in [Device -> Status]
  BY DEF IInv, TypeOK, Status, NoEntries
<1>2. UNCHANGED <<now, seen, revoked, online, sent, processed, authored, faults>>
      /\ m \in Stored /\ entry[m][x] = "pending" /\ <<x, m>> \in processed
  BY DEF Ack
<1>3. \/ row' = [row EXCEPT ![m] = None] /\ entry' = [entry EXCEPT ![m] = NoEntries]
      \/ row' = row /\ entry' = [entry EXCEPT ![m] = st]
  BY DEF Ack, Settle
<1>4. \/ Stored' = Stored \ {m}
      \/ Stored' = Stored
  BY <1>3 DEF Stored, IInv, TypeOK
<1>5. TypeOK'
  <2>1. row' \in [Msg -> Row \cup {None}] /\ entry' \in [Msg -> [Device -> Status]]
    BY <1>1, <1>3 DEF IInv, TypeOK
  <2>2. \A n \in Msg \ Stored' : entry'[n] = NoEntries'
    <3>1. \A n \in Msg \ Stored : n # m /\ entry[n] = NoEntries
      BY <1>2 DEF IInv, TypeOK
    <3>2. NoEntries' = NoEntries
      BY DEF NoEntries
    <3>3. CASE row' = [row EXCEPT ![m] = None] /\ entry' = [entry EXCEPT ![m] = NoEntries]
      BY <3>1, <3>2, <3>3, <1>4 DEF IInv, TypeOK
    <3>4. CASE row' = row /\ entry' = [entry EXCEPT ![m] = st]
      <4>1. Stored' = Stored
        BY <3>4 DEF Stored
      <4> QED
        BY <3>1, <3>2, <3>4, <4>1 DEF IInv, TypeOK
    <3> QED
      BY <1>3, <3>3, <3>4
  <2> QED
    BY <1>2, <2>1, <2>2 DEF IInv, TypeOK
<1>6. \A n \in Stored' : row'[n] = row[n]
  BY <1>3 DEF Stored, IInv, TypeOK
<1>7. \A n \in Msg, y \in Device :
         \/ entry'[n][y] = entry[n][y]
         \/ n \notin Stored' /\ entry'[n][y] = "none"
         \/ entry[n][y] = "pending" /\ entry'[n][y] = "acked" /\ <<y, n>> \in processed'
  <2>1. CASE row' = [row EXCEPT ![m] = None] /\ entry' = [entry EXCEPT ![m] = NoEntries]
    <3>1. m \notin Stored'
      BY <2>1 DEF Stored, IInv, TypeOK
    <3> QED
      BY <2>1, <3>1 DEF IInv, TypeOK, NoEntries
  <2>2. CASE row' = row /\ entry' = [entry EXCEPT ![m] = st]
    BY <1>2, <2>2 DEF IInv, TypeOK
  <2> QED
    BY <1>3, <2>1, <2>2
<1>8. \A d \in Did : EffectiveActive(d)' = EffectiveActive(d)
  BY <1>2 DEF EffectiveActive
<1> QED
  BY <1>2, <1>4, <1>5, <1>6, <1>7, <1>8, ShrinkIInv

LEMMA RevokeIInv ==
    ASSUME IInv, NEW x \in Device, Revoke(x) PROVE IInv'
<1>1. PICK done \in SUBSET Stored :
         /\ row' = [m \in Msg |-> IF m \in done THEN None ELSE row[m]]
         /\ entry' = [m \in Msg |-> IF m \in done THEN NoEntries ELSE Without(x)[m]]
  BY DEF Revoke
<1>2. /\ Without(x) \in [Msg -> [Device -> Status]] /\ NoEntries \in [Device -> Status]
      /\ \A m \in Msg, y \in Device : Without(x)[m][y] = IF y = x THEN "none" ELSE entry[m][y]
      /\ \A m \in Msg \ Stored : Without(x)[m] = NoEntries
  BY DEF Without, IInv, TypeOK, Status, NoEntries
<1>3. /\ UNCHANGED <<now, online, sent, processed, authored, faults>>
      /\ revoked' = revoked \cup {x} /\ seen' \in [Device -> Int]
      /\ \A y \in Device \ {x} : seen'[y] = seen[y]
  BY DEF Revoke, IInv, TypeOK
<1>4. Stored' = Stored \ done /\ \A m \in Stored' : row'[m] = row[m]
  BY <1>1 DEF Stored
<1>5. TypeOK'
  <2>1. row' \in [Msg -> Row \cup {None}] /\ entry' \in [Msg -> [Device -> Status]]
    BY <1>1, <1>2 DEF IInv, TypeOK
  <2>2. \A m \in Msg \ Stored' : entry'[m] = NoEntries'
    BY <1>1, <1>2, <1>4 DEF NoEntries
  <2> QED
    BY <1>3, <2>1, <2>2 DEF IInv, TypeOK
<1>6. \A d \in Did : EffectiveActive(d)' \subseteq EffectiveActive(d) \ {x}
  BY <1>3 DEF EffectiveActive
<1>7. \A n \in Msg, y \in Device :
         \/ entry'[n][y] = entry[n][y]
         \/ n \notin Stored' /\ entry'[n][y] = "none"
         \/ entry'[n][y] = "none" /\ \A d \in Did : y \notin EffectiveActive(d)'
  BY <1>1, <1>2, <1>4, <1>6 DEF NoEntries
<1> QED
  BY <1>3, <1>4, <1>5, <1>6, <1>7, ShrinkIInv

LEMMA CollectIInv ==
    ASSUME IInv, CollectGarbage PROVE IInv'
<1> DEFINE idle == {x \in Device : seen[x] >= 0 /\ seen[x] < now - Inactive}
<1>1. PICK gone \in SUBSET Stored :
         /\ row' = [m \in Msg |-> IF m \in gone THEN None ELSE row[m]]
         /\ entry' = [m \in Msg |-> [x \in Device |->
                         IF m \in gone \/ x \in idle THEN "none" ELSE entry[m][x]]]
  BY DEF CollectGarbage
<1>2. UNCHANGED <<now, seen, revoked, online, sent, processed, authored, faults>>
  BY DEF CollectGarbage
<1>3. Stored' = Stored \ gone /\ \A m \in Stored' : row'[m] = row[m]
  BY <1>1 DEF Stored
<1>4. \A d \in Did : EffectiveActive(d)' = EffectiveActive(d) /\ EffectiveActive(d) \cap idle = {}
  BY <1>2, InboxAssumption DEF EffectiveActive, IInv, TypeOK
<1>5. TypeOK'
  <2>1. row' \in [Msg -> Row \cup {None}] /\ entry' \in [Msg -> [Device -> Status]]
    BY <1>1 DEF IInv, TypeOK, Status
  <2>2. \A m \in Msg \ Stored' : entry'[m] = NoEntries'
    BY <1>1, <1>3 DEF NoEntries, IInv, TypeOK
  <2> QED
    BY <1>2, <2>1, <2>2 DEF IInv, TypeOK
<1>6. \A n \in Msg, y \in Device :
         \/ entry'[n][y] = entry[n][y]
         \/ n \notin Stored' /\ entry'[n][y] = "none"
         \/ entry'[n][y] = "none" /\ \A d \in Did : y \notin EffectiveActive(d)'
  BY <1>1, <1>3, <1>4
<1> QED
  BY <1>2, <1>3, <1>4, <1>5, <1>6, ShrinkIInv

(* One step per action of Next.                                              *)
LEMMA NextIInv == IInv /\ [Next]_vars => IInv'
<1> SUFFICES ASSUME IInv, [Next]_vars PROVE IInv'
  OBVIOUS
<1>1. ASSUME NEW x \in Device, Register(x) PROVE IInv'
  BY <1>1, RegisterIInv
<1>2. ASSUME NEW x \in Device, CrashInRegister(x) PROVE IInv'
  BY <1>2 DEF CrashInRegister, Restart, IInv, TypeOK, AckedIsProcessed, ExcludedIsAuthor,
     EntryOfRecipient, ActiveDevicesTracked, PendingIsOffered, Stored, NoEntries
<1>3. ASSUME NEW x \in Device, Disconnect(x) PROVE IInv'
  BY <1>3 DEF Disconnect, IInv, TypeOK, AckedIsProcessed, ExcludedIsAuthor,
     EntryOfRecipient, ActiveDevicesTracked, PendingIsOffered, Stored, NoEntries, EffectiveActive
<1>4. ASSUME NEW x \in Device, Revoke(x) PROVE IInv'
  BY <1>4, RevokeIInv
<1>5. ASSUME NEW x \in Device, CrashInRevoke(x) PROVE IInv'
  BY <1>5 DEF CrashInRevoke, Restart, IInv, TypeOK, AckedIsProcessed, ExcludedIsAuthor,
     EntryOfRecipient, ActiveDevicesTracked, PendingIsOffered, Stored, NoEntries
<1>6. ASSUME NEW x \in Device, NEW m \in Msg, NEW d \in Did, NEW e \in Env, Send(x, m, d, e)
      PROVE  IInv'
  BY <1>6, SendIInv
<1>7. ASSUME NEW x \in Device, NEW m \in Msg, Process(x, m) PROVE IInv'
  BY <1>7 DEF Process, IInv, TypeOK, AckedIsProcessed, ExcludedIsAuthor,
     EntryOfRecipient, ActiveDevicesTracked, PendingIsOffered, Stored, NoEntries, EffectiveActive
<1>8. ASSUME NEW x \in Device, NEW m \in Msg, Ack(x, m) PROVE IInv'
  BY <1>8, AckIInv
<1>9. CASE CollectGarbage
  BY <1>9, CollectIInv
<1>10. CASE Crash
  BY <1>10 DEF Crash, Restart, IInv, TypeOK, AckedIsProcessed, ExcludedIsAuthor,
     EntryOfRecipient, ActiveDevicesTracked, PendingIsOffered, Stored, NoEntries
<1>11. CASE Tick
  <2>1. \A d : EffectiveActive(d)' \subseteq EffectiveActive(d)
    BY <1>11, InboxAssumption DEF Tick, EffectiveActive, IInv, TypeOK
  <2>2. TypeOK' /\ Stored' = Stored
    BY <1>11 DEF Tick, IInv, TypeOK, Stored, NoEntries
  <2> QED
    BY <1>11, <2>1, <2>2, ShrinkIInv DEF Tick
<1>12. CASE UNCHANGED vars
  BY <1>12 DEF vars, IInv, TypeOK, AckedIsProcessed, ExcludedIsAuthor,
     EntryOfRecipient, ActiveDevicesTracked, PendingIsOffered, Stored, NoEntries, EffectiveActive
<1> QED
  BY <1>1, <1>2, <1>3, <1>4, <1>5, <1>6, <1>7, <1>8, <1>9, <1>10, <1>11, <1>12 DEF Next

(* TypeOK of the inbox tables and the connections.                           *)
THEOREM TypeCorrect == Spec => []TypeOK
<1>1. IInv => TypeOK
  BY DEF IInv
<1> QED
  BY InitIInv, NextIInv, <1>1, PTL DEF Spec

(* The fan-out set is the completeness set, through crashes and GC.          *)
THEOREM ActiveDevicesAreTracked == Spec => []ActiveDevicesTracked
<1>1. IInv => ActiveDevicesTracked
  BY DEF IInv
<1> QED
  BY InitIInv, NextIInv, <1>1, PTL DEF Spec

(* What is pending for a connected device was written to its socket.         *)
THEOREM PendingIsAlwaysOffered == Spec => []PendingIsOffered
<1>1. IInv => PendingIsOffered
  BY DEF IInv
<1> QED
  BY InitIInv, NextIInv, <1>1, PTL DEF Spec

(* Nothing is lost before its time to live is over: the acknowledgements     *)
(* that make a message complete are evidence that every device of the        *)
(* recipient that is still active has it.                                    *)
THEOREM NothingIsLostSilently == Spec => NoSilentLoss
<1> DEFINE Lossless ==
      \A m \in Stored, d \in Did : row[m].to = d /\ row'[m] = None =>
         \/ row[m].at < now - Ttl
         \/ /\ \E x \in Device : <<x, m>> \in processed
            /\ \A x \in EffectiveActive(d)' : <<x, m>> \in processed \cup authored
<1>1. IInv /\ [Next]_vars => [Lossless]_vars
  <2> SUFFICES ASSUME IInv, Next, NEW m \in Stored, NEW d \in Did, row[m].to = d, row'[m] = None,
                      ~(row[m].at < now - Ttl)
               PROVE  /\ \E x \in Device : <<x, m>> \in processed
                      /\ \A x \in EffectiveActive(d)' : <<x, m>> \in processed \cup authored
    BY DEF vars
  <2>1. m \in Msg /\ row[m] # None
    BY DEF Stored
  <2>2. ASSUME NEW x \in Device, NEW n \in Msg, Ack(x, n)
        PROVE  /\ \E y \in Device : <<y, m>> \in processed
               /\ \A y \in EffectiveActive(d)' : <<y, m>> \in processed \cup authored
    <3> DEFINE st == [entry[n] EXCEPT ![x] = "acked"]
    <3>1. n = m /\ IsFullyDelivered(st, EffectiveActive(d)) /\ <<x, m>> \in processed
      BY <2>1, <2>2 DEF Ack, Settle, IInv, TypeOK
    <3>2. EffectiveActive(d)' = EffectiveActive(d)
      BY <2>2 DEF Ack, EffectiveActive
    <3>3. /\ st \in [Device -> Status]
          /\ \A y \in Device : st[y] = "acked" => <<y, m>> \in processed
          /\ \A y \in Device : st[y] = "sender-excluded" => <<y, m>> \in authored
      BY <3>1 DEF IInv, TypeOK, AckedIsProcessed, ExcludedIsAuthor, Status
    <3>4. EffectiveActive(d) \subseteq Device
      BY DEF EffectiveActive
    <3> QED
      BY <3>1, <3>2, <3>3, <3>4, <2>1, DeliveredIsKnown
  <2>3. ASSUME NEW x \in Device, Revoke(x)
        PROVE  /\ \E y \in Device : <<y, m>> \in processed
               /\ \A y \in EffectiveActive(d)' : <<y, m>> \in processed \cup authored
    <3>1. IsFullyDelivered(Without(x)[m], EffectiveActive(d) \ {x})
      BY <2>1, <2>3 DEF Revoke
    <3>2. EffectiveActive(d)' \subseteq EffectiveActive(d) \ {x}
      BY <2>3 DEF Revoke, EffectiveActive, IInv, TypeOK
    <3>3. /\ Without(x)[m] \in [Device -> Status]
          /\ \A y \in Device : Without(x)[m][y] = "acked" => <<y, m>> \in processed
          /\ \A y \in Device : Without(x)[m][y] = "sender-excluded" => <<y, m>> \in authored
      BY <2>1 DEF Without, IInv, TypeOK, AckedIsProcessed, ExcludedIsAuthor, Status
    <3>4. EffectiveActive(d) \ {x} \in SUBSET Device
      BY DEF EffectiveActive
    <3> QED
      BY <3>1, <3>2, <3>3, <3>4, <2>1, DeliveredIsKnown
  <2>4. ASSUME CollectGarbage
        PROVE  /\ \E y \in Device : <<y, m>> \in processed
               /\ \A y \in EffectiveActive(d)' : <<y, m>> \in processed \cup authored
    <3>1. IsFullyDelivered(entry[m], EffectiveActive(d))
      BY <2>1, <2>4 DEF CollectGarbage
    <3>2. EffectiveActive(d)' = EffectiveActive(d)
      BY <2>4 DEF CollectGarbage, EffectiveActive
    <3>3. /\ entry[m] \in [Device -> Status]
          /\ \A y \in Device : entry[m][y] = "acked" => <<y, m>> \in processed
          /\ \A y \in Device : entry[m][y] = "sender-excluded" => <<y, m>> \in authored
      BY <2>1 DEF IInv, TypeOK, AckedIsProcessed, ExcludedIsAuthor
    <3>4. EffectiveActive(d) \in SUBSET Device
      BY DEF EffectiveActive
    <3> QED
      BY <3>1, <3>2, <3>3, <3>4, <2>1, DeliveredIsKnown
  <2>5. ASSUME NEW x \in Device, NEW n \in Msg, NEW c \in Did, NEW e \in Env, Send(x, n, c, e)
        PROVE  row'[m] # None
    BY <2>1, <2>5, InboxAssumption DEF Send, IInv, TypeOK
  <2>6. row' # row =>
          \/ \E x \in Device, n \in Msg : Ack(x, n)
          \/ \E x \in Device : Revoke(x)
          \/ CollectGarbage
          \/ \E x \in Device, n \in Msg, c \in Did, e \in Env : Send(x, n, c, e)
    BY DEF Next, Register, CrashInRegister, Disconnect, CrashInRevoke, Process, Crash, Tick, Restart
  <2> QED
    BY <2>1, <2>2, <2>3, <2>4, <2>5, <2>6
<1>2. Spec => []IInv
  BY InitIInv, NextIInv, PTL DEF Spec
<1> QED
  BY <1>1, <1>2, PTL DEF Spec, NoSilentLoss

=============================================================================
