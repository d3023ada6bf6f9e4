----------------------- MODULE SeqReservation_proofs -----------------------
(***************************************************************************)
(* Proofs about SeqReservation for every set of devices, tabs, calls and   *)
(* updates and for both kinds of lock.  The nonce property is not          *)
(* inductive: it needs to know that a device whose entries left the log is *)
(* never authored under again, and that whatever a call is about to send   *)
(* is in the log.                                                          *)
(***************************************************************************)
EXTENDS SeqReservation, TLAPS

\* No two stored entries share a key (the composite key of ENTRIES_STORE).
LogKeysUnique == UniqueKeys(log)

\* The device is not in use: nothing of it is stored, no tab and no call
\* authors under it.
Retired(d) ==
    /\ EntriesOf(d) = {}
    /\ \A t \in Tab : session[t] # d /\ d \notin rebind[t]
    /\ \A w \in Writer : pc[w] # "idle" => wdev[w] # d

\* What reached the wire is still stored, unless its device is retired.
WireStoredOrRetired == \A e \in wire : e \in log \/ Retired(e.dev)

\* Every deviceId in use was minted, so a fresh one collides with none.
UsedWasMinted ==
    /\ \A e \in log \cup wire : e.dev \in minted
    /\ \A t \in Tab : session[t] \in minted \cup {None} /\ rebind[t] \subseteq minted
    /\ meta \in minted \cup {None}

\* A call runs in an open tab, under a deviceId and with an update.
CallsRunInTabs ==
    /\ \A w \in Writer : pc[w] # "idle" =>
         /\ session[TabOf[w]] # None
         /\ wdev[w] \in minted
         /\ wupd[w] \in Update
    /\ \A t \in Tab : rebind[t] # {} => session[t] # None

\* Persist before send.
SendIsStored == \A w \in Writer : pc[w] = "send" => Built(w) \in log

\* A stored device has a largest seq: what readMaxSeq returns.
HasMaxSeq ==
    \A d \in Device : EntriesOf(d) # {} =>
        \E m \in EntriesOf(d) : \A e \in EntriesOf(d) : e.seq <= m.seq

\* Everything below a reserved seq is stored.
BelowReserved ==
    \A w \in Writer : pc[w] = "build" =>
        \A n \in 0 .. wseq[w] - 1 : \E f \in log : f.dev = wdev[w] /\ f.seq = n

IInv ==
    /\ TypeOK
    /\ LogKeysUnique
    /\ NonceUnique
    /\ WireStoredOrRetired
    /\ UsedWasMinted
    /\ CallsRunInTabs
    /\ SendIsStored
    /\ HasMaxSeq
    /\ OwnLogContiguous
    /\ BelowReserved

(* readMaxSeq of a stored device is the seq of one of its entries and        *)
(* bounds all of them; of an empty log it is -1.                             *)
LEMMA MaxSeqIsMax ==
    ASSUME TypeOK, HasMaxSeq, NEW d \in Device
    PROVE  /\ MaxSeq(d) + 1 \in Nat
           /\ EntriesOf(d) # {} => \E e \in EntriesOf(d) : e.seq = MaxSeq(d)
<1>1. CASE EntriesOf(d) = {}
  BY <1>1 DEF MaxSeq
<1>2. CASE EntriesOf(d) # {}
  <2> DEFINE S == {e.seq : e \in EntriesOf(d)}
             P(n) == \A e \in EntriesOf(d) : e.seq <= n
  <2>1. \E n \in S : P(n)
    BY <1>2 DEF HasMaxSeq
  <2>2. (CHOOSE n \in S : P(n)) \in S
    BY <2>1
  <2>3. MaxSeq(d) \in S
    BY <1>2, <2>2 DEF MaxSeq
  <2>4. S \subseteq Nat
    BY DEF EntriesOf, TypeOK, Entry
  <2>5. MaxSeq(d) \in Nat
    BY <2>3, <2>4
  <2>6. \E e \in EntriesOf(d) : e.seq = MaxSeq(d)
    BY <2>3
  <2> QED
    BY <2>5, <2>6
<1> QED
  BY <1>1, <1>2

LEMMA InitIInv == Init => IInv
<1> SUFFICES ASSUME Init PROVE IInv
  OBVIOUS
<1> USE SeqAssumption DEF Init
<1>1. TypeOK
  BY DEF TypeOK
<1> QED
  BY <1>1 DEF IInv, LogKeysUnique, NonceUnique, UniqueKeys, WireStoredOrRetired,
     UsedWasMinted, CallsRunInTabs, SendIsStored, HasMaxSeq, EntriesOf,
     OwnLogContiguous, BelowReserved


(* One step per action of Next: the inductive invariant is preserved.        *)
LEMMA NextIInv == IInv /\ [Next]_vars => IInv'
<1> SUFFICES ASSUME IInv, [Next]_vars PROVE IInv'
  OBVIOUS
<1> USE SeqAssumption DEF IInv, TypeOK, Entry, Built, UniqueKeys, EntriesOf,
        LogKeysUnique, NonceUnique, WireStoredOrRetired, Retired, UsedWasMinted,
        CallsRunInTabs, SendIsStored, HasMaxSeq, OwnLogContiguous, BelowReserved,
        durable, tabs, writers
<1>1. ASSUME NEW t \in Tab, ResumeDevice(t) PROVE IInv'
  BY <1>1 DEF ResumeDevice, Connect
<1>2. ASSUME NEW t \in Tab, RebindOrphan(t) PROVE IInv'
  BY <1>2 DEF RebindOrphan, Connect, Pending
<1>3. ASSUME NEW t \in Tab, NEW d \in Device, RotateDevice(t, d) PROVE IInv'
  BY <1>3 DEF RotateDevice, Connect
<1>4. ASSUME NEW t \in Tab, NEW d \in Device, ColdStart(t, d) PROVE IInv'
  BY <1>4 DEF ColdStart, Connect
<1>5. ASSUME NEW t \in Tab, NEW d \in Device, RestoreClone(t, d) PROVE IInv'
  BY <1>5 DEF RestoreClone, MintForRebind
<1>6. ASSUME NEW t \in Tab, NEW d \in Device, DeviceReRegister(t, d) PROVE IInv'
  BY <1>6 DEF DeviceReRegister, MintForRebind
<1>7. ASSUME NEW t \in Tab, NEW d \in Device, RebindDone(t, d) PROVE IInv'
  BY <1>7 DEF RebindDone
<1>8. ASSUME NEW t \in Tab, NEW d \in Device, RebindFails(t, d) PROVE IInv'
  BY <1>8 DEF RebindFails
<1>9. ASSUME NEW t \in Tab, CloseTab(t) PROVE IInv'
  BY <1>9 DEF CloseTab
<1>10. ASSUME NEW t \in Tab, NEW e \in Pending, ResendPending(t, e) PROVE IInv'
  BY <1>10 DEF ResendPending, Pending
<1>11. ASSUME NEW t \in Tab, NEW e \in Pending, ReceiveReceipt(t, e) PROVE IInv'
  BY <1>11 DEF ReceiveReceipt, Pending
<1>12. ASSUME NEW w \in Writer, NEW u \in Update, StartWrite(w, u) PROVE IInv'
  BY <1>12 DEF StartWrite
<1>13. ASSUME NEW w \in Writer, AcquireLock(w) PROVE IInv'
  BY <1>13 DEF AcquireLock
<1>14. ASSUME NEW w \in Writer, ReserveSeq(w) PROVE IInv'
  <2>1. wdev[w] \in Device
    BY <1>14 DEF ReserveSeq
  <2>2. /\ MaxSeq(wdev[w]) + 1 \in Nat
        /\ EntriesOf(wdev[w]) # {} => \E e \in EntriesOf(wdev[w]) : e.seq = MaxSeq(wdev[w])
        /\ EntriesOf(wdev[w]) = {} => MaxSeq(wdev[w]) = -1
    BY <2>1, MaxSeqIsMax DEF MaxSeq
  <2>3. \A n \in 0 .. MaxSeq(wdev[w]) : \E f \in log : f.dev = wdev[w] /\ f.seq = n
    BY <2>1, <2>2
  <2>4. /\ UNCHANGED <<durable, tabs, wdev, wupd, tries, written, wire, minted>>
        /\ pc[w] = "reserve" /\ pc' = [pc EXCEPT ![w] = "build"]
        /\ wseq' = [wseq EXCEPT ![w] = MaxSeq(wdev[w]) + 1]
    BY <1>14 DEF ReserveSeq
  <2>5. TypeOK'  BY <2>2, <2>4
  <2>6. LogKeysUnique' /\ NonceUnique' /\ HasMaxSeq' /\ OwnLogContiguous' /\ UsedWasMinted'
    <3>1. UNCHANGED <<log, wire, minted, session, rebind, meta>>  BY <2>4
    <3>2. LogKeysUnique' /\ NonceUnique' /\ OwnLogContiguous'  BY <3>1
    <3>3. HasMaxSeq'  BY <3>1
    <3>4. UsedWasMinted'  BY <3>1
    <3> QED  BY <3>2, <3>3, <3>4
  <2>7. WireStoredOrRetired'  BY <2>4
  <2>8. CallsRunInTabs'  BY <2>4
  <2>9. SendIsStored'  BY <2>4
  <2>10. BelowReserved'
    <3> SUFFICES ASSUME NEW v \in Writer, pc'[v] = "build", NEW n \in 0 .. wseq'[v] - 1
                 PROVE  \E f \in log : f.dev = wdev[v] /\ f.seq = n
        BY <2>4
    <3>1. CASE v = w  BY <2>2, <2>3, <2>4, <3>1
    <3>2. CASE v # w  BY <2>4, <3>2
    <3> QED  BY <3>1, <3>2
  <2> QED
    BY <2>5, <2>6, <2>7, <2>8, <2>9, <2>10
<1>15. ASSUME NEW w \in Writer, PersistEntry(w) PROVE IInv'
  <2>1. /\ UNCHANGED <<meta, acked, tabs, wdev, wseq, wupd, tries, written, wire, minted>>
        /\ pc[w] = "build" /\ pc' = [pc EXCEPT ![w] = "send"]
        /\ log' = log \cup {Built(w)}
        /\ \A e \in log : ~(e.dev = wdev[w] /\ e.seq = wseq[w])
    BY <1>15 DEF PersistEntry
  <2>2. wdev[w] \in minted /\ wdev[w] \in Device /\ Built(w) \in Entry
    BY <2>1
  <2>3. TypeOK'  BY <2>1, <2>2
  <2>4. LogKeysUnique' /\ NonceUnique'  BY <2>1, <2>2
  <2>5. WireStoredOrRetired'  BY <2>1, <2>2
  <2>6. UsedWasMinted' /\ CallsRunInTabs' /\ SendIsStored'  BY <2>1, <2>2
  <2>7. HasMaxSeq'
    <3> SUFFICES ASSUME NEW d \in Device, NEW x \in log', x.dev = d
                 PROVE  \E m \in log' : m.dev = d /\ \A e \in log' : e.dev = d => e.seq <= m.seq
        OBVIOUS
    <3>1. CASE d # wdev[w]  BY <2>1, <2>2, <3>1
    <3>2. CASE d = wdev[w] /\ EntriesOf(d) = {}  BY <2>1, <2>2, <3>2
    <3>3. CASE d = wdev[w] /\ EntriesOf(d) # {}
      <4>1. PICK m \in log : m.dev = d /\ \A e \in log : e.dev = d => e.seq <= m.seq  BY <3>3
      <4>2. m.seq \in Nat /\ wseq[w] \in Nat /\ \A e \in log : e.seq \in Nat  BY <4>1
      <4>3. CASE m.seq <= wseq[w]  BY <2>1, <2>2, <3>3, <4>1, <4>2, <4>3
      <4>4. CASE ~(m.seq <= wseq[w])  BY <2>1, <2>2, <3>3, <4>1, <4>2, <4>4
      <4> QED  BY <4>3, <4>4
    <3> QED  BY <3>1, <3>2, <3>3
  <2>8. OwnLogContiguous'
    <3> SUFFICES ASSUME NEW e \in log', NEW n \in 0 .. e.seq
                 PROVE  \E f \in log' : f.dev = e.dev /\ f.seq = n
        OBVIOUS
    <3>1. CASE e \in log  BY <2>1, <3>1
    <3>2. CASE e = Built(w) /\ n = wseq[w]  BY <2>1, <3>2
    <3>3. CASE e = Built(w) /\ n # wseq[w]
      <4>1. n \in 0 .. wseq[w] - 1  BY <2>2, <3>3
      <4> QED  BY <2>1, <3>3, <4>1
    <3> QED  BY <2>1, <3>1, <3>2, <3>3
  <2>9. BelowReserved'  BY <2>1, <2>2
  <2> QED
    BY <2>3, <2>4, <2>5, <2>6, <2>7, <2>8, <2>9
<1>16. ASSUME NEW w \in Writer, AddConflict(w) PROVE IInv'
  <2>1. /\ UNCHANGED <<durable, tabs, wire, minted, wdev, wseq, wupd, written>>
        /\ tries' \in [Writer -> Nat]
        /\ \/ pc' = [pc EXCEPT ![w] = "reserve"]
           \/ pc' = [pc EXCEPT ![w] = "idle"]
    BY <1>16 DEF AddConflict, NoWrite
  <2>2. pc[w] = "build"
    BY <1>16 DEF AddConflict
  <2>3. CASE pc' = [pc EXCEPT ![w] = "reserve"]
    BY <2>1, <2>2, <2>3
  <2>4. CASE pc' = [pc EXCEPT ![w] = "idle"]
    BY <2>1, <2>2, <2>4
  <2> QED
    BY <2>1, <2>3, <2>4
<1>17. ASSUME NEW w \in Writer, SendEntry(w) PROVE IInv'
  BY <1>17 DEF SendEntry, NoWrite
<1>18. ASSUME NEW w \in Writer, BuildFails(w) PROVE IInv'
  BY <1>18 DEF BuildFails, NoWrite
<1>19. ASSUME NEW w \in Writer, SendFails(w) PROVE IInv'
  BY <1>19 DEF SendFails, NoWrite
<1>20. CASE LoseMeta
  BY <1>20 DEF LoseMeta
<1>21. CASE LoseLog
  BY <1>21 DEF LoseLog, AllClosed
<1>22. CASE UNCHANGED vars
  BY <1>22 DEF vars
<1> QED
  BY <1>1, <1>2, <1>3, <1>4, <1>5, <1>6, <1>7, <1>8, <1>9, <1>10, <1>11, <1>12, <1>13, <1>14, <1>15, <1>16, <1>17, <1>18, <1>19, <1>20, <1>21, <1>22
     DEF Next, OpenTab, WriterStep

(* TypeOK holds in every behaviour of the store, tabs and calls.             *)
THEOREM TypeCorrect == Spec => []TypeOK
<1>1. IInv => TypeOK
  BY DEF IInv
<1> QED
  BY InitIInv, NextIInv, <1>1, PTL DEF Spec

(* appendLocalEntry and resolveConnectDeviceId: however many tabs race with  *)
(* or without Web Locks, crash or lose their storage, no (deviceId, seq)     *)
(* reaches the wire with two contents.                                       *)
THEOREM NonceNeverReused == Spec => []NonceUnique
<1>1. IInv => NonceUnique
  BY DEF IInv
<1> QED
  BY InitIInv, NextIInv, <1>1, PTL DEF Spec

(* The own log never has a hole (DocLogStore.ts: for the own deviceId the    *)
(* strict head is the max head).                                             *)
THEOREM OwnLogHasNoHoles == Spec => []OwnLogContiguous
<1>1. IInv => OwnLogContiguous
  BY DEF IInv
<1> QED
  BY InitIInv, NextIInv, <1>1, PTL DEF Spec

=============================================================================
