-------------------------- MODULE Messaging_proofs --------------------------
(***************************************************************************)
(* Proofs about Messaging for any numbers of tabs, brokers, messages and   *)
(* retries: the implementation of ReliableSend, the routing of the log     *)
(* messages, and the retry count that several tabs write without a lock.   *)
(*                                                                         *)
(* The last part is about BrokerLink, the single connection underneath:    *)
(* its state tells the truth and is supervised, and no socket lingers.     *)
(* The two modules share no name and no variable.                          *)
(***************************************************************************)
EXTENDS Messaging, BrokerLink, FiniteSetTheorems, TLAPS

\* A queued message stays in the store until a broker has it or it is dropped.
Kept(m) == outbox[m] # None \/ Held(m) \/ m \in dropped

Evidence ==
    /\ \A m \in Msg : /\ call[m] = "delivered" => Held(m)
                      /\ call[m] = "queued" => Kept(m)
    /\ \A t \in Tab : /\ \A e \in flush[t].snap : Kept(e[1])
                      /\ flush[t].cur # None => Kept(flush[t].cur)

IInv == TypeOK /\ Evidence

LEMMA InitIInv == Init => IInv
  BY MessagingAssumption DEF Init, IInv, TypeOK, Evidence, Kept, Held, Idle, Flush, Call

(* Nothing that is kept is lost by a step that only adds to the brokers.     *)
LEMMA KeptIsStable ==
    ASSUME TypeOK, NEW m \in Msg,
           \A b \in Broker : held[b] \subseteq held'[b],
           dropped \subseteq dropped',
           outbox'[m] = None => outbox[m] = None \/ Held(m)' \/ m \in dropped'
    PROVE  (Held(m) => Held(m)') /\ (Kept(m) => Kept(m)')
  BY DEF Kept, Held

\* What a step makes of the flush of one tab.
Resumed(t, new) == flush' = [flush EXCEPT ![t] = new]

LEMMA ResumedFacts ==
    ASSUME IInv, NEW t \in Tab, NEW new \in Flush, Resumed(t, new),
           new.cur # None <=> new.pc \in {"wait", "bump"}
    PROVE  /\ flush' \in [Tab -> Flush]
           /\ \A u \in Tab : flush'[u].cur # None <=> flush'[u].pc \in {"wait", "bump"}
           /\ flush'[t] = new /\ \A u \in Tab \ {t} : flush'[u] = flush[u]
  BY DEF IInv, TypeOK, Resumed

(* A flush that starts has read nothing yet.                                 *)
LEMMA StartFacts ==
    ASSUME IInv, NEW t \in Tab, flush' = flush \/ flush' = Start(t)
    PROVE  /\ flush' \in [Tab -> Flush]
           /\ \A u \in Tab : flush'[u].cur # None <=> flush'[u].pc \in {"wait", "bump"}
           /\ \A u \in Tab : flush'[u].snap = flush[u].snap /\ flush'[u].cur = flush[u].cur
<1> DEFINE new == [flush[t] EXCEPT !.pc = "read"]
<1>1. CASE flush' = flush
  BY <1>1 DEF IInv, TypeOK
<1>2. CASE flush[t].pc = "idle" /\ flush' = [flush EXCEPT ![t].pc = "read"]
  <2>1. flush[t] \in Flush /\ flush[t].cur = None
    BY <1>2 DEF IInv, TypeOK
  <2>2. new \in Flush /\ new.snap = flush[t].snap /\ new.cur = None /\ new.pc = "read"
    BY <2>1 DEF Flush
  <2>3. Resumed(t, new)
    BY <1>2 DEF Resumed
  <2> HIDE DEF new
  <2> QED
    BY <2>1, <2>2, <2>3, ResumedFacts
<1> QED
  BY <1>1, <1>2 DEF Start

LEMMA UpIInv == ASSUME IInv, NEW t \in Tab, NEW b \in Broker, Up(t, b) PROVE IInv'
<1> USE MessagingAssumption DEF IInv
<1>1. TypeOK'
  <2>1. up' \in [Tab -> SUBSET Broker]
    BY DEF TypeOK, Up
  <2>2. flush' = flush \/ flush' = Start(t)
    BY DEF Up
  <2> QED
    BY <2>1, <2>2, StartFacts DEF TypeOK, Up
<1>2. \A u \in Tab : flush'[u].snap = flush[u].snap /\ flush'[u].cur = flush[u].cur
  BY StartFacts DEF Up
<1>3. Evidence'
  BY <1>2 DEF Evidence, Kept, Held, Up
<1> QED
  BY <1>1, <1>3

LEMMA DownIInv == ASSUME IInv, NEW t \in Tab, NEW b \in Broker, Down(t, b) PROVE IInv'
<1> USE MessagingAssumption DEF IInv
<1>1. TypeOK'
  <2>1. up' \in [Tab -> SUBSET Broker]
    BY DEF TypeOK, Down
  <2>2. wire' \subseteq Frame
    BY DEF TypeOK, Down
  <2>3. held' \in [Broker -> SUBSET Msg]
    BY DEF TypeOK, Down
  <2> QED
    BY <2>1, <2>2, <2>3 DEF TypeOK, Down, Fault
<1>2. \A c \in Broker : held[c] \subseteq held'[c]
  BY DEF TypeOK, Down
<1>3. \A m \in Msg : (Held(m) => Held(m)') /\ (Kept(m) => Kept(m)')
  BY <1>2, KeptIsStable DEF Down
<1>4. Evidence'
  <2>1. \A u \in Tab : \A e \in flush[u].snap : e[1] \in Msg
    BY DEF TypeOK, Flush
  <2>2. \A u \in Tab : flush[u].cur \in Msg \cup {None}
    BY DEF TypeOK, Flush
  <2> QED
    BY <1>3, <2>1, <2>2 DEF Evidence, Down
<1> QED
  BY <1>1, <1>4

LEMMA CloseIInv == ASSUME IInv, NEW t \in Tab, Close(t) PROVE IInv'
<1> USE MessagingAssumption DEF IInv
<1>1. TypeOK'
  BY DEF TypeOK, Close, net, Idle, Flush, Call
<1>2. \A u \in Tab : \/ flush'[u] = flush[u]
                     \/ flush'[u].snap = {} /\ flush'[u].cur = None
  BY DEF TypeOK, Close, Idle
<1>3. \A m \in Msg : call'[m] = call[m] \/ call'[m] = "error"
  BY DEF TypeOK, Close
<1>4. Evidence'
  BY <1>2, <1>3 DEF Evidence, Kept, Held, Close, net
<1> QED
  BY <1>1, <1>4

LEMMA SendIInv == ASSUME IInv, NEW m \in Msg, Send(m) PROVE IInv'
<1> USE MessagingAssumption DEF IInv
<1>1. TypeOK'
  <2>1. wire' \subseteq Frame
    <3>1. From[m] \in Tab /\ Targets(From[m], m) \subseteq Broker
      BY DEF TypeOK, Targets
    <3> QED
      BY <3>1 DEF TypeOK, Send, Transmit, Frame
  <2>2. call' \in [Msg -> Call]
    BY DEF TypeOK, Send, Undelivered, Call
  <2> QED
    BY <2>1, <2>2 DEF TypeOK, Send
<1>2. \A n \in Msg : call'[n] = call[n] \/ call'[n] \in {"error", "queueing", "sending"}
  BY DEF TypeOK, Send, Undelivered
<1>3. Evidence'
  BY <1>2 DEF Evidence, Kept, Held, Send
<1> QED
  BY <1>1, <1>3

LEMMA TakenFacts ==
    ASSUME IInv, NEW t \in Tab, NEW b \in Broker, NEW m \in Msg, Taken(t, b, m)
    PROVE  /\ wire' \subseteq Frame /\ held' \in [Broker -> SUBSET Msg]
           /\ \A c \in Broker : held[c] \subseteq held'[c]
           /\ Held(m)'
           /\ \A n \in Msg \ {m} : Held(n)' <=> Held(n)
  BY DEF IInv, TypeOK, Taken, Held

LEMMA ReceiptIInv ==
    ASSUME IInv, NEW t \in Tab, NEW b \in Broker, NEW m \in Msg, Receipt(t, b, m)
    PROVE  IInv'
<1> USE MessagingAssumption DEF IInv
<1>0. Taken(t, b, m)
  BY DEF Receipt
<1>1. /\ wire' \subseteq Frame /\ held' \in [Broker -> SUBSET Msg]
      /\ \A c \in Broker : held[c] \subseteq held'[c]
      /\ Held(m)'
  BY <1>0, TakenFacts
<1>2. outbox' \in [Msg -> Nat \cup {None}] /\ \A n \in Msg \ {m} : outbox'[n] = outbox[n]
  BY DEF TypeOK, Receipt
<1>3. call' \in [Msg -> Call] /\ \A n \in Msg : call'[n] = call[n] \/ (n = m /\ call'[n] = "delivered")
  BY DEF TypeOK, Receipt, Call
<1>4. /\ flush' \in [Tab -> Flush]
      /\ \A u \in Tab : flush'[u].cur # None <=> flush'[u].pc \in {"wait", "bump"}
      /\ \A u \in Tab : flush'[u].snap = flush[u].snap /\ flush'[u].cur \in {flush[u].cur, None}
  <2>1. CASE flush[t].pc = "wait" /\ flush[t].cur = m
    BY <2>1 DEF TypeOK, Receipt, Flush
  <2>2. CASE ~(flush[t].pc = "wait" /\ flush[t].cur = m)
    BY <2>2 DEF TypeOK, Receipt, Flush
  <2> QED
    BY <2>1, <2>2
<1>5. TypeOK'
  BY <1>1, <1>2, <1>3, <1>4 DEF TypeOK, Receipt
<1>6. \A n \in Msg : (Held(n) => Held(n)') /\ (Kept(n) => Kept(n)')
  BY <1>1, <1>2, KeptIsStable DEF Receipt
<1>7. \A u \in Tab : flush[u].cur \in Msg \cup {None} /\ \A e \in flush[u].snap : e[1] \in Msg
  BY DEF TypeOK, Flush
<1>8. Evidence'
  BY <1>1, <1>3, <1>4, <1>6, <1>7 DEF Evidence
<1> QED
  BY <1>5, <1>8

LEMMA ReceiptLateIInv ==
    ASSUME IInv, NEW t \in Tab, NEW b \in Broker, NEW m \in Msg, ReceiptLate(t, b, m)
    PROVE  IInv'
<1> USE MessagingAssumption DEF IInv
<1>1. Taken(t, b, m)
  BY DEF ReceiptLate
<1>2. TypeOK'
  BY <1>1, TakenFacts DEF TypeOK, ReceiptLate, Fault
<1>3. \A n \in Msg : (Held(n) => Held(n)') /\ (Kept(n) => Kept(n)')
  BY <1>1, TakenFacts, KeptIsStable DEF ReceiptLate
<1>4. \A u \in Tab : flush[u].cur \in Msg \cup {None} /\ \A e \in flush[u].snap : e[1] \in Msg
  BY DEF TypeOK, Flush
<1>5. Evidence'
  BY <1>3, <1>4 DEF Evidence, ReceiptLate
<1> QED
  BY <1>2, <1>5

(* Steps that change neither the brokers nor what is queued or dropped.      *)
LEMMA RefuseIInv ==
    ASSUME IInv, NEW t \in Tab, NEW b \in Broker, NEW m \in Msg, Refuse(t, b, m)
    PROVE  IInv'
  BY MessagingAssumption DEF IInv, TypeOK, Refuse, Fault, Evidence, Kept, Held

LEMMA SendTimeoutIInv == ASSUME IInv, NEW m \in Msg, SendTimeout(m) PROVE IInv'
<1> USE MessagingAssumption DEF IInv
<1>1. TypeOK'
  BY DEF TypeOK, SendTimeout, Undelivered, MaybeFault, Fault, net, Call
<1>2. \A n \in Msg : call'[n] = call[n] \/ call'[n] \in {"error", "queueing"}
  BY DEF TypeOK, SendTimeout, Undelivered
<1>3. Evidence'
  BY <1>2 DEF Evidence, Kept, Held, SendTimeout, net
<1> QED
  BY <1>1, <1>3

LEMMA EnqueueIInv == ASSUME IInv, NEW m \in Msg, Enqueue(m) PROVE IInv'
<1> USE MessagingAssumption DEF IInv
<1>1. TypeOK'
  BY DEF TypeOK, Enqueue, net, Call
<1>2. \A n \in Msg : (outbox[n] # None => outbox'[n] # None) /\ (n = m => outbox'[n] # None)
  BY DEF TypeOK, Enqueue
<1>3. \A n \in Msg : Kept(n) => Kept(n)'
  BY <1>2 DEF Kept, Held, Enqueue, net
<1>4. \A n \in Msg : call'[n] = call[n] \/ (n = m /\ call'[n] = "queued")
  BY DEF TypeOK, Enqueue
<1>5. Kept(m)'
  BY <1>2 DEF Kept
<1>6. \A u \in Tab : flush[u].cur \in Msg \cup {None} /\ \A e \in flush[u].snap : e[1] \in Msg
  BY DEF TypeOK, Flush
<1>7. Evidence'
  BY <1>3, <1>4, <1>5, <1>6 DEF Evidence, Held, Enqueue, net
<1> QED
  BY <1>1, <1>7

(* A flush that starts.                                                      *)
LEMMA ManualFlushIInv == ASSUME IInv, NEW t \in Tab, ManualFlush(t) PROVE IInv'
<1> USE MessagingAssumption DEF IInv
<1>1. flush' = Start(t)
  BY DEF ManualFlush
<1>2. TypeOK'
  BY <1>1, StartFacts DEF TypeOK, ManualFlush, net
<1>3. \A u \in Tab : flush'[u].snap = flush[u].snap /\ flush'[u].cur = flush[u].cur
  BY <1>1, StartFacts
<1>4. Evidence'
  BY <1>3 DEF Evidence, Kept, Held, ManualFlush, net
<1> QED
  BY <1>2, <1>4

LEMMA FlushReadIInv == ASSUME IInv, NEW t \in Tab, FlushRead(t) PROVE IInv'
<1> USE MessagingAssumption DEF IInv
<1> DEFINE entries == {<<m, outbox[m]>> : m \in {n \in Msg : outbox[n] # None}}
           new == [flush[t] EXCEPT !.pc = "next", !.snap = entries]
<1>1. entries \in SUBSET (Msg \X Nat) /\ \A e \in entries : e[1] \in Msg /\ Kept(e[1])
  BY DEF TypeOK, Kept
<1>2. Resumed(t, new) /\ UNCHANGED <<up, wire, held, outbox, call, dropped, tries, faults>>
  BY DEF FlushRead, Resumed, net
<1>3. flush[t] \in Flush /\ flush[t].cur = None
  BY DEF TypeOK, FlushRead
<1> HIDE DEF entries
<1>4. new \in Flush /\ new.snap = entries /\ new.cur = None /\ new.pc = "next"
  BY <1>1, <1>3 DEF Flush
<1> HIDE DEF new
<1>5. /\ flush' \in [Tab -> Flush]
      /\ \A u \in Tab : flush'[u].cur # None <=> flush'[u].pc \in {"wait", "bump"}
      /\ flush'[t] = new /\ \A u \in Tab \ {t} : flush'[u] = flush[u]
  BY <1>2, <1>4, ResumedFacts
<1>6. TypeOK'
  BY <1>2, <1>5 DEF TypeOK
<1>7. \A n \in Msg : (Kept(n)' <=> Kept(n)) /\ (Held(n)' <=> Held(n))
  BY <1>2 DEF Kept, Held
<1>8. \A u \in Tab : flush[u].cur \in Msg \cup {None} /\ \A f \in flush[u].snap : f[1] \in Msg
  BY DEF TypeOK, Flush
<1>9. Evidence'
  BY <1>1, <1>2, <1>4, <1>5, <1>7, <1>8 DEF Evidence
<1> QED
  BY <1>6, <1>9

LEMMA FlushEndIInv == ASSUME IInv, NEW t \in Tab, FlushEnd(t) PROVE IInv'
<1> USE MessagingAssumption DEF IInv
<1>1. TypeOK'
  BY DEF TypeOK, FlushEnd, net, Idle, Flush
<1>2. \A u \in Tab : flush'[u] = flush[u] \/ (flush'[u].snap = {} /\ flush'[u].cur = None)
  BY DEF TypeOK, FlushEnd, Idle
<1>3. Evidence'
  BY <1>2 DEF Evidence, Kept, Held, FlushEnd, net
<1> QED
  BY <1>1, <1>3

LEMMA FlushNextIInv ==
    ASSUME IInv, NEW t \in Tab, NEW e \in flush[t].snap, FlushNext(t, e) PROVE IInv'
<1> USE MessagingAssumption DEF IInv
<1> DEFINE m    == e[1]
           rest == [flush[t] EXCEPT !.snap = @ \ {e}]
<1>1. /\ m \in Msg /\ e[2] \in Nat /\ Kept(m) /\ flush[t] \in Flush
      /\ rest \in Flush /\ rest.snap \subseteq flush[t].snap /\ rest.cur = flush[t].cur
      /\ rest.pc = "next" /\ flush[t].pc = "next" /\ flush[t].cur = None
  BY DEF TypeOK, Flush, FlushNext, Evidence
<1>2. \A u \in Tab : flush[u].cur \in Msg \cup {None} /\ \A f \in flush[u].snap : f[1] \in Msg
  BY DEF TypeOK, Flush
<1>3. CASE GivesUp(m, e[2])
  <2>1. /\ outbox' = [outbox EXCEPT ![m] = None] /\ dropped' = dropped \cup {m}
        /\ Resumed(t, rest) /\ UNCHANGED <<up, wire, held, call, tries, faults>>
    BY <1>3 DEF FlushNext, Resumed
  <2> HIDE DEF m, rest
  <2>2. /\ flush' \in [Tab -> Flush]
        /\ \A u \in Tab : flush'[u].cur # None <=> flush'[u].pc \in {"wait", "bump"}
        /\ flush'[t] = rest /\ \A u \in Tab \ {t} : flush'[u] = flush[u]
    BY <1>1, <2>1, ResumedFacts
  <2>3. TypeOK'
    BY <1>1, <2>1, <2>2 DEF TypeOK
  <2>4. \A n \in Msg : (Held(n) => Held(n)') /\ (Kept(n) => Kept(n)')
    BY <1>1, <2>1, KeptIsStable DEF TypeOK
  <2>5. Evidence'
    BY <1>1, <1>2, <2>1, <2>2, <2>4 DEF Evidence
  <2> QED
    BY <2>3, <2>5
<1>4. CASE ~GivesUp(m, e[2])
  <2> DEFINE new == [rest EXCEPT !.pc = "wait", !.cur = m]
  <2>1. /\ Transmit(t, m) /\ tries' = [tries EXCEPT ![m] = @ + 1]
        /\ Resumed(t, new) /\ UNCHANGED <<up, held, outbox, call, dropped, faults>>
    BY <1>4 DEF FlushNext, Resumed
  <2>2. new \in Flush /\ new.snap = rest.snap /\ new.cur = m /\ new.pc = "wait"
    BY <1>1 DEF Flush
  <2> HIDE DEF m, rest, new
  <2>3. m # None
    BY <1>1
  <2>4. /\ flush' \in [Tab -> Flush]
        /\ \A u \in Tab : flush'[u].cur # None <=> flush'[u].pc \in {"wait", "bump"}
        /\ flush'[t] = new /\ \A u \in Tab \ {t} : flush'[u] = flush[u]
    BY <2>1, <2>2, <2>3, ResumedFacts
  <2>5. wire' \subseteq Frame
    <3>1. Targets(t, m) \subseteq Broker
      BY DEF TypeOK, Targets
    <3> QED
      BY <1>1, <2>1, <3>1 DEF TypeOK, Transmit, Frame
  <2>6. TypeOK'
    BY <1>1, <2>1, <2>4, <2>5 DEF TypeOK
  <2>7. Evidence'
    BY <1>1, <1>2, <2>1, <2>2, <2>4 DEF Evidence, Kept, Held
  <2> QED
    BY <2>6, <2>7
<1> QED
  BY <1>3, <1>4

LEMMA FlushTimeoutIInv == ASSUME IInv, NEW t \in Tab, FlushTimeout(t) PROVE IInv'
<1> USE MessagingAssumption DEF IInv
<1> DEFINE m   == flush[t].cur
           new == IF outbox[m] = None THEN [flush[t] EXCEPT !.pc = "next", !.cur = None]
                  ELSE [flush[t] EXCEPT !.pc = "bump", !.seen = outbox[m]]
<1>1. m \in Msg /\ flush[t] \in Flush /\ outbox[m] \in Nat \cup {None}
  BY DEF TypeOK, Flush, FlushTimeout
<1>2. new \in Flush /\ (new.cur # None <=> new.pc \in {"wait", "bump"})
      /\ new.snap = flush[t].snap /\ new.cur \in {m, None}
  <2>1. CASE outbox[m] = None
    BY <1>1, <2>1 DEF Flush
  <2>2. CASE outbox[m] # None
    BY <1>1, <2>2 DEF Flush
  <2> QED
    BY <2>1, <2>2
<1>3. Resumed(t, new) /\ UNCHANGED <<up, wire, held, outbox, call, dropped, tries>> /\ faults' \in Nat
  BY DEF FlushTimeout, Resumed, net, MaybeFault, Fault, TypeOK
<1> HIDE DEF new
<1>4. /\ flush' \in [Tab -> Flush]
      /\ \A u \in Tab : flush'[u].cur # None <=> flush'[u].pc \in {"wait", "bump"}
      /\ flush'[t] = new /\ \A u \in Tab \ {t} : flush'[u] = flush[u]
  BY <1>2, <1>3, ResumedFacts
<1>5. TypeOK'
  BY <1>3, <1>4 DEF TypeOK
<1>6. Evidence'
  BY <1>2, <1>3, <1>4 DEF Evidence, Kept, Held
<1> QED
  BY <1>5, <1>6

LEMMA BumpIInv == ASSUME IInv, NEW t \in Tab, Bump(t) PROVE IInv'
<1> USE MessagingAssumption DEF IInv
<1> DEFINE m   == flush[t].cur
           new == [flush[t] EXCEPT !.pc = "next", !.cur = None, !.seen = 0]
<1>1. m \in Msg /\ flush[t] \in Flush /\ flush[t].seen \in Nat
  BY DEF TypeOK, Flush, Bump
<1>2. new \in Flush /\ new.pc = "next" /\ new.snap = flush[t].snap /\ new.cur = None
  BY <1>1 DEF Flush
<1>3. /\ Resumed(t, new) /\ outbox' = [outbox EXCEPT ![m] = flush[t].seen + 1]
      /\ UNCHANGED <<up, wire, held, call, dropped, tries, faults>>
  BY DEF Bump, Resumed, net
<1> HIDE DEF new
<1>4. /\ flush' \in [Tab -> Flush]
      /\ \A u \in Tab : flush'[u].cur # None <=> flush'[u].pc \in {"wait", "bump"}
      /\ flush'[t] = new /\ \A u \in Tab \ {t} : flush'[u] = flush[u]
  BY <1>2, <1>3, ResumedFacts
<1>5. TypeOK'
  BY <1>1, <1>3, <1>4 DEF TypeOK
<1>6. \A n \in Msg : outbox[n] # None => outbox'[n] # None
  BY <1>1, <1>3 DEF TypeOK
<1>7. \A n \in Msg : (Held(n) => Held(n)') /\ (Kept(n) => Kept(n)')
  BY <1>3, <1>6, KeptIsStable
<1>8. \A u \in Tab : flush[u].cur \in Msg \cup {None} /\ \A f \in flush[u].snap : f[1] \in Msg
  BY DEF TypeOK, Flush
<1>9. Evidence'
  BY <1>2, <1>3, <1>4, <1>7, <1>8 DEF Evidence
<1> QED
  BY <1>5, <1>9

LEMMA NextIInv == ASSUME IInv, [Next]_vars PROVE IInv'
<1>1. CASE UNCHANGED vars
  BY <1>1 DEF IInv, TypeOK, Evidence, Kept, Held, vars
<1>2. CASE Next
  BY <1>2, UpIInv, DownIInv, ReceiptIInv, ReceiptLateIInv, RefuseIInv, SendIInv,
     SendTimeoutIInv, EnqueueIInv, CloseIInv, ManualFlushIInv, FlushReadIInv,
     FlushEndIInv, BumpIInv, FlushTimeoutIInv, FlushNextIInv DEF Next, FlushStep
<1> QED
  BY <1>1, <1>2

(* Type correctness of the outbox, the multiplexer and the flushes, for any  *)
(* number of tabs and brokers.                                               *)
THEOREM TypeCorrect == Spec => []TypeOK
<1>1. IInv => TypeOK
  BY DEF IInv
<1> QED
  BY InitIInv, NextIInv, <1>1, PTL DEF Spec

LEMMA AlwaysIInv == Spec => []IInv
  BY InitIInv, NextIInv, PTL DEF Spec

-----------------------------------------------------------------------------
(* The log messages.                                                         *)

\* What is on the way to another broker than the primary is no log message.
Routed ==
    /\ \A t \in Tab, b \in Broker \ {Primary}, m \in Direct : <<t, b, m>> \notin wire
    /\ LogStaysHome

LEMMA TransmitRouted ==
    ASSUME IInv, Routed, NEW t \in Tab, NEW m \in Msg, Transmit(t, m)
    PROVE  \A u \in Tab, b \in Broker \ {Primary}, n \in Direct : <<u, b, n>> \notin wire'
  BY DEF Routed, Transmit, Targets

LEMMA NextRouted == ASSUME IInv, Routed, [Next]_vars PROVE Routed'
<1> USE MessagingAssumption DEF IInv, TypeOK, Routed, LogStaysHome
<1>1. CASE UNCHANGED vars
  BY <1>1 DEF vars
<1>2. ASSUME NEW t \in Tab, NEW b \in Broker, Up(t, b) PROVE Routed'
  BY <1>2 DEF Up
<1>3. ASSUME NEW t \in Tab, NEW b \in Broker, Down(t, b) PROVE Routed'
  <2>1. wire' \subseteq wire /\ tries' = tries
    BY <1>3 DEF Down
  <2>2. PICK arrived \in SUBSET {m \in Msg : <<t, b, m>> \in wire} :
            held' = [held EXCEPT ![b] = @ \cup arrived]
    BY <1>3 DEF Down
  <2>3. \A c \in Broker \ {Primary}, m \in Direct : m \notin held'[c]
    BY <1>3, <2>2
  <2> QED
    BY <2>1, <2>3
<1>4. ASSUME NEW t \in Tab, NEW b \in Broker, NEW m \in Msg, Taken(t, b, m), UNCHANGED tries
      PROVE  Routed'
  BY <1>4 DEF Taken
<1>5. ASSUME NEW t \in Tab, NEW b \in Broker, NEW m \in Msg,
             Receipt(t, b, m) \/ ReceiptLate(t, b, m)
      PROVE  Routed'
  BY <1>4, <1>5 DEF Receipt, ReceiptLate
<1>6. ASSUME NEW t \in Tab, NEW b \in Broker, NEW m \in Msg, Refuse(t, b, m) PROVE Routed'
  BY <1>6 DEF Refuse
<1>7. ASSUME NEW m \in Msg, Send(m) PROVE Routed'
  BY <1>7, TransmitRouted DEF Send
<1>8. ASSUME UNCHANGED <<wire, held, tries>> PROVE Routed'
  BY <1>8
<1>9. ASSUME NEW m \in Msg, SendTimeout(m) \/ Enqueue(m) PROVE Routed'
  BY <1>8, <1>9 DEF SendTimeout, Enqueue, net
<1>10. ASSUME NEW t \in Tab, Close(t) \/ ManualFlush(t) \/ FlushRead(t) \/ FlushEnd(t)
                             \/ FlushTimeout(t) \/ Bump(t)
       PROVE  Routed'
  BY <1>8, <1>10 DEF Close, ManualFlush, FlushRead, FlushEnd, FlushTimeout, Bump, net
<1>11. ASSUME NEW t \in Tab, NEW e \in flush[t].snap, FlushNext(t, e) PROVE Routed'
  <2>1. e[1] \in Msg
    BY DEF Flush
  <2>2. CASE GivesUp(e[1], e[2])
    BY <1>8, <1>11, <2>2 DEF FlushNext
  <2>3. CASE ~GivesUp(e[1], e[2])
    <3>1. /\ Transmit(t, e[1]) /\ tries' = [tries EXCEPT ![e[1]] = @ + 1] /\ held' = held
          /\ e[1] \notin Direct
      BY <1>11, <2>3 DEF FlushNext, GivesUp
    <3>2. \A n \in Direct : tries'[n] = tries[n]
      BY <3>1
    <3> QED
      BY <2>1, <3>1, <3>2, TransmitRouted
  <2> QED
    BY <2>2, <2>3
<1> QED
  BY <1>1, <1>2, <1>3, <1>5, <1>6, <1>7, <1>9, <1>10, <1>11 DEF Next, FlushStep

(* I-PRIMARY-STRICT and I-NQ for any set of brokers: no route of send, fan-  *)
(* out or flush carries a log message to a secondary.                        *)
THEOREM LogIsPrimaryOnly == Spec => []LogStaysHome
<1>1. Init => Routed
  BY MessagingAssumption DEF Init, Routed, LogStaysHome
<1>2. Routed => LogStaysHome
  BY DEF Routed
<1> QED
  BY AlwaysIInv, NextRouted, <1>1, <1>2, PTL DEF Spec

-----------------------------------------------------------------------------
(* The retry count.                                                          *)

\* The tabs whose attempt to send m is not settled.
Waiting(m) == {t \in Tab : flush[t].cur = m}
Open(m) == Cardinality(Waiting(m))

\* Every unit of a count, in the store or read from it, stands for an attempt
\* that is over; the attempts that still run come on top.
Counted ==
    /\ \A m \in Msg : /\ Open(m) <= tries[m]
                      /\ outbox[m] # None => outbox[m] + Open(m) <= tries[m]
    /\ \A t \in Tab : /\ flush[t].pc = "bump" =>
                           flush[t].seen + Open(flush[t].cur) <= tries[flush[t].cur]
                      /\ \A e \in flush[t].snap : e[2] <= tries[e[1]]
    /\ GivenUpLate

LEMMA OpenType == ASSUME NEW m PROVE Open(m) \in Nat /\ Open(m)' \in Nat
<1>1. IsFiniteSet(Waiting(m)) /\ IsFiniteSet(Waiting(m)')
  <2>1. Waiting(m) \subseteq Tab /\ Waiting(m)' \subseteq Tab
    BY DEF Waiting
  <2> QED
    BY <2>1, MessagingAssumption, FS_Subset
<1> QED
  BY <1>1, FS_CardinalityType DEF Open

LEMMA OpenShrinks ==
    ASSUME NEW m \in Msg, \A u \in Tab : flush'[u].cur = m => flush[u].cur = m
    PROVE  Open(m)' <= Open(m)
<1>1. Waiting(m)' \subseteq Waiting(m)
  BY DEF Waiting
<1>2. IsFiniteSet(Waiting(m))
  <2>1. Waiting(m) \subseteq Tab
    BY DEF Waiting
  <2> QED
    BY <2>1, MessagingAssumption, FS_Subset
<1> QED
  BY <1>1, <1>2, FS_Subset DEF Open

LEMMA OpenChanges ==
    ASSUME NEW t \in Tab, \A u \in Tab \ {t} : flush'[u] = flush[u], NEW m \in Msg
    PROVE  /\ flush[t].cur # m /\ flush'[t].cur = m => Open(m)' = Open(m) + 1
           /\ flush[t].cur = m /\ flush'[t].cur # m => Open(m)' = Open(m) - 1
           /\ (flush[t].cur = m <=> flush'[t].cur = m) => Open(m)' = Open(m)
<1>1. IsFiniteSet(Waiting(m))
  <2>1. Waiting(m) \subseteq Tab
    BY DEF Waiting
  <2> QED
    BY <2>1, MessagingAssumption, FS_Subset
<1>2. CASE flush[t].cur # m /\ flush'[t].cur = m
  <2>1. Waiting(m)' = Waiting(m) \cup {t} /\ t \notin Waiting(m)
    BY <1>2 DEF Waiting
  <2> QED
    BY <1>1, <1>2, <2>1, FS_AddElement DEF Open
<1>3. CASE flush[t].cur = m /\ flush'[t].cur # m
  <2>1. Waiting(m)' = Waiting(m) \ {t} /\ t \in Waiting(m)
    BY <1>3 DEF Waiting
  <2> QED
    BY <1>1, <1>3, <2>1, FS_RemoveElement DEF Open
<1>4. CASE flush[t].cur = m <=> flush'[t].cur = m
  <2>1. Waiting(m)' = Waiting(m)
    BY <1>4 DEF Waiting
  <2> QED
    BY <1>4, <2>1 DEF Open
<1> QED
  BY <1>2, <1>3, <1>4

(* Most steps send nothing and raise no count.                               *)
LEMMA CalmStep ==
    ASSUME IInv, Counted, UNCHANGED <<tries, dropped>>,
           IInv',
           \A m \in Msg : outbox'[m] \in {outbox[m], None, 0},
           \A u \in Tab : \/ flush'[u] = flush[u]
                          \/ /\ flush'[u].cur \in {flush[u].cur, None} /\ flush'[u].pc # "bump"
                             /\ \A e \in flush'[u].snap :
                                  e \in flush[u].snap \/ (e[1] \in Msg /\ e[2] = outbox[e[1]])
    PROVE  Counted'
<1> USE MessagingAssumption
<1>1. \A m \in Msg : Open(m)' <= Open(m) /\ Open(m) \in Nat /\ Open(m)' \in Nat /\ tries[m] \in Nat
  <2>1. \A m \in Msg : \A u \in Tab : flush'[u].cur = m => flush[u].cur = m
    OBVIOUS
  <2> QED
    BY <2>1, OpenShrinks, OpenType DEF IInv, TypeOK
<1>2. \A m \in Msg : /\ Open(m)' <= tries'[m]
                     /\ outbox'[m] # None => outbox'[m] + Open(m)' <= tries'[m]
  <2> SUFFICES ASSUME NEW m \in Msg
               PROVE  /\ Open(m)' <= tries'[m]
                      /\ outbox'[m] # None => outbox'[m] + Open(m)' <= tries'[m]
    OBVIOUS
  <2>1. /\ outbox'[m] \in {outbox[m], None, 0} /\ outbox[m] \in Nat \cup {None}
        /\ Open(m) <= tries[m]
        /\ outbox[m] # None => outbox[m] + Open(m) <= tries[m]
    BY DEF IInv, TypeOK, Counted
  <2> QED
    BY <1>1, <2>1
<1>3. ASSUME NEW u \in Tab, flush'[u].pc = "bump"
      PROVE  flush'[u].seen + Open(flush[u].cur)' <= tries[flush[u].cur]'
  <2>1. flush'[u] = flush[u]
    BY <1>3
  <2>2. flush[u].cur \in Msg /\ flush[u].seen \in Nat
    BY <1>3, <2>1 DEF IInv, TypeOK, Flush
  <2>3. flush[u].seen + Open(flush[u].cur) <= tries[flush[u].cur]
    BY <1>3, <2>1 DEF Counted
  <2> QED
    BY <1>1, <2>1, <2>2, <2>3
<1>4. ASSUME NEW u \in Tab, NEW e \in flush'[u].snap
      PROVE  e[2] <= tries'[e[1]]
  <2>1. CASE e \in flush[u].snap
    BY <2>1 DEF Counted
  <2>2. CASE e[1] \in Msg /\ e[2] = outbox[e[1]]
    <3>1. e[2] \in Nat
      BY DEF IInv, TypeOK, Flush
    <3>2. e[2] + Open(e[1]) <= tries[e[1]]
      BY <2>2, <3>1 DEF Counted
    <3> QED
      BY <1>1, <2>2, <3>1, <3>2
  <2> QED
    BY <1>4, <2>1, <2>2
<1>5. GivenUpLate'
  BY DEF Counted, GivenUpLate
<1> QED
  BY <1>2, <1>3, <1>4, <1>5 DEF Counted

\* A step on the flush of one tab.
LEMMA FlushNextCounted ==
    ASSUME IInv, Counted, IInv', NEW t \in Tab, NEW e \in flush[t].snap, FlushNext(t, e)
    PROVE  Counted'
<1> USE MessagingAssumption
<1> DEFINE m    == e[1]
           rest == [flush[t] EXCEPT !.snap = @ \ {e}]
<1>1. /\ m \in Msg /\ e[2] \in Nat /\ e[2] <= tries[m] /\ flush[t] \in Flush
      /\ rest \in Flush /\ rest.snap \subseteq flush[t].snap /\ rest.cur = flush[t].cur
      /\ rest.pc = "next" /\ flush[t].cur = None
  <2>1. flush[t] \in Flush /\ flush[t].pc = "next" /\ flush[t].cur = None
    BY DEF IInv, TypeOK, FlushNext
  <2>2. m \in Msg /\ e[2] \in Nat
    BY <2>1 DEF Flush
  <2>3. e[2] <= tries[m]
    BY DEF Counted
  <2> QED
    BY <2>1, <2>2, <2>3 DEF Flush
<1>2. CASE GivesUp(m, e[2])
  <2>1. /\ outbox' = [outbox EXCEPT ![m] = None] /\ dropped' = dropped \cup {m}
        /\ flush' = [flush EXCEPT ![t] = rest] /\ tries' = tries
    BY <1>2 DEF FlushNext
  <2> HIDE DEF m, rest
  <2>2. flush'[t] = rest /\ \A u \in Tab \ {t} : flush'[u] = flush[u]
    BY <2>1 DEF IInv, TypeOK
  <2>3. \A n \in Msg : Open(n)' = Open(n)
    BY <1>1, <2>2, OpenChanges
  <2>4. \A n \in Msg : outbox'[n] \in {outbox[n], None}
    BY <2>1 DEF IInv, TypeOK
  <2>5. \A n \in Msg : /\ Open(n)' <= tries'[n]
                       /\ outbox'[n] # None => outbox'[n] + Open(n)' <= tries'[n]
    BY <2>1, <2>3, <2>4 DEF Counted
  <2>6. ASSUME NEW u \in Tab, flush'[u].pc = "bump"
        PROVE  flush'[u].seen + Open(flush[u].cur)' <= tries[flush[u].cur]'
    <3>1. u # t /\ flush'[u] = flush[u]
      BY <1>1, <2>2, <2>6
    <3>2. flush[u].cur \in Msg
      BY <2>6, <3>1 DEF IInv, TypeOK, Flush
    <3> QED
      BY <2>1, <2>3, <2>6, <3>1, <3>2 DEF Counted
  <2>7. \A u \in Tab : \A f \in flush'[u].snap : f[2] <= tries'[f[1]]
    BY <1>1, <2>1, <2>2 DEF Counted
  <2>8. GivenUpLate'
    <3>1. m \in Direct \/ tries[m] >= MaxRetries
      BY <1>1, <1>2 DEF GivesUp, IInv, TypeOK
    <3> QED
      BY <2>1, <3>1 DEF GivenUpLate, Counted
  <2> QED
    BY <2>5, <2>6, <2>7, <2>8 DEF Counted
<1>3. CASE ~GivesUp(m, e[2])
  <2> DEFINE new == [rest EXCEPT !.pc = "wait", !.cur = m]
  <2>1. /\ tries' = [tries EXCEPT ![m] = @ + 1] /\ flush' = [flush EXCEPT ![t] = new]
        /\ UNCHANGED <<outbox, dropped>>
    BY <1>3 DEF FlushNext
  <2>2. new.snap = rest.snap /\ new.cur = m /\ new.pc = "wait"
    BY <1>1 DEF Flush
  <2> HIDE DEF m, rest, new
  <2>3. flush'[t] = new /\ \A u \in Tab \ {t} : flush'[u] = flush[u]
    BY <2>1 DEF IInv, TypeOK
  <2>4. Open(m)' = Open(m) + 1 /\ \A n \in Msg \ {m} : Open(n)' = Open(n)
    BY <1>1, <2>2, <2>3, OpenChanges
  <2>5. /\ tries'[m] = tries[m] + 1 /\ \A n \in Msg \ {m} : tries'[n] = tries[n]
        /\ \A n \in Msg : tries[n] \in Nat /\ Open(n) \in Nat /\ outbox[n] \in Nat \cup {None}
    BY <1>1, <2>1, OpenType DEF IInv, TypeOK
  <2>6. ASSUME NEW n \in Msg
        PROVE  /\ Open(n)' <= tries'[n]
               /\ outbox'[n] # None => outbox'[n] + Open(n)' <= tries'[n]
    <3>1. /\ Open(n) <= tries[n] /\ outbox'[n] = outbox[n]
          /\ outbox[n] # None => outbox[n] + Open(n) <= tries[n]
      BY <2>1 DEF Counted
    <3>2. CASE n = m
      BY <2>4, <2>5, <3>1, <3>2
    <3>3. CASE n # m
      BY <2>4, <2>5, <3>1, <3>3
    <3> QED
      BY <3>2, <3>3
  <2>7. ASSUME NEW u \in Tab, flush'[u].pc = "bump"
        PROVE  flush'[u].seen + Open(flush[u].cur)' <= tries[flush[u].cur]'
    <3>1. flush'[u] = flush[u]
      BY <2>2, <2>3, <2>7
    <3>2. flush[u].cur \in Msg /\ flush[u].seen \in Nat
      BY <2>7, <3>1 DEF IInv, TypeOK, Flush
    <3>3. flush[u].seen + Open(flush[u].cur) <= tries[flush[u].cur]
      BY <2>7, <3>1 DEF Counted
    <3>4. CASE flush[u].cur = m
      BY <2>4, <2>5, <3>1, <3>2, <3>3, <3>4
    <3>5. CASE flush[u].cur # m
      BY <2>4, <2>5, <3>1, <3>2, <3>3, <3>5
    <3> QED
      BY <3>4, <3>5
  <2>8. ASSUME NEW u \in Tab, NEW f \in flush'[u].snap PROVE f[2] <= tries'[f[1]]
    <3>1. f \in flush[u].snap
      BY <1>1, <2>2, <2>3
    <3>2. f[1] \in Msg /\ f[2] \in Nat
      BY <3>1 DEF IInv, TypeOK, Flush
    <3>3. f[2] <= tries[f[1]]
      BY <3>1 DEF Counted
    <3> QED
      BY <2>5, <3>2, <3>3
  <2>9. GivenUpLate'
    <3>1. \A n \in Msg : tries'[n] >= tries[n]
      BY <2>5
    <3>2. \A n \in Msg : tries[n] \in Nat /\ tries'[n] \in Nat
      BY DEF IInv, TypeOK
    <3> QED
      BY <2>1, <3>1, <3>2 DEF GivenUpLate, Counted, IInv, TypeOK
  <2> QED
    BY <2>6, <2>7, <2>8, <2>9 DEF Counted
<1> QED
  BY <1>2, <1>3

LEMMA FlushTimeoutCounted ==
    ASSUME IInv, Counted, IInv', NEW t \in Tab, FlushTimeout(t)
    PROVE  Counted'
<1> USE MessagingAssumption
<1> DEFINE m == flush[t].cur
<1>1. m \in Msg /\ flush[t] \in Flush /\ outbox[m] \in Nat \cup {None}
  BY DEF IInv, TypeOK, Flush, FlushTimeout
<1>2. UNCHANGED <<outbox, dropped, tries>>
  BY DEF FlushTimeout, net
<1>3. CASE outbox[m] = None
  <2> DEFINE new == [flush[t] EXCEPT !.pc = "next", !.cur = None]
  <2>1. new.pc = "next" /\ new.cur = None /\ new.snap = flush[t].snap
    BY <1>1 DEF Flush
  <2>2. flush'[t] = new /\ \A u \in Tab \ {t} : flush'[u] = flush[u]
    BY <1>3 DEF FlushTimeout, IInv, TypeOK
  <2> HIDE DEF new
  <2> QED
    BY <1>2, <2>1, <2>2, CalmStep
<1>4. CASE outbox[m] # None
  <2> DEFINE new == [flush[t] EXCEPT !.pc = "bump", !.seen = outbox[m]]
  <2>1. new.pc = "bump" /\ new.cur = m /\ new.snap = flush[t].snap /\ new.seen = outbox[m]
    BY <1>1 DEF Flush
  <2>2. flush'[t] = new /\ \A u \in Tab \ {t} : flush'[u] = flush[u]
    BY <1>4 DEF FlushTimeout, IInv, TypeOK
  <2> HIDE DEF new
  <2>3. \A n \in Msg : Open(n)' = Open(n)
    BY <2>1, <2>2, OpenChanges
  <2>4. ASSUME NEW u \in Tab, flush'[u].pc = "bump"
        PROVE  flush'[u].seen + Open(flush[u].cur)' <= tries[flush[u].cur]'
    <3>1. CASE u = t
      <4>1. flush'[u].cur = m /\ flush'[u].seen = outbox[m]
        BY <2>1, <2>2, <3>1
      <4>2. outbox[m] + Open(m) <= tries[m]
        BY <1>1, <1>4 DEF Counted
      <4> QED
        BY <1>1, <1>2, <2>3, <4>1, <4>2
    <3>2. CASE u # t
      <4>1. flush'[u] = flush[u]
        BY <2>2, <3>2
      <4>2. flush[u].cur \in Msg
        BY <2>4, <4>1 DEF IInv, TypeOK, Flush
      <4> QED
        BY <1>2, <2>3, <2>4, <4>1, <4>2 DEF Counted
    <3> QED
      BY <3>1, <3>2
  <2>5. \A n \in Msg : /\ Open(n)' <= tries'[n]
                       /\ outbox'[n] # None => outbox'[n] + Open(n)' <= tries'[n]
    BY <1>2, <2>3 DEF Counted
  <2>6. \A u \in Tab : \A f \in flush'[u].snap : f[2] <= tries'[f[1]]
    BY <1>2, <2>1, <2>2 DEF Counted
  <2> QED
    BY <1>2, <2>4, <2>5, <2>6 DEF Counted, GivenUpLate
<1> QED
  BY <1>3, <1>4

LEMMA BumpCounted ==
    ASSUME IInv, Counted, IInv', NEW t \in Tab, Bump(t)
    PROVE  Counted'
<1> USE MessagingAssumption
<1> DEFINE new == [flush[t] EXCEPT !.pc = "next", !.cur = None, !.seen = 0]
<1>0. PICK m \in Msg : m = flush[t].cur
  BY DEF IInv, TypeOK, Flush, Bump
<1>1. flush[t] \in Flush /\ flush[t].seen \in Nat
  BY DEF IInv, TypeOK, Flush
<1>2. new.pc = "next" /\ new.snap = flush[t].snap /\ new.cur = None
  BY <1>1 DEF Flush
<1>3. /\ flush'[t] = new /\ \A u \in Tab \ {t} : flush'[u] = flush[u]
      /\ outbox'[m] = flush[t].seen + 1 /\ \A n \in Msg \ {m} : outbox'[n] = outbox[n]
      /\ UNCHANGED <<dropped, tries>>
  BY <1>0 DEF Bump, IInv, TypeOK
<1> HIDE DEF new
<1>4. Open(m)' = Open(m) - 1 /\ \A n \in Msg \ {m} : Open(n)' = Open(n)
  BY <1>0, <1>2, <1>3, MessagingAssumption, OpenChanges
<1>5. \A n \in Msg : tries[n] \in Nat /\ Open(n) \in Nat /\ Open(n)' \in Nat
  BY OpenType DEF IInv, TypeOK
<1>6. flush[t].seen + Open(m) <= tries[m]
  BY <1>0 DEF Counted, Bump
<1>7. ASSUME NEW n \in Msg
      PROVE  /\ Open(n)' <= tries'[n]
             /\ outbox'[n] # None => outbox'[n] + Open(n)' <= tries'[n]
  <2>1. CASE n = m
    BY <1>1, <1>3, <1>4, <1>5, <1>6, <2>1
  <2>2. CASE n # m
    BY <1>3, <1>4, <2>2 DEF Counted
  <2> QED
    BY <2>1, <2>2
<1>8. ASSUME NEW u \in Tab, flush'[u].pc = "bump"
      PROVE  flush'[u].seen + Open(flush[u].cur)' <= tries[flush[u].cur]'
  <2>1. flush'[u] = flush[u]
    BY <1>2, <1>3, <1>8
  <2>2. flush[u].cur \in Msg /\ flush[u].seen \in Nat
    BY <1>8, <2>1 DEF IInv, TypeOK, Flush
  <2>3. flush[u].seen + Open(flush[u].cur) <= tries[flush[u].cur]
    BY <1>8, <2>1 DEF Counted
  <2>4. \A n \in Msg : Open(n)' <= Open(n)
    BY <1>4, <1>5
  <2> QED
    BY <1>3, <1>5, <2>1, <2>2, <2>3, <2>4
<1>9. \A u \in Tab : \A f \in flush'[u].snap : f[2] <= tries'[f[1]]
  BY <1>2, <1>3 DEF Counted
<1> QED
  BY <1>3, <1>7, <1>8, <1>9 DEF Counted, GivenUpLate

LEMMA NextCounted == ASSUME IInv, Counted, IInv', [Next]_vars PROVE Counted'
<1> USE MessagingAssumption
<1>1. ASSUME UNCHANGED <<flush, outbox, tries, dropped>> PROVE Counted'
  BY <1>1, CalmStep
<1>2. CASE UNCHANGED vars
  BY <1>1, <1>2 DEF vars
<1>3. ASSUME NEW t \in Tab, NEW b \in Broker, Up(t, b) PROVE Counted'
  <2>1. \A u \in Tab : flush'[u] = flush[u] \/ (flush'[u].pc # "bump" /\ flush'[u].cur = flush[u].cur
                                                /\ flush'[u].snap = flush[u].snap)
    <3>1. CASE flush' = flush
      BY <3>1
    <3>2. CASE flush' = [flush EXCEPT ![t].pc = "read"]
      BY <3>2 DEF IInv, TypeOK, Flush
    <3> QED
      BY <1>3, <3>1, <3>2 DEF Up, Start
  <2> QED
    BY <1>3, <2>1, CalmStep DEF Up
<1>4. ASSUME NEW t \in Tab, ManualFlush(t) PROVE Counted'
  <2>1. \A u \in Tab : flush'[u] = flush[u] \/ (flush'[u].pc # "bump" /\ flush'[u].cur = flush[u].cur
                                                /\ flush'[u].snap = flush[u].snap)
    BY <1>4 DEF ManualFlush, Start, IInv, TypeOK, Flush
  <2> QED
    BY <1>4, <2>1, CalmStep DEF ManualFlush, net
<1>5. ASSUME NEW t \in Tab, Close(t) \/ FlushEnd(t) PROVE Counted'
  <2>1. \A u \in Tab : flush'[u] = flush[u] \/ flush'[u] = Idle
    BY <1>5 DEF Close, FlushEnd, IInv, TypeOK
  <2>2. UNCHANGED <<outbox, tries, dropped>>
    BY <1>5 DEF Close, FlushEnd
  <2> QED
    BY <2>1, <2>2, CalmStep DEF Idle
<1>6. ASSUME NEW t \in Tab, NEW b \in Broker, NEW m \in Msg, Receipt(t, b, m) PROVE Counted'
  <2>1. CASE flush[t].pc = "wait" /\ flush[t].cur = m
    <3> DEFINE new == [flush[t] EXCEPT !.pc = "next", !.cur = None]
    <3>1. new.pc = "next" /\ new.cur = None /\ new.snap = flush[t].snap
      BY DEF IInv, TypeOK, Flush
    <3>2. /\ flush'[t] = new /\ \A u \in Tab \ {t} : flush'[u] = flush[u]
          /\ \A n \in Msg : outbox'[n] \in {outbox[n], None}
          /\ UNCHANGED <<tries, dropped>>
      BY <1>6, <2>1 DEF Receipt, IInv, TypeOK
    <3> HIDE DEF new
    <3> QED
      BY <3>1, <3>2, CalmStep
  <2>2. CASE ~(flush[t].pc = "wait" /\ flush[t].cur = m)
    BY <1>1, <1>6, <2>2 DEF Receipt
  <2> QED
    BY <2>1, <2>2
<1>7. ASSUME NEW t \in Tab, NEW b \in Broker, Down(t, b) PROVE Counted'
  BY <1>1, <1>7 DEF Down
<1>12. ASSUME NEW t \in Tab, NEW b \in Broker, NEW m \in Msg,
              ReceiptLate(t, b, m) \/ Refuse(t, b, m)
       PROVE  Counted'
  BY <1>1, <1>12 DEF ReceiptLate, Refuse
<1>8. ASSUME NEW m \in Msg, Send(m) \/ SendTimeout(m) PROVE Counted'
  BY <1>1, <1>8 DEF Send, SendTimeout, net
<1>9. ASSUME NEW m \in Msg, Enqueue(m) PROVE Counted'
  <2>1. /\ \A n \in Msg : outbox'[n] \in {outbox[n], None, 0}
        /\ UNCHANGED <<flush, tries, dropped>>
    BY <1>9 DEF Enqueue, net, IInv, TypeOK
  <2> QED
    BY <2>1, CalmStep
<1>10. ASSUME NEW t \in Tab, FlushRead(t) PROVE Counted'
  <2> DEFINE entries == {<<m, outbox[m]>> : m \in {n \in Msg : outbox[n] # None}}
             new == [flush[t] EXCEPT !.pc = "next", !.snap = entries]
  <2>1. new.pc = "next" /\ new.cur = flush[t].cur /\ new.snap = entries
    BY DEF IInv, TypeOK, Flush
  <2>2. /\ flush'[t] = new /\ \A u \in Tab \ {t} : flush'[u] = flush[u]
        /\ UNCHANGED <<outbox, tries, dropped>>
    BY <1>10 DEF FlushRead, net, IInv, TypeOK
  <2>3. \A e \in entries : e[1] \in Msg /\ e[2] = outbox[e[1]]
    OBVIOUS
  <2> HIDE DEF entries, new
  <2> QED
    BY <2>1, <2>2, <2>3, CalmStep
<1>11. ASSUME NEW t \in Tab, FlushStep(t) PROVE Counted'
  BY <1>5, <1>10, <1>11, FlushNextCounted, FlushTimeoutCounted, BumpCounted DEF FlushStep
<1> QED
  BY <1>2, <1>3, <1>4, <1>5, <1>6, <1>7, <1>8, <1>9, <1>11, <1>12 DEF Next

(* maxRetries for any number of tabs: lost updates of incrementRetry only    *)
(* lower the count, so no message is given up before its attempts are made.  *)
THEOREM RetriesAreMade == Spec => []GivenUpLate
<1>1. Init => Counted
  <2> SUFFICES ASSUME Init PROVE Counted
    OBVIOUS
  <2>1. \A m \in Msg : Waiting(m) = {}
    BY MessagingAssumption DEF Init, Waiting, Idle
  <2>2. \A m \in Msg : Open(m) = 0
    BY <2>1, FS_EmptySet DEF Open
  <2> QED
    BY <2>2, MessagingAssumption DEF Init, Counted, GivenUpLate, Idle
<1>2. Counted => GivenUpLate
  BY DEF Counted
<1> QED
  BY AlwaysIInv, NextCounted, <1>1, <1>2, PTL DEF Spec

-----------------------------------------------------------------------------
(* The refinement of ReliableSend.                                           *)

\* A step that the caller cannot see.
Silent == \A n \in Msg : StatusOf(n)' = StatusOf(n) /\ ToldOf(n)' = ToldOf(n)

LEMMA SilentStutters == ASSUME Silent PROVE UNCHANGED <<Statuses, Answers>>
<1>1. Statuses' = Statuses
  BY DEF Silent, Statuses
<1>2. Answers' = Answers
  BY DEF Silent, Answers
<1> QED
  BY <1>1, <1>2

(* A broker takes the messages of S while the store loses at most those.     *)
LEMMA DeliverRefines ==
    ASSUME IInv, NEW S \in SUBSET Msg, UNCHANGED <<call, dropped>>,
           \A n \in S : Held(n)',
           \A n \in Msg \ S : (Held(n)' <=> Held(n)) /\ outbox'[n] = outbox[n]
    PROVE  RS!Next
<1>1. \A n \in Msg : StatusOf(n)' = IF n \in S THEN "delivered" ELSE StatusOf(n)
  BY DEF StatusOf
<1>2. \A n \in Msg : ToldOf(n)' = ToldOf(n)
  BY DEF ToldOf
<1>3. RS!Deliver(S)
  BY <1>1, <1>2 DEF RS!Deliver, RS!Delivered, Statuses, Answers
<1> QED
  BY <1>3 DEF RS!Next

LEMMA DownRefines ==
    ASSUME IInv, NEW t \in Tab, NEW b \in Broker, Down(t, b) PROVE RS!Next
<1>1. PICK arrived \in SUBSET {m \in Msg : <<t, b, m>> \in wire} :
          held' = [held EXCEPT ![b] = @ \cup arrived]
  BY DEF Down
<1>2. UNCHANGED <<call, dropped, outbox>>
  BY DEF Down
<1>3. arrived \in SUBSET Msg
  BY <1>1
<1>4. \A n \in arrived : Held(n)'
  BY <1>1 DEF Held, IInv, TypeOK
<1>5. \A n \in Msg \ arrived : (Held(n)' <=> Held(n))
  BY <1>1 DEF Held, IInv, TypeOK
<1> QED
  BY <1>2, <1>3, <1>4, <1>5, DeliverRefines

LEMMA ReceiptRefines ==
    ASSUME IInv, NEW t \in Tab, NEW b \in Broker, NEW m \in Msg, Receipt(t, b, m)
    PROVE  RS!Next
<1>1. Taken(t, b, m) /\ dropped' = dropped
  BY DEF Receipt
<1>2. Held(m)' /\ \A n \in Msg \ {m} : (Held(n)' <=> Held(n))
  BY <1>1, TakenFacts
<1>3. \A n \in Msg \ {m} : outbox'[n] = outbox[n]
  BY DEF Receipt, IInv, TypeOK
<1>4. CASE call[m] = "sending" /\ From[m] = t
  <2>1. call'[m] = "delivered" /\ \A n \in Msg \ {m} : call'[n] = call[n]
    BY <1>4 DEF Receipt, IInv, TypeOK
  <2>2. \A n \in Msg : StatusOf(n)' = IF n \in {m} THEN "delivered" ELSE StatusOf(n)
    BY <1>1, <1>2, <1>3, <2>1 DEF StatusOf
  <2>3. ToldOf(m)' = "delivered" /\ ToldOf(m) = "nothing"
        /\ \A n \in Msg \ {m} : ToldOf(n)' = ToldOf(n)
    BY <1>4, <2>1 DEF ToldOf
  <2>4. RS!Delivered({m})
    BY <2>2 DEF RS!Delivered, Statuses
  <2>5. Answers' = [Answers EXCEPT ![m] = "delivered"] /\ Answers[m] = "nothing"
    BY <2>3 DEF Answers
  <2>6. RS!Confirm(m)
    BY <2>4, <2>5 DEF RS!Confirm
  <2> QED
    BY <2>6 DEF RS!Next
<1>5. CASE ~(call[m] = "sending" /\ From[m] = t)
  <2>1. call' = call
    BY <1>5 DEF Receipt
  <2> QED
    <3>1. {m} \in SUBSET Msg /\ \A n \in {m} : Held(n)'
      BY <1>2
    <3> QED
      BY <1>1, <1>2, <1>3, <2>1, <3>1, DeliverRefines
<1> QED
  BY <1>4, <1>5

LEMMA ReceiptLateRefines ==
    ASSUME IInv, NEW t \in Tab, NEW b \in Broker, NEW m \in Msg, ReceiptLate(t, b, m)
    PROVE  RS!Next
<1>1. Taken(t, b, m) /\ UNCHANGED <<call, dropped, outbox>>
  BY DEF ReceiptLate
<1>2. Held(m)' /\ \A n \in Msg \ {m} : (Held(n)' <=> Held(n))
  BY <1>1, TakenFacts
<1>3. {m} \in SUBSET Msg /\ \A n \in {m} : Held(n)'
  BY <1>2
<1> QED
  BY <1>1, <1>2, <1>3, DeliverRefines

(* send() of the messages of S ends in an error.                             *)
LEMMA FailRefines ==
    ASSUME IInv, NEW S \in SUBSET Msg, UNCHANGED <<held, outbox, dropped>>,
           \A n \in S : call[n] \in {"new", "sending", "queueing"} /\ call'[n] = "error",
           \A n \in Msg \ S : StatusOf(n)' = StatusOf(n) /\ ToldOf(n)' = ToldOf(n)
    PROVE  RS!Next
<1>1. \A n \in S : ToldOf(n) = "nothing" /\ ToldOf(n)' = "error"
  BY DEF ToldOf
<1>2. \A n \in S : StatusOf(n)' = IF StatusOf(n) = "new" THEN "failed" ELSE StatusOf(n)
  BY DEF StatusOf, Held
<1>3. Statuses' = [n \in Msg |-> IF n \in S /\ Statuses[n] = "new" THEN "failed" ELSE Statuses[n]]
  BY <1>2 DEF Statuses
<1>4. Answers' = [n \in Msg |-> IF n \in S THEN "error" ELSE Answers[n]]
  BY <1>1 DEF Answers
<1>5. \A n \in S : Answers[n] = "nothing"
  BY <1>1 DEF Answers
<1>6. RS!Fail(S)
  BY <1>3, <1>4, <1>5 DEF RS!Fail
<1> QED
  BY <1>6 DEF RS!Next

(* A message of which neither the call nor what is known has changed.        *)
LEMMA SameMessage ==
    ASSUME NEW n \in Msg, (Held(n)' <=> Held(n)), dropped' = dropped, outbox'[n] = outbox[n],
           call'[n] = call[n] \/ {call[n], call'[n]} \subseteq {"new", "sending", "queueing"}
    PROVE  StatusOf(n)' = StatusOf(n) /\ ToldOf(n)' = ToldOf(n)
  BY DEF StatusOf, ToldOf

LEMMA CloseRefines == ASSUME IInv, NEW t \in Tab, Close(t) PROVE RS!Next
<1> DEFINE S == {m \in Msg : Pending(m) /\ From[m] = t}
<1>1. UNCHANGED <<held, outbox, dropped>>
  BY DEF Close, net
<1>2. PICK T \in SUBSET Msg : T = S
  OBVIOUS
<1>3. \A n \in T : call[n] \in {"new", "sending", "queueing"} /\ call'[n] = "error"
  BY <1>2 DEF Close, Pending
<1>4. \A n \in Msg \ T : call'[n] = call[n]
  BY <1>2 DEF Close
<1>5. \A n \in Msg \ T : StatusOf(n)' = StatusOf(n) /\ ToldOf(n)' = ToldOf(n)
  BY <1>1, <1>4, SameMessage DEF Held
<1> QED
  BY <1>1, <1>3, <1>5, FailRefines

LEMMA SendRefines ==
    ASSUME IInv, NEW m \in Msg, Send(m) \/ SendTimeout(m)
    PROVE  RS!Next \/ Silent
<1>1. UNCHANGED <<held, outbox, dropped>>
  BY DEF Send, SendTimeout, net
<1>2. /\ call[m] \in {"new", "sending"} /\ call'[m] \in {"sending", "queueing", "error"}
      /\ \A n \in Msg \ {m} : call'[n] = call[n]
  BY DEF Send, SendTimeout, Undelivered, IInv, TypeOK
<1>3. \A n \in Msg \ {m} : StatusOf(n)' = StatusOf(n) /\ ToldOf(n)' = ToldOf(n)
  BY <1>1, <1>2, SameMessage DEF Held
<1>4. CASE call'[m] = "error"
  BY <1>1, <1>2, <1>3, <1>4, FailRefines
<1>5. CASE call'[m] \in {"sending", "queueing"}
  <2>1. StatusOf(m)' = StatusOf(m) /\ ToldOf(m)' = ToldOf(m)
    BY <1>1, <1>2, <1>5, SameMessage DEF Held
  <2> QED
    BY <1>3, <2>1 DEF Silent
<1> QED
  BY <1>2, <1>4, <1>5

LEMMA EnqueueRefines == ASSUME IInv, NEW m \in Msg, Enqueue(m) PROVE RS!Next
<1> USE MessagingAssumption
<1>1. UNCHANGED <<held, dropped>>
  BY DEF Enqueue, net
<1>2. /\ call[m] = "queueing" /\ call'[m] = "queued" /\ outbox'[m] # None
      /\ outbox'[m] = IF outbox[m] = None THEN 0 ELSE outbox[m]
      /\ \A n \in Msg \ {m} : call'[n] = call[n] /\ outbox'[n] = outbox[n]
  BY DEF Enqueue, IInv, TypeOK
<1>3. \A n \in Msg \ {m} : StatusOf(n)' = StatusOf(n) /\ ToldOf(n)' = ToldOf(n)
  BY <1>1, <1>2, SameMessage DEF Held
<1>4. StatusOf(m)' = IF StatusOf(m) = "new" THEN "accepted" ELSE StatusOf(m)
  BY <1>1, <1>2 DEF StatusOf, Held
<1>5. ToldOf(m) = "nothing" /\ ToldOf(m)' = "queued"
  BY <1>2 DEF ToldOf
<1>6. Statuses' = [Statuses EXCEPT ![m] = IF Statuses[m] = "new" THEN "accepted" ELSE Statuses[m]]
  BY <1>3, <1>4 DEF Statuses
<1>7. Answers' = [Answers EXCEPT ![m] = "queued"] /\ Answers[m] = "nothing"
  BY <1>3, <1>5 DEF Answers
<1>8. RS!Accept(m)
  BY <1>6, <1>7 DEF RS!Accept
<1> QED
  BY <1>8 DEF RS!Next

(* A flush that gives up drops an accepted message, or one whose fate is     *)
(* known already.                                                            *)
LEMMA FlushNextRefines ==
    ASSUME IInv, NEW t \in Tab, NEW e \in flush[t].snap, FlushNext(t, e)
    PROVE  RS!Next \/ Silent
<1>1. e[1] \in Msg /\ Kept(e[1])
  BY DEF IInv, TypeOK, Flush, Evidence
<1>2. PICK m \in Msg : m = e[1]
  BY <1>1
<1>3. UNCHANGED <<held, call>>
  BY DEF FlushNext
<1>4. CASE GivesUp(m, e[2])
  <2>1. /\ outbox'[m] = None /\ dropped' = dropped \cup {m}
        /\ \A n \in Msg \ {m} : outbox'[n] = outbox[n]
    BY <1>2, <1>4 DEF FlushNext, IInv, TypeOK
  <2>2. \A n \in Msg : ToldOf(n)' = ToldOf(n)
    BY <1>3 DEF ToldOf
  <2>3. \A n \in Msg \ {m} : StatusOf(n)' = StatusOf(n)
    BY <1>3, <2>1 DEF StatusOf, Held
  <2>4. StatusOf(m)' = IF StatusOf(m) = "accepted" THEN "dropped" ELSE StatusOf(m)
    BY <1>1, <1>2, <1>3, <2>1 DEF StatusOf, Kept, Held
  <2>5. CASE StatusOf(m) = "accepted"
    <3>1. Statuses' = [Statuses EXCEPT ![m] = "dropped"] /\ Statuses[m] = "accepted"
      BY <2>3, <2>4, <2>5 DEF Statuses
    <3>2. Answers' = Answers
      BY <2>2 DEF Answers
    <3>3. RS!Drop(m)
      BY <3>1, <3>2 DEF RS!Drop
    <3> QED
      BY <3>3 DEF RS!Next
  <2>6. CASE StatusOf(m) # "accepted"
    BY <2>2, <2>3, <2>4, <2>6 DEF Silent
  <2> QED
    BY <2>5, <2>6
<1>5. CASE ~GivesUp(m, e[2])
  <2>1. UNCHANGED <<outbox, dropped>>
    BY <1>2, <1>5 DEF FlushNext
  <2> QED
    BY <1>3, <2>1, SameMessage DEF Silent, Held
<1> QED
  BY <1>4, <1>5

(* incrementRetry may put back an entry that is gone, but then a broker has  *)
(* the message or it was dropped.                                            *)
LEMMA BumpIsSilent == ASSUME IInv, NEW t \in Tab, Bump(t) PROVE Silent
<1> USE MessagingAssumption
<1>1. PICK m \in Msg : m = flush[t].cur
  BY DEF IInv, TypeOK, Flush, Bump
<1>2. /\ Kept(m) /\ flush[t].seen \in Nat
      /\ UNCHANGED <<held, call, dropped>>
  BY <1>1 DEF IInv, TypeOK, Flush, Evidence, Bump, net
<1>3. outbox'[m] \in Nat /\ \A n \in Msg \ {m} : outbox'[n] = outbox[n]
  BY <1>1, <1>2 DEF Bump, IInv, TypeOK
<1>4. StatusOf(m)' = StatusOf(m)
  BY <1>2, <1>3 DEF StatusOf, Kept, Held
<1>5. \A n \in Msg \ {m} : StatusOf(n)' = StatusOf(n)
  BY <1>2, <1>3 DEF StatusOf, Held
<1>6. \A n \in Msg : ToldOf(n)' = ToldOf(n)
  BY <1>2 DEF ToldOf
<1> QED
  BY <1>4, <1>5, <1>6 DEF Silent

LEMMA NextRefines == ASSUME IInv, [Next]_vars PROVE RS!Next \/ Silent
<1>1. ASSUME UNCHANGED <<held, outbox, call, dropped>> PROVE Silent
  BY <1>1, SameMessage DEF Silent, Held
<1>2. CASE UNCHANGED vars
  BY <1>1, <1>2 DEF vars
<1>3. ASSUME NEW t \in Tab, NEW b \in Broker, Up(t, b) PROVE Silent
  BY <1>1, <1>3 DEF Up
<1>4. ASSUME NEW t \in Tab, NEW b \in Broker, NEW m \in Msg, Refuse(t, b, m) PROVE Silent
  BY <1>1, <1>4 DEF Refuse
<1>5. ASSUME NEW t \in Tab,
             ManualFlush(t) \/ FlushRead(t) \/ FlushEnd(t) \/ FlushTimeout(t)
      PROVE  Silent
  BY <1>1, <1>5 DEF ManualFlush, FlushRead, FlushEnd, FlushTimeout, net
<1>6. CASE Next
  BY <1>3, <1>4, <1>5, <1>6, DownRefines, ReceiptRefines, ReceiptLateRefines, SendRefines,
     EnqueueRefines, CloseRefines, BumpIsSilent, FlushNextRefines DEF Next, FlushStep
<1> QED
  BY <1>2, <1>6

LEMMA InitRefines == Init => RS!Init
<1> SUFFICES ASSUME Init PROVE RS!Init
  OBVIOUS
<1> USE MessagingAssumption
<1>1. PICK old \in SUBSET Direct :
        /\ outbox = [m \in Msg |-> IF m \in old THEN 0 ELSE None]
        /\ call = [m \in Msg |-> IF m \in old THEN "queued" ELSE "new"]
  BY DEF Init
<1>2. \A m \in Msg : ~Held(m) /\ m \notin dropped
  BY DEF Init, Held
<1>3. \A m \in Msg : /\ StatusOf(m) = (IF m \in old THEN "accepted" ELSE "new")
                     /\ ToldOf(m) = (IF m \in old THEN "queued" ELSE "nothing")
  BY <1>1, <1>2 DEF StatusOf, ToldOf
<1>4. Statuses \in [Msg -> {"new", "accepted"}]
  BY <1>3 DEF Statuses
<1>5. Answers = [m \in Msg |-> IF Statuses[m] = "new" THEN "nothing" ELSE "queued"]
  BY <1>3 DEF Statuses, Answers
<1> QED
  BY <1>4, <1>5 DEF RS!Init

(* The outbox adapter implements ReliableSend for any number of tabs,        *)
(* brokers, messages and retries: each step of send, of a flush or of the    *)
(* network is a step of the promise, or is invisible to the caller.          *)
THEOREM Refines == Spec => ImplementsReliableSend
<1>1. ASSUME IInv, [Next]_vars PROVE [RS!Next]_<<Statuses, Answers>>
  BY <1>1, NextRefines, SilentStutters
<1> QED
  BY AlwaysIInv, InitRefines, <1>1, PTL DEF Spec, ImplementsReliableSend, RS!Spec

-----------------------------------------------------------------------------
(* The link below: BrokerLink, for every set of sockets and device           *)
(* identifiers and any number of faults and re-bindings.  The three          *)
(* invariants are inductive once it is known that a link that is connected   *)
(* has no dial pending: otherwise the adapter's own timer, which leaves the  *)
(* heartbeat alone, could take a connected socket away from under it.        *)

SettledWhenConnected == dial # Null => state # "connected"

LinkInv ==
    /\ LinkTypeOK
    /\ ConnectedIsRegistered /\ Watched /\ OneOpenSocket
    /\ SettledWhenConnected

LEMMA InitLinkInv == LinkInit => LinkInv
<1> SUFFICES ASSUME LinkInit PROVE LinkInv
  OBVIOUS
<1>1. PICK d \in Device : dev = d /\ sock = [s \in Sock |-> Unused(d)]
  BY DEF LinkInit
<1>2. Unused(d) \in Socket
  BY DEF Unused, Socket, Stage, Net
<1>3. LinkTypeOK
  BY <1>1, <1>2 DEF LinkInit, LinkTypeOK, State
<1>4. OneOpenSocket
  BY <1>1 DEF OneOpenSocket, IsOpen, Unused
<1> QED
  BY <1>3, <1>4
  DEF LinkInit, LinkInv, ConnectedIsRegistered, Watched, SettledWhenConnected

(* ws.close() keeps the handshake of every socket, closes the one of the     *)
(* moment and opens none.                                                    *)
LEMMA CloseSocketFacts ==
    ASSUME LinkTypeOK, OneOpenSocket
    PROVE  /\ CloseSocket \in [Sock -> Socket]
           /\ \A s \in Sock : /\ CloseSocket[s].stage = sock[s].stage
                              /\ CloseSocket[s].net \notin {"alive", "mute"}
<1>1. \A n \in Net : CloseNet(n) \in Net \ {"alive", "mute"}
  BY DEF CloseNet, Net
<1>2. CASE ws = Null
  <2>1. \A s \in Sock : s # Null
    BY LinkAssumption
  <2> QED
    BY <1>2, <2>1 DEF CloseSocket, LinkTypeOK, OneOpenSocket, IsOpen
<1>3. CASE ws # Null
  <2>1. /\ ws \in Sock /\ sock[ws] \in Socket
        /\ CloseSocket = [sock EXCEPT ![ws].net = CloseNet(sock[ws].net)]
    BY <1>3 DEF CloseSocket, LinkTypeOK
  <2>2. sock[ws].net \in Net
    BY <2>1 DEF Socket
  <2>3. CloseSocket \in [Sock -> Socket]
    BY <2>1, <2>2, <1>1 DEF LinkTypeOK, Socket
  <2>4. ASSUME NEW s \in Sock
        PROVE  /\ CloseSocket[s].stage = sock[s].stage
               /\ CloseSocket[s].net \notin {"alive", "mute"}
    BY <2>1, <2>2, <1>1 DEF LinkTypeOK, OneOpenSocket, IsOpen, Socket
  <2> QED
    BY <2>3, <2>4
<1> QED
  BY <1>2, <1>3

LEMMA RolledBackType == ASSUME LinkTypeOK PROVE RolledBack \in Device
  BY LinkAssumption DEF LinkTypeOK, RolledBack, Dial

(* connect(): the new socket is the only one that is open, and no heartbeat  *)
(* is left over from the one before it.                                      *)
LEMMA DialingKeeps ==
    ASSUME LinkInv, NEW s \in Sock, NEW by \in Caller, NEW d \in Device,
           Dialing(s, by, CloseSocket, d),
           beat' = Null, ping' = Null, multi' = multi,
           did' \in BOOLEAN, dev' \in Device, auto' \in BOOLEAN,
           breaks' \in Nat, rebinds' \in Nat
    PROVE  LinkInv'
<1> USE DEF LinkInv
<1>1. /\ CloseSocket \in [Sock -> Socket]
      /\ \A t \in Sock : CloseSocket[t].net \notin {"alive", "mute"}
  BY CloseSocketFacts
<1> DEFINE new == [stage |-> "dialing", net |-> "alive", reg |-> d, same |-> TRUE]
<1>2. new \in Socket
  BY DEF Socket, Stage, Net
<1>3. sock' = [CloseSocket EXCEPT ![s] = new]
  BY DEF Dialing
<1>4. sock' \in [Sock -> Socket] /\ sock'[s] = new
      /\ \A t \in Sock \ {s} : sock'[t].net \notin {"alive", "mute"}
  BY <1>1, <1>2, <1>3
<1>5. ws' = s /\ state' = "connecting"
  BY DEF Dialing
<1>6. dial' \in Dial
  BY DEF Dialing, Dial, Caller, LinkTypeOK
<1>7. LinkTypeOK'
  BY <1>4, <1>5, <1>6 DEF LinkTypeOK, State
<1>8. ConnectedIsRegistered' /\ Watched' /\ SettledWhenConnected'
  BY <1>4, <1>5 DEF ConnectedIsRegistered, Watched, SettledWhenConnected
<1>9. OneOpenSocket'
  BY <1>4, <1>5 DEF OneOpenSocket, IsOpen
<1> QED
  BY <1>7, <1>8, <1>9

(* disconnect(), killSocket and the dial's timeout leave no socket and no    *)
(* heartbeat behind.                                                         *)
LEMMA NoSocketKeeps ==
    ASSUME LinkInv, sock' = CloseSocket, ws' = Null, state' = "disconnected",
           beat' = Null, ping' = Null, multi' = multi,
           dial' \in {dial, Null}, did' \in BOOLEAN, dev' \in Device, auto' \in BOOLEAN,
           breaks' \in Nat, rebinds' \in Nat
    PROVE  LinkInv'
<1>1. /\ sock' \in [Sock -> Socket]
      /\ \A t \in Sock : sock'[t].net \notin {"alive", "mute"}
  BY CloseSocketFacts DEF LinkInv
<1> QED
  BY <1>1 DEF LinkInv, LinkTypeOK, State, ConnectedIsRegistered, Watched, OneOpenSocket,
              IsOpen, SettledWhenConnected

(* A handler that changes one socket only, and not into a registered one: if *)
(* it is the socket of the moment, a state that was connected is given up.   *)
LEMMA HandlerKeeps ==
    ASSUME LinkInv, NEW s \in Sock, NEW x \in Socket,
           sock' = [sock EXCEPT ![s] = x],
           x.net \in {"alive", "mute"} => IsOpen(s),
           x.stage # "up",
           ws = s => state' # "connected" /\ state' \in State,
           ws # s \/ sock[s].stage # "up" => beat' = beat /\ ping' = ping,
           ws = s /\ sock[s].stage = "up" => beat' = Null /\ ping' = Null,
           ws # s => state' = state,
           ws' = ws, multi' = multi, dial' \in {dial, Null},
           did' \in BOOLEAN, dev' \in Device, auto' = auto,
           breaks' \in Nat, rebinds' \in Nat
    PROVE  LinkInv'
<1> USE DEF LinkInv
<1>1. /\ sock' \in [Sock -> Socket] /\ sock'[s] = x
      /\ \A t \in Sock \ {s} : sock'[t] = sock[t]
  BY DEF LinkTypeOK
<1>2. state' \in State
  BY DEF LinkTypeOK
<1>3. beat' \in Sock \cup {Null} /\ ping' \in Sock \cup {Null}
  BY DEF LinkTypeOK
<1>4. LinkTypeOK'
  BY <1>1, <1>2, <1>3 DEF LinkTypeOK
<1>5. OneOpenSocket'
  BY <1>1 DEF OneOpenSocket, IsOpen
<1>6. CASE ws = s
  <2>1. s # Null /\ (state = "connected" <=> sock[s].stage = "up")
    BY <1>6, LinkAssumption DEF ConnectedIsRegistered
  <2>2. beat' = Null /\ ping' = Null
    BY <1>6, <2>1 DEF Watched, LinkTypeOK
  <2> QED
    BY <1>1, <1>4, <1>5, <1>6, <2>2 DEF ConnectedIsRegistered, Watched, SettledWhenConnected
<1>7. CASE ws # s
  BY <1>1, <1>4, <1>5, <1>7
  DEF ConnectedIsRegistered, Watched, SettledWhenConnected, LinkTypeOK
<1> QED
  BY <1>6, <1>7

LEMMA NextLinkInv == LinkInv /\ [LinkNext]_linkVars => LinkInv'
<1> SUFFICES ASSUME LinkInv, [LinkNext]_linkVars PROVE LinkInv'
  OBVIOUS
<1> USE DEF LinkInv
<1>0. RolledBack \in Device /\ breaks \in Nat /\ breaks + 1 \in Nat /\ dial \in {dial, Null}
  BY RolledBackType DEF LinkTypeOK
<1>1. ASSUME NEW s \in Sock, Connect(s) PROVE LinkInv'
  <2>1. CASE state = "connected" \/ (multi /\ InFlight)
    BY <1>1, <2>1 DEF Connect, LinkTypeOK, ConnectedIsRegistered, Watched, OneOpenSocket,
                      IsOpen, SettledWhenConnected
  <2>2. CASE ~(state = "connected" \/ (multi /\ InFlight))
    <3>1. beat = Null /\ ping = Null
      BY <2>2 DEF Watched
    <3>2. /\ Dialing(s, "app", CloseSocket, RolledBack)
          /\ dev' = RolledBack /\ auto' = (auto \/ multi)
          /\ UNCHANGED <<multi, did, beat, ping, breaks, rebinds>>
      BY <1>1, <2>2 DEF Connect
    <3>3. did' \in BOOLEAN /\ dev' \in Device /\ rebinds' \in Nat /\ breaks' \in Nat
      BY <1>0, <3>2 DEF LinkTypeOK
    <3>4. auto' \in BOOLEAN
      BY <3>2 DEF LinkTypeOK
    <3>5. "app" \in Caller
      BY DEF Caller
    <3> QED
      BY <1>0, <3>1, <3>2, <3>3, <3>4, <3>5, DialingKeeps
  <2> QED
    BY <2>1, <2>2
<1>2. ASSUME NEW s \in Sock, LoopTick(s) PROVE LinkInv'
  <2>1. beat = Null /\ ping = Null
    BY <1>2 DEF LoopTick, Watched
  <2>2. /\ Dialing(s, "timer", CloseSocket, RolledBack)
        /\ dev' = RolledBack
        /\ UNCHANGED <<multi, did, beat, ping, auto, breaks, rebinds>>
    BY <1>2 DEF LoopTick
  <2>3. "timer" \in Caller
    BY DEF Caller
  <2> QED
    BY <1>0, <2>1, <2>2, <2>3, DialingKeeps DEF LinkTypeOK
<1>3. ASSUME NEW s \in Sock, NEW d \in Device, Rebind(s, d) PROVE LinkInv'
  <2>1. CASE ~did
    BY <1>3, <2>1 DEF Rebind, LinkTypeOK, ConnectedIsRegistered, Watched, OneOpenSocket,
                      IsOpen, SettledWhenConnected
  <2>2. CASE did
    <3>1. /\ Dialing(s, "rebind", CloseSocket, d)
          /\ beat' = Null /\ ping' = Null /\ did' = FALSE /\ dev' = d
          /\ rebinds' = rebinds + 1 /\ UNCHANGED <<multi, auto, breaks>>
      BY <1>3, <2>2 DEF Rebind, StopHeartbeat
    <3>2. "rebind" \in Caller
      BY DEF Caller
    <3>3. did' \in BOOLEAN /\ auto' \in BOOLEAN
      BY <3>1 DEF LinkTypeOK
    <3>4. breaks' \in Nat /\ rebinds' \in Nat
      BY <3>1 DEF LinkTypeOK
    <3> QED
      BY <3>1, <3>2, <3>3, <3>4, DialingKeeps
  <2> QED
    BY <2>1, <2>2
<1>4. CASE Disconnect
  <2>1. /\ sock' = CloseSocket /\ ws' = Null /\ state' = "disconnected"
        /\ beat' = Null /\ ping' = Null /\ dial' = Null /\ did' = FALSE
        /\ dev' = RolledBack /\ auto' = FALSE /\ UNCHANGED <<multi, breaks, rebinds>>
    BY <1>4 DEF Disconnect, TearDown, StopHeartbeat, Rejected, Settled
  <2> QED
    BY <1>0, <2>1, NoSocketKeeps DEF LinkTypeOK
<1>5. CASE DialTimeout
  <2>1. dial' = Null /\ dev' = RolledBack /\ UNCHANGED <<multi, auto, rebinds>>
    BY <1>5 DEF DialTimeout, TearDown, Rejected, Settled
  <2>2. breaks' \in Nat
    BY <1>0, <1>5 DEF DialTimeout, LinkFault, NoLinkFault
  <2>3. beat = Null /\ ping = Null
    BY <1>5 DEF DialTimeout, SettledWhenConnected, Watched
  <2>4. CASE multi \/ ws = dial.sock
    <3>1. /\ sock' = CloseSocket /\ ws' = Null /\ state' = "disconnected"
          /\ beat' = Null /\ ping' = Null /\ did' \in BOOLEAN
      BY <1>5, <2>3, <2>4 DEF DialTimeout, TearDown, StopHeartbeat, LinkTypeOK
    <3> QED
      BY <1>0, <2>1, <2>2, <3>1, NoSocketKeeps DEF LinkTypeOK
  <2>5. CASE ~(multi \/ ws = dial.sock)
    <3>1. UNCHANGED <<ws, sock, state, did, beat, ping>>
      BY <1>5, <2>5 DEF DialTimeout
    <3> QED
      BY <1>0, <2>1, <2>2, <3>1
      DEF LinkTypeOK, ConnectedIsRegistered, Watched, OneOpenSocket, IsOpen, SettledWhenConnected
  <2> QED
    BY <2>4, <2>5
<1>6. ASSUME NEW s \in Sock, OnOpen(s) \/ OnChallenge(s) \/ Signed(s) PROVE LinkInv'
  <2>1. sock[s] \in Socket /\ sock[s].stage # "up"
    BY <1>6 DEF OnOpen, OnChallenge, Signed, LinkTypeOK
  <2>2. PICK x \in Socket : /\ sock' = [sock EXCEPT ![s] = x]
                           /\ x.net = sock[s].net /\ x.stage # "up"
    <3>1. CASE OnOpen(s)
      <4> DEFINE x == [sock[s] EXCEPT !.stage = "asked", !.reg = dev]
      <4>1. x \in Socket /\ sock' = [sock EXCEPT ![s] = x]
        BY <2>1, <3>1 DEF OnOpen, Socket, Stage, LinkTypeOK
      <4>2. x.net = sock[s].net /\ x.stage # "up"
        BY <2>1 DEF Socket
      <4> QED
        BY <4>1, <4>2
    <3>2. CASE OnChallenge(s)
      <4> DEFINE x == [sock[s] EXCEPT !.stage = "signing", !.same = (sock[s].reg = dev)]
      <4>1. x \in Socket /\ sock' = [sock EXCEPT ![s] = x]
        BY <2>1, <3>2 DEF OnChallenge, Socket, Stage, LinkTypeOK
      <4>2. x.net = sock[s].net /\ x.stage # "up"
        BY <2>1 DEF Socket
      <4> QED
        BY <4>1, <4>2
    <3>3. CASE Signed(s) /\ ws = s
      <4> DEFINE x == [sock[s] EXCEPT !.stage = "answered",
                                      !.same = (sock[s].same /\ sock[s].reg = dev)]
      <4>1. x \in Socket /\ sock' = [sock EXCEPT ![s] = x]
        BY <2>1, <3>3 DEF Signed, Socket, Stage, LinkTypeOK
      <4>2. x.net = sock[s].net /\ x.stage # "up"
        BY <2>1 DEF Socket
      <4> QED
        BY <4>1, <4>2
    <3>4. CASE Signed(s) /\ ws # s
      <4> DEFINE x == [sock[s] EXCEPT !.stage = "refused"]
      <4>1. x \in Socket /\ sock' = [sock EXCEPT ![s] = x]
        BY <2>1, <3>4 DEF Signed, Socket, Stage, LinkTypeOK
      <4>2. x.net = sock[s].net /\ x.stage # "up"
        BY <2>1 DEF Socket
      <4> QED
        BY <4>1, <4>2
    <3> QED
      BY <1>6, <3>1, <3>2, <3>3, <3>4
  <2>3. UNCHANGED <<multi, state, ws, dial, did, dev, beat, ping, auto, breaks, rebinds>>
    BY <1>6 DEF OnOpen, OnChallenge, Signed
  <2>4. ws = s => state' # "connected" /\ state' \in State
    BY <2>1, <2>3 DEF ConnectedIsRegistered, LinkTypeOK
  <2> QED
    BY <1>0, <2>1, <2>2, <2>3, <2>4, HandlerKeeps DEF IsOpen, LinkTypeOK
<1>7. ASSUME NEW s \in Sock, SigningFails(s) \/ OnRelayError(s) PROVE LinkInv'
  <2> DEFINE x == [sock[s] EXCEPT !.stage = "refused"]
  <2>1. sock[s] \in Socket /\ sock[s].stage # "up"
    BY <1>7 DEF SigningFails, OnRelayError, LinkTypeOK
  <2>2. x \in Socket /\ sock' = [sock EXCEPT ![s] = x]
    BY <1>7, <2>1 DEF SigningFails, OnRelayError, Advance, Socket, Stage, LinkTypeOK
  <2>3. x.net = sock[s].net /\ x.stage # "up"
    BY <2>1 DEF Socket
  <2>4. breaks' \in Nat
    BY <1>0, <1>7 DEF SigningFails, OnRelayError, LinkFault, NoLinkFault
  <2>5. dial' \in {dial, Null} /\ dev' \in Device
    BY <1>0, <1>7 DEF SigningFails, OnRelayError, Rejected, Settled, LinkTypeOK
  <2>6. UNCHANGED <<multi, ws, did, beat, ping, auto, rebinds>>
    BY <1>7 DEF SigningFails, OnRelayError
  <2>7. ws = s => state' # "connected" /\ state' \in State
    BY <1>7, <2>1 DEF SigningFails, OnRelayError, ConnectedIsRegistered, LinkTypeOK, State
  <2>8. ws # s => state' = state
    BY <1>7 DEF SigningFails, OnRelayError
  <2> HIDE DEF x
  <2> QED
    BY <2>1, <2>2, <2>3, <2>4, <2>5, <2>6, <2>7, <2>8, HandlerKeeps DEF IsOpen, LinkTypeOK
<1>8. ASSUME NEW s \in Sock, OnRegistered(s) PROVE LinkInv'
  <2> DEFINE x == [sock[s] EXCEPT !.stage = "up"]
  <2>1. ws = s /\ s # Null /\ sock[s] \in Socket
    BY <1>8, LinkAssumption DEF OnRegistered, LinkTypeOK
  <2>2. x \in Socket /\ sock' = [sock EXCEPT ![s] = x]
    BY <1>8, <2>1 DEF OnRegistered, Advance, Socket, Stage, LinkTypeOK
  <2>3. x.net = sock[s].net /\ x.stage = "up"
    BY <2>1 DEF Socket
  <2> HIDE DEF x
  <2>4. /\ sock' \in [Sock -> Socket] /\ sock'[s] = x
        /\ \A t \in Sock \ {s} : sock'[t] = sock[t]
    BY <2>2 DEF LinkTypeOK
  <2>5. /\ did' = TRUE /\ state' = "connected" /\ beat' = s /\ ping' = Null /\ dial' = Null
        /\ UNCHANGED <<multi, ws, dev, breaks, rebinds>>
    BY <1>8 DEF OnRegistered, Settled
  <2>6. auto' \in BOOLEAN
    BY <1>8 DEF OnRegistered
  <2>7. LinkTypeOK'
    BY <2>4, <2>5, <2>6 DEF LinkTypeOK, State
  <2>8. OneOpenSocket'
    BY <2>3, <2>4, <2>5 DEF OneOpenSocket, IsOpen
  <2> QED
    BY <2>1, <2>3, <2>4, <2>5, <2>7, <2>8
    DEF ConnectedIsRegistered, Watched, SettledWhenConnected
<1>9. ASSUME NEW s \in Sock, OnError(s) \/ NetBreak(s) PROVE LinkInv'
  <2>1. sock[s] \in Socket /\ IsOpen(s)
    BY <1>9 DEF OnError, NetBreak, IsOpen, LinkTypeOK
  <2>2. PICK n \in Net : sock' = [sock EXCEPT ![s].net = n]
    BY <1>9 DEF OnError, NetBreak, Net
  <2> DEFINE x == [sock[s] EXCEPT !.net = n]
  <2>3. x \in Socket /\ x.stage = sock[s].stage /\ sock' = [sock EXCEPT ![s] = x]
    BY <2>1, <2>2 DEF Socket, LinkTypeOK
  <2> HIDE DEF x
  <2>4. /\ sock' \in [Sock -> Socket] /\ sock'[s] = x
        /\ \A t \in Sock \ {s} : sock'[t] = sock[t]
    BY <2>3 DEF LinkTypeOK
  <2>5. UNCHANGED <<multi, ws, did, beat, ping, auto, rebinds>>
    BY <1>9 DEF OnError, NetBreak
  <2>6. dial' \in {dial, Null} /\ dev' \in Device /\ breaks' \in Nat
    BY <1>0, <1>9 DEF OnError, NetBreak, Rejected, Settled, LinkFault, LinkTypeOK
  <2>7. \/ state' = state
        \/ state = "connecting" /\ state' = "error"
    BY <1>9 DEF OnError, NetBreak
  <2>8. LinkTypeOK'
    BY <2>4, <2>5, <2>6, <2>7 DEF LinkTypeOK, State
  <2>9. OneOpenSocket'
    BY <2>1, <2>4, <2>5 DEF OneOpenSocket, IsOpen
  <2>10. ws # Null => sock'[ws].stage = sock[ws].stage
    BY <2>3, <2>4 DEF LinkTypeOK
  <2> QED
    BY <2>5, <2>6, <2>7, <2>8, <2>9, <2>10
    DEF ConnectedIsRegistered, Watched, SettledWhenConnected
<1>10. ASSUME NEW s \in Sock, OnClose(s) PROVE LinkInv'
  <2> DEFINE x == AfterClose(s)
  <2>1. sock[s] \in Socket
    BY DEF LinkTypeOK
  <2>2. x \in Socket /\ x.net = "none" /\ x.stage # "up"
    BY <2>1 DEF AfterClose, Unused, Socket, Stage, Net
  <2>3. sock' = [sock EXCEPT ![s] = x]
    BY <1>10 DEF OnClose
  <2> HIDE DEF x
  <2>4. /\ sock' \in [Sock -> Socket] /\ sock'[s] = x
        /\ \A t \in Sock \ {s} : sock'[t] = sock[t]
    BY <2>2, <2>3 DEF LinkTypeOK
  <2>5. UNCHANGED <<multi, ws, dial, did, dev, auto, breaks, rebinds>>
    BY <1>10 DEF OnClose
  <2>6. IF ws = s THEN beat' = Null /\ ping' = Null /\ state' = "disconnected"
                  ELSE UNCHANGED <<state, beat, ping>>
    BY <1>10 DEF OnClose, StopHeartbeat
  <2>7. LinkTypeOK'
    BY <2>4, <2>5, <2>6 DEF LinkTypeOK, State
  <2>8. OneOpenSocket'
    BY <2>2, <2>4, <2>5 DEF OneOpenSocket, IsOpen
  <2> QED
    BY <2>2, <2>4, <2>5, <2>6, <2>7, <2>8
    DEF ConnectedIsRegistered, Watched, SettledWhenConnected, LinkTypeOK
<1>11. ASSUME NEW s \in Sock, Kill(s), ws = s,
              UNCHANGED <<multi, dial, did, dev, auto, rebinds>>, breaks' \in Nat
       PROVE  LinkInv'
  <2>1. /\ sock' = CloseSocket /\ ws' = Null /\ state' = "disconnected"
        /\ beat' = Null /\ ping' = Null
    BY <1>11 DEF Kill, StopHeartbeat
  <2> QED
    BY <1>0, <1>11, <2>1, NoSocketKeeps DEF LinkTypeOK
<1>12. CASE Heartbeat
  <2>1. ws = beat /\ state = "connected" /\ beat \in Sock
    BY <1>12 DEF Heartbeat, Watched, LinkTypeOK
  <2>2. CASE ~IsOpen(beat)
    BY <1>0, <1>11, <1>12, <2>1, <2>2 DEF Heartbeat
  <2>3. CASE IsOpen(beat)
    <3>1. ping' = beat
          /\ UNCHANGED <<multi, state, ws, sock, dial, did, dev, beat, auto, breaks, rebinds>>
      BY <1>12, <2>1, <2>3 DEF Heartbeat
    <3> QED
      BY <2>1, <3>1 DEF LinkTypeOK, ConnectedIsRegistered, Watched, OneOpenSocket, IsOpen,
                        SettledWhenConnected
  <2> QED
    BY <2>2, <2>3
<1>13. CASE PongTimeout
  <2>1. ws = ping /\ ping \in Sock
    BY <1>13 DEF PongTimeout, Watched, LinkTypeOK
  <2>2. /\ Kill(ping) /\ UNCHANGED <<multi, dial, did, dev, auto, rebinds>>
        /\ breaks' \in Nat
    BY <1>0, <1>13 DEF PongTimeout, LinkFault, NoLinkFault
  <2> QED
    BY <1>11, <2>1, <2>2
<1>14. ASSUME NEW s \in Sock, OnPong(s) PROVE LinkInv'
  BY <1>14 DEF OnPong, LinkTypeOK, ConnectedIsRegistered, Watched, OneOpenSocket, IsOpen,
               SettledWhenConnected
<1>15. CASE UNCHANGED linkVars
  BY <1>15 DEF linkVars, LinkTypeOK, ConnectedIsRegistered, Watched, OneOpenSocket, IsOpen,
               SettledWhenConnected
<1> QED
  BY <1>1, <1>2, <1>3, <1>4, <1>5, <1>6, <1>7, <1>8, <1>9, <1>10, <1>12, <1>13, <1>14, <1>15
  DEF LinkNext, Handshake

LEMMA AlwaysLinkInv == LinkSpec => []LinkInv
  BY InitLinkInv, NextLinkInv, PTL DEF LinkSpec

(* WebSocketMessagingAdapter: every value of the link's state is of its type,*)
(* whatever the sockets, timers and re-bindings do.                          *)
THEOREM LinkTypeCorrect == LinkSpec => []LinkTypeOK
<1>1. LinkInv => LinkTypeOK
  BY DEF LinkInv
<1> QED
  BY AlwaysLinkInv, <1>1, PTL

(* setState: 'connected' is shown exactly while the socket of the moment is  *)
(* registered, for any number of sockets and faults.                         *)
THEOREM ConnectedMeansRegistered == LinkSpec => []ConnectedIsRegistered
<1>1. LinkInv => ConnectedIsRegistered
  BY DEF LinkInv
<1> QED
  BY AlwaysLinkInv, <1>1, PTL

(* startHeartbeat, stopHeartbeat: a connection is never without its own      *)
(* heartbeat, and a heartbeat never without its connection.                  *)
THEOREM EveryConnectionIsWatched == LinkSpec => []Watched
<1>1. LinkInv => Watched
  BY DEF LinkInv
<1> QED
  BY AlwaysLinkInv, <1>1, PTL

(* connect, disconnect, killSocket: a socket that was replaced is closed, so *)
(* that no broker holds two open connections of one adapter.                 *)
THEOREM NoLingeringSocket == LinkSpec => []OneOpenSocket
<1>1. LinkInv => OneOpenSocket
  BY DEF LinkInv
<1> QED
  BY AlwaysLinkInv, <1>1, PTL

=============================================================================
