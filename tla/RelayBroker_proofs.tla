------------------------- MODULE RelayBroker_proofs -------------------------
(***************************************************************************)
(* Proofs about RelayBroker for any numbers of identities, devices and     *)
(* sockets.  What a suspended ingest handler has checked must still hold   *)
(* when it resumes: that is the part of the invariant about jobs.          *)
(***************************************************************************)
EXTENDS RelayBroker, TLAPS

\* A registered socket is bound to a device.
SocketHasDevice == \A s \in Socket : sdid[s] # None => sdev[s] \in Device

\* The author binding a suspended ingest handler has checked still holds.
SuspendedAuthorOwns ==
    \A s \in Socket : job[s] # None /\ job[s].kind = "log-entry" =>
        owner[job[s].entry.dev] = job[s].entry.author /\ owner[job[s].entry.via] # None

IInv ==
    /\ TypeOK
    /\ SocketHasDevice
    /\ SuspendedAuthorOwns
    /\ AuthorOwnsDevice
    /\ OneEntryPerCoordinate

(* The fields a suspended handler carries have the types of its frame.       *)
LEMMA JobFields ==
    ASSUME TypeOK, NEW s \in Socket, job[s] # None
    PROVE  /\ job[s].kind = "space-register" =>
                job[s].signer \in Did /\ job[s].key \in Key /\ job[s].admins \subseteq Did
           /\ job[s].kind = "space-rotate" => job[s].key \in Key /\ job[s].gen \in Gen
           /\ job[s].kind \in {"admin-add", "admin-remove"} => job[s].did \in Did
           /\ job[s].kind = "present-space" => job[s].perms \in Grants /\ job[s].gen \in Gen
           /\ job[s].kind = "present-personal" => job[s].perms \in Grants /\ job[s].did \in Did
           /\ job[s].kind \in {"register", "device-revoke"} => job[s].did \in Did /\ job[s].dev \in Device
           /\ job[s].kind = "log-entry" => job[s].entry \in Entry
<1>1. job[s] \in Job
  BY DEF TypeOK
<1> QED
  BY <1>1 DEF Job

(* The devices an entry names, stored or suspended, are registered.          *)
LEMMA OwnersKept ==
    ASSUME IInv
    PROVE  /\ \A e \in log : e.dev \in Device /\ e.via \in Device /\ e.author \in Did
                            /\ owner[e.dev] # None
           /\ \A s \in Socket : job[s] # None /\ job[s].kind = "log-entry" =>
                /\ job[s].entry.dev \in Device /\ job[s].entry.via \in Device
                /\ job[s].entry.author \in Did /\ owner[job[s].entry.dev] # None
<1>1. \A s \in Socket : job[s] # None /\ job[s].kind = "log-entry" => job[s].entry \in Entry
  BY JobFields DEF IInv
<1> QED
  BY <1>1, RelayAssumption DEF IInv, TypeOK, Entry, AuthorOwnsDevice, SuspendedAuthorOwns

LEMMA InitIInv == Init => IInv
  BY RelayAssumption DEF Init, IInv, TypeOK, SocketHasDevice, SuspendedAuthorOwns,
     AuthorOwnsDevice, OneEntryPerCoordinate, Gen

(* Suspending a handler keeps the invariant if its frame has the type of a   *)
(* job and an ingest has checked its author.                                 *)
LEMMA SuspendIInv ==
    ASSUME IInv, NEW s \in Socket, NEW j \in Job, Suspend(s, j),
           j.kind = "log-entry" => owner[j.entry.dev] = j.entry.author /\ owner[j.entry.via] # None
    PROVE  IInv'
<1>1. TypeOK'
  BY DEF IInv, TypeOK, Suspend, registry, space, sockets
<1>2. SocketHasDevice' /\ AuthorOwnsDevice' /\ OneEntryPerCoordinate'
  BY DEF IInv, SocketHasDevice, AuthorOwnsDevice, OneEntryPerCoordinate, Suspend,
     registry, space, sockets
<1>3. SuspendedAuthorOwns'
  BY DEF IInv, TypeOK, SuspendedAuthorOwns, Suspend, registry
<1> QED
  BY <1>1, <1>2, <1>3 DEF IInv

(* One step per action of Next.                                              *)
LEMMA NextIInv == IInv /\ [Next]_vars => IInv'
<1> SUFFICES ASSUME IInv, [Next]_vars PROVE IInv'
  OBVIOUS
<1> USE RelayAssumption DEF IInv, TypeOK, SocketHasDevice, SuspendedAuthorOwns,
        AuthorOwnsDevice, OneEntryPerCoordinate, registry, space, sockets
<1>1. ASSUME NEW s \in Socket, FinishRegister(s)
      PROVE  IInv'
  <2>1. job[s].did \in Did /\ job[s].dev \in Device
    BY <1>1, JobFields DEF FinishRegister, Resume
  <2>2. \A dv \in Device : owner[dv] # None => owner'[dv] = owner[dv]
    BY <1>1, <2>1 DEF FinishRegister
  <2>3. TypeOK' /\ SocketHasDevice'
    BY <1>1, <2>1 DEF FinishRegister, Resume
  <2>4. SuspendedAuthorOwns'
    BY <1>1, <2>1, <2>2, OwnersKept DEF FinishRegister, Resume
  <2>5. AuthorOwnsDevice' /\ OneEntryPerCoordinate'
    BY <1>1, <2>2, OwnersKept DEF FinishRegister
  <2> QED
    BY <2>3, <2>4, <2>5
<1>2. ASSUME NEW s \in Socket, CloseSocket(s)
      PROVE  IInv'
  BY <1>2 DEF CloseSocket
<1>3. ASSUME NEW s \in Socket, ExpireScope(s)
      PROVE  IInv'
  BY <1>3 DEF ExpireScope
<1>4. ASSUME NEW s \in Socket, NEW d \in Did, NEW dev \in Device, StartRevoke(s, d, dev) \/ StartRegister(s, d, dev)
      PROVE  IInv'
  <2>1. /\ [kind |-> "device-revoke", did |-> d, dev |-> dev] \in Job
        /\ [kind |-> "register", did |-> d, dev |-> dev] \in Job
    BY DEF Job
  <2> QED
    BY <1>4, <2>1, SuspendIInv DEF StartRevoke, StartRegister
<1>5. ASSUME NEW s \in Socket, NEW d \in Did, NEW k \in Key, NEW as \in SUBSET Did, StartSpaceRegister(s, d, k, as)
      PROVE  IInv'
  <2>1. [kind |-> "space-register", signer |-> d, key |-> k, admins |-> as] \in Job
    BY DEF Job
  <2> QED
    BY <1>5, <2>1, SuspendIInv DEF StartSpaceRegister
<1>6. ASSUME NEW s \in Socket, NEW d \in Did, NEW k \in Key, NEW g \in Gen, StartSpaceRotate(s, d, k, g)
      PROVE  IInv'
  <2>1. [kind |-> "space-rotate", key |-> k, gen |-> g] \in Job
    BY DEF Job
  <2> QED
    BY <1>6, <2>1, SuspendIInv DEF StartSpaceRotate
<1>7. ASSUME NEW s \in Socket, NEW d \in Did, NEW t \in Did, NEW kind \in {"admin-add", "admin-remove"}, StartAdminChange(s, d, kind, t)
      PROVE  IInv'
  <2>1. [kind |-> kind, did |-> t] \in Job /\ kind # "log-entry"
    BY DEF Job
  <2> QED
    BY <1>7, <2>1, SuspendIInv DEF StartAdminChange
<1>8. ASSUME NEW s \in Socket, NEW ps \in Grants, StartPresentSpace(s, ps)
      PROVE  IInv'
  <2>1. [kind |-> "present-space", perms |-> ps, gen |-> gen] \in Job
    BY <1>8 DEF StartPresentSpace, IsRegisteredSpace, Job, Gen
  <2> QED
    BY <1>8, <2>1, SuspendIInv DEF StartPresentSpace
<1>9. ASSUME NEW s \in Socket, NEW ps \in Grants, StartPresentPersonal(s, ps)
      PROVE  IInv'
  <2>1. [kind |-> "present-personal", perms |-> ps, did |-> sdid[s]] \in Job
    BY <1>9 DEF StartPresentPersonal, Registered, Job
  <2> QED
    BY <1>9, <2>1, SuspendIInv DEF StartPresentPersonal
<1>10. ASSUME NEW s \in Socket,
             NEW d \in Did, NEW dev \in Device, NEW n \in 0 .. MaxSeq, NEW c \in Content, NEW g \in Gen, StartLogEntry(s, d, dev, n, c, g)
      PROVE  IInv'
  <2> DEFINE e == [author |-> d, dev |-> dev, seq |-> n, content |-> c, gen |-> g, via |-> sdev[s]]
  <2>1. sdev[s] \in Device /\ owner[sdev[s]] # None /\ owner[dev] = d
    BY <1>10 DEF StartLogEntry, Registered, IsActive
  <2>2. e \in Entry
    BY <2>1 DEF Entry
  <2>3. [kind |-> "log-entry", entry |-> e] \in Job
    BY <2>2 DEF Job
  <2>4. Suspend(s, [kind |-> "log-entry", entry |-> e])
    BY <1>10 DEF StartLogEntry
  <2> QED
    BY <2>1, <2>3, <2>4, SuspendIInv
<1>11. ASSUME NEW s \in Socket, FinishRevoke(s)
      PROVE  IInv'
  <2>1. job[s].did \in Did /\ job[s].dev \in Device
    BY <1>11, JobFields DEF FinishRevoke, Resume
  <2>2. \A dv \in Device : owner[dv] # None => owner'[dv] = owner[dv]
    BY <1>11, <2>1 DEF FinishRevoke
  <2>3. TypeOK' /\ SocketHasDevice'
    BY <1>11, <2>1 DEF FinishRevoke, Resume
  <2>4. SuspendedAuthorOwns'
    BY <1>11, <2>1, <2>2, OwnersKept DEF FinishRevoke, Resume
  <2>5. AuthorOwnsDevice' /\ OneEntryPerCoordinate'
    BY <1>11, <2>2, OwnersKept DEF FinishRevoke
  <2> QED
    BY <2>3, <2>4, <2>5
<1>12. ASSUME NEW s \in Socket, FinishSpaceRegister(s)
      PROVE  IInv'
  BY <1>12, JobFields DEF FinishSpaceRegister, Resume, Gen
<1>13. ASSUME NEW s \in Socket, FinishSpaceRotate(s)
      PROVE  IInv'
  BY <1>13, JobFields DEF FinishSpaceRotate, Resume
<1>14. ASSUME NEW s \in Socket, FinishAdminAdd(s)
      PROVE  IInv'
  BY <1>14, JobFields DEF FinishAdminAdd, Resume
<1>15. ASSUME NEW s \in Socket, FinishAdminRemove(s)
      PROVE  IInv'
  BY <1>15, JobFields DEF FinishAdminRemove, Resume
<1>16. ASSUME NEW s \in Socket, FinishPresentSpace(s)
      PROVE  IInv'
  BY <1>16, JobFields DEF FinishPresentSpace, Resume, Scope
<1>17. ASSUME NEW s \in Socket, FinishPresentPersonal(s)
      PROVE  IInv'
  BY <1>17, JobFields DEF FinishPresentPersonal, Resume, Scope, Gen
<1>18. ASSUME NEW s \in Socket, FinishLogEntry(s)
      PROVE  IInv'
  BY <1>18, JobFields DEF FinishLogEntry, Resume
<1>19. CASE UNCHANGED vars
  BY <1>19 DEF vars
<1> QED
  BY <1>1, <1>2, <1>3, <1>4, <1>5, <1>6, <1>7, <1>8, <1>9, <1>10, <1>11, <1>12, <1>13, <1>14, <1>15, <1>16, <1>17, <1>18, <1>19
     DEF Next, StartFrame, FinishFrame

(* TypeOK of the broker's registries, caches and suspended handlers.         *)
THEOREM TypeCorrect == Spec => []TypeOK
<1>1. IInv => TypeOK
  BY DEF IInv
<1> QED
  BY InitIInv, NextIInv, <1>1, PTL DEF Spec

(* appendEntry: however many ingest handlers race, a (deviceId, seq) of the  *)
(* broker's log is bound to one entry.                                       *)
THEOREM LogBindsCoordinates == Spec => []OneEntryPerCoordinate
<1>1. IInv => OneEntryPerCoordinate
  BY DEF IInv
<1> QED
  BY InitIInv, NextIInv, <1>1, PTL DEF Spec

(* The author of every stored entry owns the entry's deviceId for ever.      *)
THEOREM AuthorBindingHolds == Spec => []AuthorOwnsDevice
<1>1. IInv => AuthorOwnsDevice
  BY DEF IInv
<1> QED
  BY InitIInv, NextIInv, <1>1, PTL DEF Spec

(* No entry of a rotated-out generation is ever stored: the gate inside the  *)
(* transaction of appendEntry is enough, whatever happened since the first   *)
(* check.                                                                    *)
THEOREM StaleEntriesAreRefused == Spec => NoStaleIngest
<1>1. TypeOK /\ [Next]_vars => [\A e \in log' \ log : gen >= 0 => e.gen >= gen]_vars
  <2> SUFFICES ASSUME TypeOK, Next, NEW e \in log' \ log, gen >= 0
               PROVE  e.gen >= gen
    BY DEF vars
  <2>1. PICK s \in Socket : FinishLogEntry(s)
    BY DEF Next, StartFrame, FinishFrame, StartRegister, StartRevoke, StartSpaceRegister, StartSpaceRotate,
       StartAdminChange, StartPresentSpace, StartPresentPersonal, StartLogEntry, Suspend,
       FinishRegister, FinishRevoke, FinishSpaceRegister, FinishSpaceRotate, FinishAdminAdd, FinishAdminRemove,
       FinishPresentSpace, FinishPresentPersonal, CloseSocket, ExpireScope
  <2>2. e = job[s].entry /\ ~(IsRegisteredSpace /\ e.gen < gen)
    BY <2>1 DEF FinishLogEntry
  <2>3. e.gen \in Int /\ gen \in Int
    BY <2>1, <2>2, JobFields DEF FinishLogEntry, Resume, Entry, Gen, TypeOK
  <2> QED
    BY <2>2, <2>3 DEF IsRegisteredSpace
<1> QED
  BY <1>1, TypeCorrect, PTL DEF Spec, NoStaleIngest

(* The generation moves only to its successor and an installed key is never  *)
(* replaced within a generation.                                             *)
THEOREM RotationsAreMaterialBound == Spec => RotationIsMaterialBound
<1>1. [Next]_vars => [gen >= 0 => \/ gen' = gen /\ vkey' = vkey
                                 \/ gen' = gen + 1]_vars
  BY DEF vars, Next, StartFrame, FinishFrame, StartRegister, StartRevoke, StartSpaceRegister, StartSpaceRotate,
     StartAdminChange, StartPresentSpace, StartPresentPersonal, StartLogEntry, Suspend,
     FinishRegister, FinishRevoke, FinishSpaceRegister, FinishSpaceRotate, FinishAdminAdd, FinishAdminRemove,
     FinishPresentSpace, FinishPresentPersonal, FinishLogEntry, CloseSocket,
     ExpireScope, IsRegisteredSpace, space
<1> QED
  BY <1>1, PTL DEF Spec, RotationIsMaterialBound

(* Revocation wins every race with registrations and other revocations: a    *)
(* revoked device stays revoked, keeps its DID and gets no new session.      *)
THEOREM RevocationWins == Spec => RevocationIsFinal
<1>1. TypeOK /\ [Next]_vars =>
        [\A d \in Device :
           /\ d \in revoked => d \in revoked'
           /\ owner[d] # None => owner'[d] = owner[d]
           /\ \A s \in Socket : d \in revoked /\ sdev[s] # d => sdev'[s] # d]_vars
  <2> SUFFICES ASSUME TypeOK, Next, NEW d \in Device
               PROVE  /\ d \in revoked => d \in revoked'
                      /\ owner[d] # None => owner'[d] = owner[d]
                      /\ \A s \in Socket : d \in revoked /\ sdev[s] # d => sdev'[s] # d
    BY DEF vars
  <2>1. ASSUME NEW s \in Socket, FinishRegister(s)
        PROVE  /\ revoked' = revoked /\ (owner[d] # None => owner'[d] = owner[d])
               /\ \A t \in Socket : d \in revoked /\ sdev[t] # d => sdev'[t] # d
    <3>1. job[s].did \in Did /\ job[s].dev \in Device
      BY <2>1, JobFields DEF FinishRegister, Resume
    <3> QED
      BY <2>1, <3>1 DEF FinishRegister, TypeOK
  <2>2. ASSUME NEW s \in Socket, FinishRevoke(s)
        PROVE  /\ revoked \subseteq revoked' /\ (owner[d] # None => owner'[d] = owner[d])
               /\ sdev' = sdev
    <3>1. job[s].did \in Did /\ job[s].dev \in Device
      BY <2>2, JobFields DEF FinishRevoke, Resume
    <3> QED
      BY <2>2, <3>1 DEF FinishRevoke, TypeOK, registry, sockets
  <2>3. ASSUME NEW s \in Socket, CloseSocket(s)
        PROVE  /\ UNCHANGED registry
               /\ \A t \in Socket : sdev'[t] \in {sdev[t], None}
    BY <2>3 DEF CloseSocket, TypeOK
  <2>4. CASE UNCHANGED <<owner, revoked, sdev>>
    BY <2>4
  <2>5. \/ \E s \in Socket : FinishRegister(s) \/ FinishRevoke(s) \/ CloseSocket(s)
        \/ UNCHANGED <<owner, revoked, sdev>>
    BY DEF Next, StartFrame, FinishFrame, StartRegister, StartRevoke, StartSpaceRegister,
       StartSpaceRotate, StartAdminChange, StartPresentSpace, StartPresentPersonal, StartLogEntry,
       Suspend, FinishSpaceRegister, FinishSpaceRotate, FinishAdminAdd, FinishAdminRemove,
       FinishPresentSpace, FinishPresentPersonal, FinishLogEntry, ExpireScope, registry, sockets
  <2> QED
    BY <2>1, <2>2, <2>3, <2>4, <2>5, RelayAssumption DEF registry
<1> QED
  BY <1>1, TypeCorrect, PTL DEF Spec, RevocationIsFinal

\* A rotation is only under way in a space.
RotationNeedsSpace ==
    \A s \in Socket : job[s] # None /\ job[s].kind = "space-rotate" => gen >= 0

(* A space never stops being one, so a rotation that waits for its signature *)
(* check still finds it.                                                     *)
LEMMA RotationFindsSpace == Spec => []RotationNeedsSpace
<1>1. Init => RotationNeedsSpace
  BY DEF Init, RotationNeedsSpace
<1>2. TypeOK /\ RotationNeedsSpace /\ [Next]_vars => RotationNeedsSpace'
  <2> SUFFICES ASSUME TypeOK, RotationNeedsSpace, [Next]_vars PROVE RotationNeedsSpace'
    OBVIOUS
  <2>1. gen >= 0 => gen' >= 0
    BY DEF TypeOK, vars, Next, StartFrame, FinishFrame, StartRegister, StartRevoke,
       StartSpaceRegister, StartSpaceRotate, StartAdminChange, StartPresentSpace,
       StartPresentPersonal, StartLogEntry, Suspend, FinishRegister, FinishRevoke,
       FinishSpaceRegister, FinishSpaceRotate, FinishAdminAdd, FinishAdminRemove,
       FinishPresentSpace, FinishPresentPersonal, FinishLogEntry, CloseSocket,
       ExpireScope, IsRegisteredSpace, space, Gen
  <2>2. ASSUME NEW s \in Socket, NEW t \in Socket, job'[t] # None, job'[t].kind = "space-rotate",
               StartFrame(s)
        PROVE  gen >= 0
    <3>1. CASE t # s
      BY <3>1, <2>2 DEF TypeOK, RotationNeedsSpace, StartFrame, StartRegister, StartRevoke,
         StartSpaceRegister, StartSpaceRotate, StartAdminChange, StartPresentSpace,
         StartPresentPersonal, StartLogEntry, Suspend
    <3>2. CASE t = s
      BY <3>2, <2>2 DEF TypeOK, StartFrame, StartRegister, StartRevoke,
         StartSpaceRegister, StartSpaceRotate, StartAdminChange, StartPresentSpace,
         StartPresentPersonal, StartLogEntry, Suspend, IsRegisteredSpace
    <3> QED  BY <3>1, <3>2
  <2>3. ASSUME NEW s \in Socket, NEW t \in Socket, job'[t] # None, job'[t].kind = "space-rotate",
               FinishFrame(s) \/ CloseSocket(s) \/ ExpireScope(s)
        PROVE  job'[t] = job[t]
    BY <2>3 DEF TypeOK, FinishFrame, Resume, FinishRegister, FinishRevoke,
       FinishSpaceRegister, FinishSpaceRotate, FinishAdminAdd, FinishAdminRemove,
       FinishPresentSpace, FinishPresentPersonal, FinishLogEntry, CloseSocket, ExpireScope
  <2> QED
    BY <2>1, <2>2, <2>3 DEF RotationNeedsSpace, Next, vars
<1> QED
  BY <1>1, <1>2, TypeCorrect, PTL DEF Spec

(* A personally owned document becomes a space only by a space-register of   *)
(* its owner, and its owner is not replaced, whatever was under way while    *)
(* the signatures were checked.                                              *)
THEOREM PromotionIsTheOwners == Spec => OwnerDecidesPromotion
<1> DEFINE Promotion ==
      powner # None /\ (powner' # powner \/ (gen < 0 /\ gen' >= 0)) =>
         /\ gen < 0 /\ gen' = 0
         /\ \E s \in Socket : /\ job[s] # None /\ job'[s] = None
                             /\ job[s].kind = "space-register" /\ job[s].signer = powner
<1>1. TypeOK /\ RotationNeedsSpace /\ [Next]_vars => [Promotion]_vars
  <2> SUFFICES ASSUME TypeOK, RotationNeedsSpace, Next, powner # None,
                      powner' # powner \/ (gen < 0 /\ gen' >= 0)
               PROVE  /\ gen < 0 /\ gen' = 0
                      /\ \E s \in Socket : /\ job[s] # None /\ job'[s] = None
                             /\ job[s].kind = "space-register" /\ job[s].signer = powner
    BY DEF vars
  <2>1. ASSUME NEW s \in Socket, FinishPresentPersonal(s) PROVE FALSE
    BY <2>1 DEF FinishPresentPersonal, TypeOK, Gen
  <2>2. ASSUME NEW s \in Socket, FinishSpaceRotate(s) PROVE FALSE
    <3>1. gen >= 0 /\ powner' = powner
      BY <2>2 DEF FinishSpaceRotate, Resume, RotationNeedsSpace
    <3> QED  BY <3>1 DEF TypeOK, Gen
  <2>3. PICK s \in Socket : FinishSpaceRegister(s)
    BY <2>1, <2>2 DEF Next, StartFrame, FinishFrame, StartRegister, StartRevoke,
       StartSpaceRegister, StartSpaceRotate, StartAdminChange, StartPresentSpace,
       StartPresentPersonal, StartLogEntry, Suspend, FinishRegister, FinishRevoke,
       FinishAdminAdd, FinishAdminRemove, FinishPresentSpace, FinishLogEntry, CloseSocket,
       ExpireScope, space, TypeOK, Gen
  <2>4. ~IsRegisteredSpace /\ powner = job[s].signer /\ gen' = 0
    BY <2>3 DEF FinishSpaceRegister, space, TypeOK, Gen
  <2>5. gen < 0
    BY <2>4 DEF IsRegisteredSpace, TypeOK, Gen
  <2>6. job[s] # None /\ job[s].kind = "space-register" /\ job'[s] = None
    BY <2>3 DEF FinishSpaceRegister, Resume, TypeOK
  <2> QED  BY <2>4, <2>5, <2>6
<1> QED
  BY <1>1, TypeCorrect, RotationFindsSpace, PTL DEF Spec, OwnerDecidesPromotion

=============================================================================
