---------------------------- MODULE RelayBroker ----------------------------
(***************************************************************************)
(* The broker's durable registries and its log ingest for one document:    *)
(* device list, space registry, personal owner binding, the per-socket     *)
(* capability scopes and the append-only log.                              *)
(*                                                                         *)
(* Code: wot-relay/src/relay.ts (the frame handlers) and                   *)
(* wot-relay/src/log-store.ts (the SQLite transactions).                   *)
(*                                                                         *)
(* A handler runs up to its first await of a cryptographic check, then     *)
(* other sockets' handlers run, then it continues.  So every asynchronous  *)
(* handler is a Start action (the checks before the await, with what they  *)
(* read) and a Finish action (the rest, which is synchronous).  A frame    *)
(* the first half rejects changes nothing and is not an action.            *)
(*                                                                         *)
(* Abstractions.  Signatures are sound: a frame names its signer.  A       *)
(* capability is presented only if it verifies against what the handler    *)
(* read (otherwise the frame ends in an error).  Challenge nonces are not  *)
(* modelled: an answered challenge is the right one.  One frame per socket *)
(* is in flight; sockets of the same device race instead.                  *)
(***************************************************************************)
EXTENDS Integers

CONSTANTS
    Did, Device, Socket,
    Key,          \* capability verification keys
    Content,      \* payload hashes
    None,
    MaxGen,       \* bound on generations
    MaxSeq,       \* bound on sequence numbers
    Grants,       \* the permission sets issued capabilities carry
    Kinds         \* the frame types clients send in this instance

ASSUME RelayAssumption ==
    /\ None \notin Did \cup Device \cup Key
    /\ MaxGen \in Nat /\ MaxSeq \in Nat
    /\ Grants \subseteq SUBSET {"read", "write"}

VARIABLES
    owner,     \* devices.did: the DID a deviceId is registered for
    revoked,   \* devices with status 'revoked' (tombstones included)
    gen,       \* spaces.generation, -1 while the document is not a space
    vkey,      \* spaces.verification_key
    admins,    \* space_admins
    powner,    \* personal_doc_owners.owner_did
    log,       \* doc_log, each entry with the device of the socket it came by
    sdid,      \* socketToDid
    sdev,      \* socketToDeviceId
    closed,    \* sockets that were closed (a closed socket never comes back)
    scope,     \* socketToScopes: the cached scope of each socket
    job        \* the handler suspended at an await on behalf of a socket

registry == <<owner, revoked>>
space    == <<gen, vkey, admins, powner>>
sockets  == <<sdid, sdev, closed>>
vars     == <<registry, space, log, sockets, scope, job>>

Gen   == 0 .. MaxGen
Entry == [author : Did, dev : Device, seq : 0 .. MaxSeq, content : Content,
          gen : Gen, via : Device]
Scope == [perms : Grants, gen : Gen, path : {"space", "personal"}]

Job ==
    [kind : {"space-register"}, signer : Did, key : Key, admins : SUBSET Did]
    \cup [kind : {"space-rotate"}, key : Key, gen : Gen]
    \cup [kind : {"admin-add", "admin-remove"}, did : Did]
    \cup [kind : {"present-space"}, perms : Grants, gen : Gen]
    \cup [kind : {"present-personal"}, perms : Grants, did : Did]
    \cup [kind : {"register", "device-revoke"}, did : Did, dev : Device]
    \cup [kind : {"log-entry"}, entry : Entry]

IsRegisteredSpace == gen >= 0

\* isActive: registered for the DID and not revoked.
IsActive(d, dev) == owner[dev] = d /\ dev \notin revoked

Registered(s) == sdid[s] # None

\* checkScope for an unexpired scope (ExpireScope drops the expired ones).
Granted(s, p) == scope[s] # None /\ p \in scope[s].perms

Init ==
    /\ owner = [d \in Device |-> None] /\ revoked = {}
    /\ gen = -1 /\ vkey = None /\ admins = {} /\ powner = None
    /\ log = {}
    /\ sdid = [s \in Socket |-> None] /\ sdev = [s \in Socket |-> None] /\ closed = {}
    /\ scope = [s \in Socket |-> None]
    /\ job = [s \in Socket |-> None]

\* A frame arrives and its handler reaches the await.
Suspend(s, j) ==
    /\ j.kind \in Kinds
    /\ s \notin closed
    /\ job[s] = None
    /\ job' = [job EXCEPT ![s] = j]
    /\ UNCHANGED <<registry, space, log, sockets, scope>>

Resume(s, kind) ==
    /\ job[s] # None
    /\ job[s].kind = kind
    /\ job' = [job EXCEPT ![s] = None]

-----------------------------------------------------------------------------
(* Sockets and the device list.                                             *)

\* challenge-response: a socket that has no session yet answers its challenge;
\* the signature check is awaited.
StartRegister(s, d, dev) ==
    /\ ~Registered(s)
    /\ Suspend(s, [kind |-> "register", did |-> d, dev |-> dev])

\* completeRegistration / registerDevice.  A device of another DID and a
\* revoked device are refused.  The socket may have been closed meanwhile.
\* Mutant: the tombstone is not consulted.
FinishRegisterIgnoringTombstone(s) ==
    /\ Resume(s, "register")
    /\ LET j == job[s] IN
       IF ~Registered(s) /\ owner[j.dev] \in {None, j.did}
       THEN /\ owner' = [owner EXCEPT ![j.dev] = j.did]
            /\ sdid' = [sdid EXCEPT ![s] = j.did]
            /\ sdev' = [sdev EXCEPT ![s] = j.dev]
       ELSE UNCHANGED <<owner, sdid, sdev>>
    /\ UNCHANGED <<revoked, space, log, closed, scope>>

FinishRegister(s) ==
    /\ Resume(s, "register")
    /\ LET j == job[s] IN
       IF ~Registered(s) /\ owner[j.dev] \in {None, j.did} /\ j.dev \notin revoked
       THEN /\ owner' = [owner EXCEPT ![j.dev] = j.did]
            /\ sdid' = [sdid EXCEPT ![s] = j.did]
            /\ sdev' = [sdev EXCEPT ![s] = j.dev]
       ELSE UNCHANGED <<owner, sdid, sdev>>
    /\ UNCHANGED <<revoked, space, log, closed, scope>>

\* The socket's entries in all maps are dropped; a suspended handler survives.
CloseSocket(s) ==
    /\ s \notin closed
    /\ closed' = closed \cup {s}
    /\ sdid' = [sdid EXCEPT ![s] = None]
    /\ sdev' = [sdev EXCEPT ![s] = None]
    /\ scope' = [scope EXCEPT ![s] = None]
    /\ UNCHANGED <<registry, space, log, job>>

\* A frame finds its cached scope expired and drops it (checkScope).
ExpireScope(s) ==
    /\ scope[s] # None
    /\ scope' = [scope EXCEPT ![s] = None]
    /\ UNCHANGED <<registry, space, log, sockets, job>>

\* device-revoke: any socket may carry it, the DID signs it.
StartRevoke(s, d, dev) == Suspend(s, [kind |-> "device-revoke", did |-> d, dev |-> dev])

\* revokeDevice: an unknown device becomes a tombstone, a device of another
\* DID is left alone.
\* Mutant: the DID boundary of revokeDevice is missing.
FinishRevokeAnyDid(s) ==
    /\ Resume(s, "device-revoke")
    /\ owner' = [owner EXCEPT ![job[s].dev] = job[s].did]
    /\ revoked' = revoked \cup {job[s].dev}
    /\ UNCHANGED <<space, log, sockets, scope>>

FinishRevoke(s) ==
    /\ Resume(s, "device-revoke")
    /\ LET j == job[s] IN
       IF owner[j.dev] \in {None, j.did}
       THEN /\ owner' = [owner EXCEPT ![j.dev] = j.did]
            /\ revoked' = revoked \cup {j.dev}
       ELSE UNCHANGED registry
    /\ UNCHANGED <<space, log, sockets, scope>>

-----------------------------------------------------------------------------
(* Space registry and administration.                                       *)

StartSpaceRegister(s, d, k, as) ==
    /\ d \in as
    /\ Suspend(s, [kind |-> "space-register", signer |-> d, key |-> k, admins |-> as])

\* registerSpace: first writer wins, a claimed personal document only by its
\* owner; personal scopes of the document are invalidated.
\* Mutant: the owner only has to be listed among the admins.
FinishSpaceRegisterByAnyone(s) ==
    /\ Resume(s, "space-register")
    /\ LET j == job[s] IN
       IF ~IsRegisteredSpace /\ powner \in {None} \cup j.admins
       THEN /\ gen' = 0 /\ vkey' = j.key /\ admins' = j.admins /\ powner' = None
            /\ scope' = [t \in Socket |->
                  IF scope[t] # None /\ scope[t].path = "personal" THEN None ELSE scope[t]]
       ELSE UNCHANGED <<space, scope>>
    /\ UNCHANGED <<registry, log, sockets>>

FinishSpaceRegister(s) ==
    /\ Resume(s, "space-register")
    /\ LET j == job[s] IN
       IF ~IsRegisteredSpace /\ powner \in {None, j.signer}
       THEN /\ gen' = 0 /\ vkey' = j.key /\ admins' = j.admins /\ powner' = None
            /\ scope' = [t \in Socket |->
                  IF scope[t] # None /\ scope[t].path = "personal" THEN None ELSE scope[t]]
       ELSE UNCHANGED <<space, scope>>
    /\ UNCHANGED <<registry, log, sockets>>

\* resolveAdminSigner runs before the await: the signer is an admin now.
StartSpaceRotate(s, d, k, g) ==
    /\ IsRegisteredSpace /\ d \in admins
    /\ Suspend(s, [kind |-> "space-rotate", key |-> k, gen |-> g])

\* Exactly the next generation is installed; scopes of older generations are
\* dropped on every socket.  A repeat, a superseded or a too new generation
\* changes nothing.
\* Mutant: a retry of the installed generation overwrites its key.
FinishSpaceRotateOverwriting(s) ==
    /\ Resume(s, "space-rotate")
    /\ IF job[s].gen \in {gen, gen + 1}
       THEN gen' = job[s].gen /\ vkey' = job[s].key
       ELSE UNCHANGED <<gen, vkey>>
    /\ UNCHANGED <<registry, admins, powner, log, sockets, scope>>

FinishSpaceRotate(s) ==
    /\ Resume(s, "space-rotate")
    /\ LET j == job[s] IN
       IF j.gen = gen + 1
       THEN /\ gen' = j.gen /\ vkey' = j.key
            /\ scope' = [t \in Socket |->
                  IF scope[t] # None /\ scope[t].gen < j.gen THEN None ELSE scope[t]]
       ELSE UNCHANGED <<gen, vkey, scope>>
    /\ UNCHANGED <<registry, admins, powner, log, sockets>>

StartAdminChange(s, d, kind, target) ==
    /\ IsRegisteredSpace /\ d \in admins
    /\ Suspend(s, [kind |-> kind, did |-> target])

FinishAdminAdd(s) ==
    /\ Resume(s, "admin-add")
    /\ admins' = admins \cup {job[s].did}
    /\ UNCHANGED <<registry, gen, vkey, powner, log, sockets, scope>>

FinishAdminRemove(s) ==
    /\ Resume(s, "admin-remove")
    /\ admins' = admins \ {job[s].did}
    /\ UNCHANGED <<registry, gen, vkey, powner, log, sockets, scope>>

-----------------------------------------------------------------------------
(* present-capability.                                                      *)

\* The space record is read, then the signature is verified against it.
StartPresentSpace(s, ps) ==
    /\ Registered(s) /\ IsRegisteredSpace
    /\ Suspend(s, [kind |-> "present-space", perms |-> ps, gen |-> gen])

\* The scope is cached under the generation that was read before the await.
FinishPresentSpace(s) ==
    /\ Resume(s, "present-space")
    /\ scope' = [scope EXCEPT ![s] =
          [perms |-> job[s].perms, gen |-> job[s].gen, path |-> "space"]]
    /\ UNCHANGED <<registry, space, log, sockets>>

StartPresentPersonal(s, ps) ==
    /\ Registered(s) /\ ~IsRegisteredSpace
    /\ Suspend(s, [kind |-> "present-personal", perms |-> ps, did |-> sdid[s]])

\* claimPersonalDocOwner, then the scope; another owner is refused.
FinishPresentPersonal(s) ==
    /\ Resume(s, "present-personal")
    /\ LET j == job[s] IN
       IF powner \in {None, j.did}
       THEN /\ powner' = j.did
            /\ scope' = [scope EXCEPT ![s] = [perms |-> j.perms, gen |-> 0, path |-> "personal"]]
       ELSE UNCHANGED <<powner, scope>>
    /\ UNCHANGED <<registry, gen, vkey, admins, log, sockets>>

-----------------------------------------------------------------------------
(* log-entry ingest.                                                        *)

\* The gates of handleLogEntry, in their order, up to the await of hashPayload.
StartLogEntry(s, d, dev, n, c, g) ==
    /\ Registered(s) /\ IsActive(sdid[s], sdev[s])
    /\ IsRegisteredSpace \/ powner \in {None, sdid[s]}
    /\ Granted(s, "write")
    /\ owner[dev] = d                     \* author binding; None: not registered
    /\ IsRegisteredSpace => g >= gen      \* fast-path generation gate
    /\ Suspend(s, [kind |-> "log-entry",
                   entry |-> [author |-> d, dev |-> dev, seq |-> n, content |-> c,
                              gen |-> g, via |-> sdev[s]]])

\* appendEntry, one transaction: collision or repeat, generation gate, insert.
\* Mutants: the collision check, the generation gate is not repeated inside
\* the transaction.
FinishLogEntryBlind(s) ==
    /\ Resume(s, "log-entry")
    /\ log' = log \cup {job[s].entry}
    /\ UNCHANGED <<registry, space, sockets, scope>>
FinishLogEntryFastPathOnly(s) ==
    /\ Resume(s, "log-entry")
    /\ LET e == job[s].entry IN
       IF \E f \in log : f.dev = e.dev /\ f.seq = e.seq
       THEN UNCHANGED log
       ELSE log' = log \cup {e}
    /\ UNCHANGED <<registry, space, sockets, scope>>

FinishLogEntry(s) ==
    /\ Resume(s, "log-entry")
    /\ LET e == job[s].entry IN
       IF \/ \E f \in log : f.dev = e.dev /\ f.seq = e.seq
          \/ IsRegisteredSpace /\ e.gen < gen
       THEN UNCHANGED log
       ELSE log' = log \cup {e}
    /\ UNCHANGED <<registry, space, sockets, scope>>

-----------------------------------------------------------------------------
StartFrame(s) ==
    \/ \E d \in Did, dev \in Device : StartRegister(s, d, dev)
    \/ \E d \in Did, dev \in Device : StartRevoke(s, d, dev)
    \/ \E d \in Did, k \in Key, as \in SUBSET Did : StartSpaceRegister(s, d, k, as)
    \/ \E d \in Did, k \in Key, g \in Gen : StartSpaceRotate(s, d, k, g)
    \/ \E d, t \in Did, kind \in {"admin-add", "admin-remove"} : StartAdminChange(s, d, kind, t)
    \/ \E ps \in Grants : StartPresentSpace(s, ps)
    \/ \E ps \in Grants : StartPresentPersonal(s, ps)
    \/ \E d \in Did, dev \in Device, n \in 0 .. MaxSeq, c \in Content, g \in Gen :
          StartLogEntry(s, d, dev, n, c, g)

FinishFrame(s) ==
    \/ FinishRegister(s) \/ FinishRevoke(s) \/ FinishSpaceRegister(s) \/ FinishSpaceRotate(s)
    \/ FinishAdminAdd(s) \/ FinishAdminRemove(s)
    \/ FinishPresentSpace(s) \/ FinishPresentPersonal(s) \/ FinishLogEntry(s)

Next ==
    \E s \in Socket :
        \/ StartFrame(s) \/ FinishFrame(s)
        \/ CloseSocket(s) \/ ExpireScope(s)

Spec == Init /\ [][Next]_vars

-----------------------------------------------------------------------------
(* Type correctness of the registries, the caches and suspended handlers.   *)
TypeOK ==
    /\ owner \in [Device -> Did \cup {None}]
    /\ revoked \subseteq Device
    /\ gen \in Gen \cup {-1}
    /\ vkey \in Key \cup {None}
    /\ admins \subseteq Did
    /\ powner \in Did \cup {None}
    /\ log \subseteq Entry
    /\ sdid \in [Socket -> Did \cup {None}]
    /\ sdev \in [Socket -> Device \cup {None}]
    /\ closed \subseteq Socket
    /\ scope \in [Socket -> Scope \cup {None}]
    /\ job \in [Socket -> Job \cup {None}]

(* appendEntry: two handlers that race for one (deviceId, seq) never both    *)
(* store their entry; the log binds a coordinate to one content.             *)
OneEntryPerCoordinate ==
    \A e, f \in log : e.dev = f.dev /\ e.seq = f.seq => e = f

(* Log entry author binding: the DID that signed a stored entry owns its     *)
(* deviceId for ever, whatever registrations and revocations ran while the   *)
(* ingest handler waited or came later; so the (deviceId, seq) namespace of  *)
(* a device is never shared by two identities.                               *)
AuthorOwnsDevice ==
    \A e \in log : owner[e.dev] = e.author /\ owner[e.via] # None

(* Broker ingest generation gate (relay.ts, handleLogEntry): no entry of a   *)
(* rotated-out generation is stored, even if the rotation happens between    *)
(* the first check and the insert.                                           *)
NoStaleIngest == [][\A e \in log' \ log : gen >= 0 => e.gen >= gen]_vars

(* handleSpaceRotate: the generation only moves to its successor and the     *)
(* key installed for a generation is never replaced, whatever rotations      *)
(* were verified concurrently.                                               *)
RotationIsMaterialBound ==
    [][gen >= 0 => \/ gen' = gen /\ vkey' = vkey
                   \/ gen' = gen + 1]_vars

(* registerDevice / revokeDevice: revocation wins every race: a revoked      *)
(* device stays revoked, keeps its DID and is never bound to a socket again. *)
RevocationIsFinal ==
    [][\A d \in Device :
         /\ d \in revoked => d \in revoked'
         /\ owner[d] # None => owner'[d] = owner[d]
         /\ \A s \in Socket : d \in revoked /\ sdev[s] # d => sdev'[s] # d]_vars

(* registerSpace: a document somebody owns personally becomes a space only   *)
(* by a space-register the owner signed, whatever ran while its signature    *)
(* was checked, and the owner never changes otherwise.                       *)
OwnerDecidesPromotion ==
    [][powner # None /\ (powner' # powner \/ (gen < 0 /\ gen' >= 0)) =>
         /\ gen < 0 /\ gen' = 0
         /\ \E s \in Socket : /\ job[s] # None /\ job'[s] = None
                             /\ job[s].kind = "space-register" /\ job[s].signer = powner]_vars

=============================================================================
