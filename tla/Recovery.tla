----------------------------- MODULE Recovery -----------------------------
(***************************************************************************)
(* Social and re-authentication recovery of x/identity: guardian sets and  *)
(* their epochs, recovery requests with a veto window and an expiry, the   *)
(* escrowed deposits, and what suspension, reinstatement and revocation do *)
(* to requests in flight.  Every action is a transaction of one message    *)
(* that succeeds; one that returns an error is rolled back whole, the      *)
(* reaping it may have started included, and is no step.  Several actions  *)
(* may share one block time.                                               *)
(***************************************************************************)
EXTENDS Eligibility

CONSTANTS
    FreshKeys,    \* public keys that derive no DID of Dids
    Salts,        \* commitment salts
    Nonces,       \* recovery nonces
    GuardianSets, \* the guardian sets SetGuardians may submit
    ParamSets,    \* the parameter values governance may set
    Subjects,     \* bound: the DIDs recovered, rekeyed and suspended
    MaxEpoch      \* bound on guardian-set replacements

ASSUME RecoveryBounds == MaxEpoch \in Nat /\ Subjects \subseteq Dids
ASSUME NoncesFinite == IsFiniteSet(Nonces)
ASSUME ParamsNat ==
    ParamSets \subseteq [delay : Nat, ttl : Nat, maxOpen : Nat, maxGuardians : Nat, deposit : Nat]
ASSUME GuardianSetsType ==
    \A gs \in GuardianSets : gs.commits \subseteq Dids \X Salts /\ gs.threshold \in Nat

\* DeriveDID is injective: a DID stands for the key it is derived from.
Keys == Dids \cup FreshKeys
NoKey == "nokey"
NoGuardians == [commits |-> {}, threshold |-> 0]
NoRequest == [method |-> "NONE"]
Rids == Dids \X Nonces

VARIABLES
    pubKey,      \* DIDDocument.PubKey
    guardians,   \* stored guardian set per DID, or NoGuardians
    epoch,       \* guardian-set epoch per DID
    request,     \* open request per <<did, nonce>>, or NoRequest
    usedNonces,  \* recovery nonces already consumed, per DID
    escrow,      \* balance of the identity module account
    params,      \* recovery parameters
    vetoLeft     \* history: active seconds the owner is still owed to object

recVars == <<pubKey, guardians, epoch, request, usedNonces, escrow, params, vetoLeft>>
vars == <<eligVars, recVars>>

Requests ==
    [method : {"SOCIAL", "REAUTH"}, key : Keys, newController : Accounts,
     approvals : SUBSET Dids, rejections : SUBSET Dids, tally : 0..MaxEpoch,
     initiatedAt : Nat, executeAfter : Nat, expiresAt : Nat, frozenAt : Nat,
     deposit : Nat]

\* types.Params.Validate, the recovery part.
ValidParams(p) ==
    /\ p.delay > 0
    /\ p.ttl > p.delay
    /\ p.maxOpen > 0
    /\ p.maxGuardians > 0
    /\ p.deposit >= 0

IsOpen(r) == request[r] # NoRequest
RequestsForDID(d) == {r \in Rids : r[1] = d /\ IsOpen(r)}

\* reapIfExpired's test: a request held by a suspension does not expire.
Held(r) == request[r].frozenAt # 0 /\ status[r[1]] = "SUSPENDED"
Expired(r) == ~Held(r) /\ now > request[r].expiresAt

\* The deposits of a set of requests, as one bank transfer moves them.
DepositsOf(rs) == SumFunctionOnSet([r \in rs |-> request[r].deposit], rs)

\* deleteRecoveryRequest: the request, its index entry and its tally epoch.
Without(rs) == [r \in Rids |-> IF r \in rs THEN NoRequest ELSE request[r]]
VetoWithout(rs) == [r \in Rids |-> IF r \in rs THEN 0 ELSE vetoLeft[r]]

\* Forfeit (to the fee collector) or refund the deposits of rs and delete rs.
Settle(rs) ==
    /\ escrow' = escrow - DepositsOf(rs)
    /\ request' = Without(rs)
    /\ vetoLeft' = VetoWithout(rs)

\* bumpGuardianEpoch; the uint64 ceiling is out of reach of the bound.
BumpEpoch(d) ==
    /\ epoch[d] < MaxEpoch
    /\ epoch' = [epoch EXCEPT ![d] = @ + 1]

\* countOpenRequests: the slots taken once the expired requests are reaped.
CountOpenRequests(d) == Cardinality({r \in RequestsForDID(d) : ~Expired(r)})

-----------------------------------------------------------------------------
(* Guardians *)

\* SetGuardians: full replacement by the controller of an ACTIVE DID; the
\* epoch bump retires the consent given under the previous set.
SetGuardians(d, gs) ==
    /\ status[d] = "ACTIVE"
    /\ CanTransact(controller[d])
    /\ gs.commits # {}
    /\ gs.threshold \in 1..Cardinality(gs.commits)
    /\ Cardinality(gs.commits) <= params.maxGuardians
    /\ guardians' = [guardians EXCEPT ![d] = gs]
    /\ BumpEpoch(d)
    /\ UNCHANGED <<eligVars, pubKey, request, usedNonces, escrow, params, vetoLeft>>

\* openGuardianCommitment: guardian g opens a commitment of d's current set
\* with salt s, signing as the controller of the ACTIVE DID g.
OpensCommitment(d, g, s) ==
    /\ guardians[d] # NoGuardians
    /\ <<g, s>> \in guardians[d].commits
    /\ g # d
    /\ status[g] = "ACTIVE"
    /\ CanTransact(controller[g])

\* syncTallyEpoch: drop both tallies when the guardian set was replaced.
Synced(r) ==
    IF request[r].tally = epoch[r[1]] THEN request[r]
    ELSE [request[r] EXCEPT !.approvals = {}, !.rejections = {},
                            !.tally = epoch[r[1]]]

\* The request with one more approval, or with the rejections rs.
Approved(r, g) == [Synced(r) EXCEPT !.approvals = @ \cup {g}]
Rejected(r, rs) == [Synced(r) EXCEPT !.rejections = rs]

\* Faulty EffectiveApprovals: consent given under a replaced set counts.
ApprovalsOfAnyEpoch(r) == request[r].approvals

\* EffectiveApprovals: consent given under the set now in force.
EffectiveApprovals(r) ==
    IF request[r].tally = epoch[r[1]] THEN request[r].approvals ELSE {}

-----------------------------------------------------------------------------
(* The life of a request *)

\* InitiateRecovery: opened by the account the DID would move to.  Expired
\* requests of the DID are reaped before the slot cap is applied.
InitiateRecovery(d, n, c, k, m) ==
    LET reaped == {r \in RequestsForDID(d) : Expired(r)}
        dep    == IF m = "REAUTH" THEN 0 ELSE params.deposit
        r      == <<d, n>>
    IN  /\ CanTransact(c)
        /\ status[d] = "ACTIVE"
        /\ m = "SOCIAL" => guardians[d] # NoGuardians
        /\ k # pubKey[d]
        /\ k \in Dids => ~Registered(k)
        /\ <<d, n>> \notin usedNonces
        /\ CountOpenRequests(d) < params.maxOpen
        /\ request' = [Without(reaped) EXCEPT ![r] =
              [method |-> m, key |-> k, newController |-> c,
               approvals |-> {}, rejections |-> {}, tally |-> 0,
               initiatedAt |-> now, executeAfter |-> now + params.delay,
               expiresAt |-> now + params.ttl, frozenAt |-> 0, deposit |-> dep]]
        /\ escrow' = (escrow - DepositsOf(reaped)) + dep
        /\ vetoLeft' = [VetoWithout(reaped) EXCEPT ![r] = params.delay]
        /\ usedNonces' = usedNonces \cup {r}
        /\ UNCHANGED <<eligVars, pubKey, guardians, epoch, params>>

\* ApproveRecovery: one approval per revealed guardian DID.
ApproveRecovery(r, g, s) ==
    /\ IsOpen(r) /\ ~Expired(r)
    /\ request[r].method = "SOCIAL"
    /\ OpensCommitment(r[1], g, s)
    /\ g \notin Synced(r).approvals
    /\ request' = [request EXCEPT ![r] = Approved(r, g)]
    /\ UNCHANGED <<eligVars, pubKey, guardians, epoch, usedNonces, escrow, params, vetoLeft>>

\* RejectRecovery: at the threshold the request is closed, its deposit lost.
RejectRecovery(r, g, s) ==
    LET against == Synced(r).rejections \cup {g}
    IN  /\ IsOpen(r) /\ ~Expired(r)
        /\ request[r].method = "SOCIAL"
        /\ OpensCommitment(r[1], g, s)
        /\ g \notin Synced(r).rejections
        /\ IF Cardinality(against) >= guardians[r[1]].threshold
           THEN Settle({r})
           ELSE /\ request' = [request EXCEPT ![r] = Rejected(r, against)]
                /\ UNCHANGED <<escrow, vetoLeft>>
        /\ UNCHANGED <<eligVars, pubKey, guardians, epoch, usedNonces, params>>

\* The authorisation gate of ExecuteRecovery.
Authorised(r) ==
    \/ request[r].method = "REAUTH"
    \/ /\ guardians[r[1]] # NoGuardians
       /\ Cardinality(EffectiveApprovals(r)) >= guardians[r[1]].threshold

\* Faulty Executable: the veto window is not awaited.
ExecutableAtOnce(r) ==
    /\ IsOpen(r) /\ ~Expired(r)
    /\ Authorised(r)
    /\ status[r[1]] = "ACTIVE"
    /\ request[r].key \in Dids => ~Registered(request[r].key)

\* A request ExecuteRecovery would carry out now.
Executable(r) ==
    /\ IsOpen(r) /\ ~Expired(r)
    /\ now >= request[r].executeAfter
    /\ Authorised(r)
    /\ status[r[1]] = "ACTIVE"
    /\ request[r].key \in Dids => ~Registered(request[r].key)

\* Faulty ExecuteRecovery: siblings are deleted, their deposits stay behind.
ExecuteStrandsDeposits(r) ==
    /\ Executable(r)
    /\ MoveDoc(r[1], request[r].newController)
    /\ pubKey' = [pubKey EXCEPT ![r[1]] = request[r].key]
    /\ escrow' = escrow - request[r].deposit
    /\ request' = Without(RequestsForDID(r[1]))
    /\ vetoLeft' = VetoWithout(RequestsForDID(r[1]))
    /\ UNCHANGED <<guardians, epoch, usedNonces, params>>

\* ExecuteRecovery (any signer): install the key and the controller, refund
\* this deposit, forfeit and delete every sibling request.
ExecuteRecovery(r) ==
    LET d == r[1]
        q == request[r]
    IN  /\ Executable(r)
        /\ MoveDoc(d, q.newController)
        /\ pubKey' = [pubKey EXCEPT ![d] = q.key]
        /\ Settle(RequestsForDID(d))
        /\ UNCHANGED <<guardians, epoch, usedNonces, params>>

\* CancelRecovery: the current controller's veto.
CancelRecovery(r) ==
    /\ IsOpen(r) /\ ~Expired(r)
    /\ CanTransact(controller[r[1]])
    /\ Settle({r})
    /\ UNCHANGED <<eligVars, pubKey, guardians, epoch, usedNonces, params>>

-----------------------------------------------------------------------------
(* Identity messages that reach into recovery *)

\* RevokeIdentity by the controller (by governance: byGov).
RevokeIdentity(d, byGov) ==
    /\ byGov \/ CanTransact(controller[d])
    /\ RevokeDoc(d)
    /\ Settle(RequestsForDID(d))
    /\ guardians' = [guardians EXCEPT ![d] = NoGuardians]
    /\ BumpEpoch(d)
    /\ UNCHANGED <<pubKey, usedNonces, params>>

\* Faulty Frozen: a request that had already expired is held as well.
FrozenAlways(r) ==
    IF request[r].frozenAt # 0 THEN request[r] ELSE [request[r] EXCEPT !.frozenAt = now]

\* freezeLiveRecoveries: pause the window of each request still live.
Frozen(r) ==
    IF request[r].frozenAt # 0 \/ now > request[r].expiresAt THEN request[r]
    ELSE [request[r] EXCEPT !.frozenAt = now]

\* Faulty Thawed: the time spent suspended eats into the veto window.
ThawedSameWindow(r) ==
    IF request[r].frozenAt = 0 THEN request[r]
    ELSE [request[r] EXCEPT !.frozenAt = 0, !.expiresAt = now + params.ttl]

\* Faulty Thawed: the freeze stamp is not cleared.
ThawedKeepsStamp(r) ==
    LET q == request[r]
    IN  IF q.frozenAt = 0 THEN q
        ELSE [q EXCEPT !.executeAfter = IF q.frozenAt < @
                                        THEN now + (@ - q.frozenAt) ELSE @,
                       !.expiresAt = now + params.ttl]

\* thawRecoveries: give back the veto time left at the freeze, and a whole
\* TTL under the parameters now in force.
Thawed(r) ==
    LET q == request[r]
    IN  IF q.frozenAt = 0 THEN q
        ELSE [q EXCEPT !.executeAfter = IF q.frozenAt < @
                                        THEN now + (@ - q.frozenAt) ELSE @,
                       !.frozenAt = 0,
                       !.expiresAt = now + params.ttl]

\* UpdateStatus (governance): suspend freezes, reinstate thaws.
UpdateStatus(d, st) ==
    /\ ChangeStatusDoc(d, st)
    /\ request' = [r \in Rids |->
                     IF r \notin RequestsForDID(d) THEN request[r]
                     ELSE IF st = "SUSPENDED" THEN Frozen(r) ELSE Thawed(r)]
    /\ UNCHANGED <<pubKey, guardians, epoch, usedNonces, escrow, params, vetoLeft>>

\* Faulty RotateIdentityKey: the new key restarts the identity's age.
RotateRestartsAge(d, k) ==
    /\ status[d] = "ACTIVE"
    /\ CanTransact(controller[d])
    /\ k \in Dids \ {d} => ~Registered(k)
    /\ SetIdentity(d, "ACTIVE", controller[d], now)
    /\ pubKey' = [pubKey EXCEPT ![d] = k]
    /\ UNCHANGED <<now, guardians, epoch, request, usedNonces, escrow, params, vetoLeft>>

\* RotateIdentityKey: the controller installs a key that certifies no other DID.
RotateIdentityKey(d, k) ==
    /\ status[d] = "ACTIVE"
    /\ CanTransact(controller[d])
    /\ k \in Dids \ {d} => ~Registered(k)
    /\ SetIdentity(d, "ACTIVE", controller[d], createdAt[d])
    /\ pubKey' = [pubKey EXCEPT ![d] = k]
    /\ UNCHANGED <<now, guardians, epoch, request, usedNonces, escrow, params, vetoLeft>>

\* RegisterIdentity, as far as this module's state goes.
RegisterIdentity(d, c) ==
    /\ CanTransact(c)
    /\ RegisterDoc(d, c)
    /\ pubKey' = [pubKey EXCEPT ![d] = d]
    /\ UNCHANGED <<guardians, epoch, request, usedNonces, escrow, params, vetoLeft>>

\* UpdateParams (governance): any valid parameters.
UpdateParams(p) ==
    /\ ValidParams(p)
    /\ params' = p
    /\ UNCHANGED <<eligVars, pubKey, guardians, epoch, request, usedNonces, escrow, vetoLeft>>

\* A later block; the veto clock runs only while the DID is ACTIVE.
NextBlock ==
    /\ Tick
    /\ vetoLeft' = [r \in Rids |->
          IF ~IsOpen(r) \/ status[r[1]] # "ACTIVE" THEN vetoLeft[r]
          ELSE IF vetoLeft[r] <= now' - now THEN 0
          ELSE vetoLeft[r] - (now' - now)]
    /\ UNCHANGED <<pubKey, guardians, epoch, request, usedNonces, escrow, params>>

-----------------------------------------------------------------------------
Init ==
    /\ EligInit
    /\ pubKey = [d \in Dids |-> IF Genesis[d] = NoAccount THEN NoKey ELSE d]
    /\ guardians = [d \in Dids |-> NoGuardians]
    /\ epoch = [d \in Dids |-> 0]
    /\ request = [r \in Rids |-> NoRequest]
    /\ usedNonces = {}
    /\ escrow = 0
    /\ params \in {p \in ParamSets : ValidParams(p)}
    /\ vetoLeft = [r \in Rids |-> 0]

Next ==
    \/ \E d \in Dids, c \in Accounts : RegisterIdentity(d, c)
    \/ \E d \in Subjects, k \in Keys : RotateIdentityKey(d, k)
    \/ \E d \in Subjects, gs \in GuardianSets : SetGuardians(d, gs)
    \/ \E d \in Subjects, n \in Nonces, c \in Accounts, k \in Keys, m \in {"SOCIAL", "REAUTH"} :
          InitiateRecovery(d, n, c, k, m)
    \/ \E r \in Rids, g \in Dids, s \in Salts : ApproveRecovery(r, g, s)
    \/ \E r \in Rids, g \in Dids, s \in Salts : RejectRecovery(r, g, s)
    \/ \E r \in Rids : ExecuteRecovery(r)
    \/ \E r \in Rids : CancelRecovery(r)
    \/ \E d \in Dids, byGov \in BOOLEAN : RevokeIdentity(d, byGov)
    \/ \E d \in Subjects, st \in {"ACTIVE", "SUSPENDED"} : UpdateStatus(d, st)
    \/ \E p \in ParamSets : UpdateParams(p)
    \/ NextBlock

Spec == Init /\ [][Next]_vars

-----------------------------------------------------------------------------
(* Properties *)

\* The module account holds exactly the deposits of the requests on record:
\* every ending of a request (executed, rejected, cancelled, expired and
\* reaped, superseded, terminated) moves its deposit out exactly once.
EscrowMatchesDeposits ==
    escrow = DepositsOf({r \in Rids : IsOpen(r)})

\* A request is frozen exactly while its DID is suspended, unless it had
\* expired before the suspension; a revoked DID has neither requests nor
\* guardians, which genesis import relies on.
FreezeMatchesSuspension ==
    /\ \A r \in Rids : IsOpen(r) =>
          /\ status[r[1]] \in {"ACTIVE", "SUSPENDED"}
          /\ request[r].frozenAt # 0 => status[r[1]] = "SUSPENDED"
          /\ (status[r[1]] = "SUSPENDED" /\ request[r].frozenAt = 0) => Expired(r)
    /\ \A d \in Dids : status[d] \in {"NONE", "REVOKED"} => guardians[d] = NoGuardians

\* A recovery becomes executable only after its owner has had the whole
\* delay to object, counted while the DID was ACTIVE: freezing, thawing and
\* parameter changes never shorten the veto window, and a thaw never
\* lengthens it either.
VetoWindowKept ==
    \A r \in Rids :
        (IsOpen(r) /\ status[r[1]] = "ACTIVE" /\ ~Expired(r))
            => (now >= request[r].executeAfter <=> vetoLeft[r] = 0)

\* The consent ExecuteRecovery counts was given by guardians enrolled in the
\* set now in force, never by the protected DID itself.
ConsentIsCurrent ==
    \A r \in Rids : IsOpen(r) =>
        \A g \in EffectiveApprovals(r) :
            /\ g # r[1]
            /\ \E s \in Salts : <<g, s>> \in guardians[r[1]].commits

\* A DID changes hands only by executing a request that was authorised (by
\* re-authentication, or by threshold many guardians of the set in force)
\* and past its veto window, and no request on it survives the change.
ControlMovesByRecoveryOnly ==
    [][\A d \in Dids :
         (Registered(d) /\ controller'[d] # controller[d]) =>
            /\ \E r \in RequestsForDID(d) :
                 /\ request[r].newController = controller'[d]
                 /\ Authorised(r) /\ vetoLeft[r] = 0
            /\ \A n \in Nonces : request'[<<d, n>>] = NoRequest]_vars

\* Once expired, a request can only be deleted: no suspension, reinstatement
\* or parameter change brings it back.
ExpiredStaysExpired ==
    [][\A r \in Rids :
         (IsOpen(r) /\ Expired(r)) => (IsOpen(r)' => Expired(r)')]_vars

\* Recovery implements the registry specification governance relies on.
ImplementsEligibility == EligSpec
=============================================================================
