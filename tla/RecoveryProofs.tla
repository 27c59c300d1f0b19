-------------------------- MODULE RecoveryProofs --------------------------
(***************************************************************************)
(* Proofs about module Recovery: the handlers implement the registry       *)
(* specification, and freezing, thawing, guardian rotation and parameter   *)
(* changes, in any order and for any parameters, neither shorten a veto    *)
(* window nor revive expired requests or retired consent.                  *)
(***************************************************************************)
EXTENDS Recovery, EligibilityProofs

\* Zenon by default, SMT where a step names it; the seconds each may take.
USE ZenonT(30)

\* Types of the recovery state the argument needs.
RecTyped ==
    /\ guardians \in [Dids -> GuardianSets \cup {NoGuardians}]
    /\ epoch \in [Dids -> 0..MaxEpoch]
    /\ request \in [Rids -> Requests \cup {NoRequest}]
    /\ params \in ParamSets
    /\ vetoLeft \in [Rids -> Nat]

\* Only a standing DID has guardians.
GuardiansStanding ==
    \A d \in Dids : status[d] \in {"NONE", "REVOKED"} => guardians[d] = NoGuardians

\* What is true of every stored request r of a DID d.
RequestInv(r, d) ==
    LET q == request[r]
    IN  IsOpen(r) =>
          /\ status[d] \in {"ACTIVE", "SUSPENDED"}
          \* consent: recorded under the set in force or an earlier one
          /\ q.tally <= epoch[d]
          /\ q.tally = epoch[d] =>
                \A g \in q.approvals :
                    g # d /\ \E s \in Salts : <<g, s>> \in guardians[d].commits
          \* the freeze stamp follows the suspension
          /\ q.frozenAt # 0 => status[d] = "SUSPENDED" /\ q.frozenAt <= now
          /\ (status[d] = "SUSPENDED" /\ q.frozenAt = 0) => now > q.expiresAt
          \* the veto time left is the distance to executeAfter, measured from
          \* now, or from the freeze while frozen
          /\ (status[d] = "ACTIVE" /\ now <= q.expiresAt) =>
                vetoLeft[r] = IF q.executeAfter > now THEN q.executeAfter - now ELSE 0
          /\ q.frozenAt # 0 =>
                vetoLeft[r] = IF q.executeAfter > q.frozenAt
                              THEN q.executeAfter - q.frozenAt ELSE 0

\* The inductive invariant.
RecoveryInv ==
    /\ RegistryInv
    /\ RecTyped
    /\ GuardiansStanding
    /\ \A r \in Rids : RequestInv(r, r[1])

-----------------------------------------------------------------------------
(* Refinement *)

\* What a successful SetIdentity does to the stored documents.
LEMMA SetIdentityStatus ==
    ASSUME NEW d, NEW st, NEW c, NEW cr, SetIdentity(d, st, c, cr)
    PROVE  /\ status' = [status EXCEPT ![d] = st]
           /\ controller' = [controller EXCEPT ![d] = c]
BY DEF SetIdentity

\* Every handler is a registry step or leaves the registry alone.
LEMMA StepRefines ==
    ASSUME RecoveryInv, [Next]_vars
    PROVE  [EligNext]_eligVars
<1>1. ASSUME NEW d \in Dids, NEW c \in Accounts, RegisterIdentity(d, c)
      PROVE  EligNext
    BY <1>1 DEF RegisterIdentity, EligNext
<1>2. ASSUME NEW d \in Subjects, NEW k \in Keys, RotateIdentityKey(d, k)
      PROVE  EligNext
    <2>1. d \in Dids /\ MoveDoc(d, controller[d])
        BY <1>2, RecoveryBounds DEF RotateIdentityKey, MoveDoc
    <2>2. controller[d] \in Accounts
        BY <2>1 DEF RecoveryInv, RegistryInv, DocsWellFormed, MoveDoc, Registered
    <2> QED
        BY <2>1, <2>2 DEF EligNext
<1>3. ASSUME NEW r \in Rids, ExecuteRecovery(r)
      PROVE  EligNext
    <2>1. r[1] \in Dids /\ MoveDoc(r[1], request[r].newController)
        BY <1>3 DEF ExecuteRecovery, Rids
    <2>2. request[r].newController \in Accounts
        BY <1>3 DEF ExecuteRecovery, Executable, IsOpen, RecoveryInv, RecTyped, Requests
    <2> QED
        BY <2>1, <2>2 DEF EligNext
<1>4. ASSUME NEW d \in Dids, NEW byGov \in BOOLEAN, RevokeIdentity(d, byGov)
      PROVE  EligNext
    BY <1>4 DEF RevokeIdentity, EligNext
<1>5. ASSUME NEW d \in Subjects, NEW st \in {"ACTIVE", "SUSPENDED"}, UpdateStatus(d, st)
      PROVE  EligNext
    BY <1>5, RecoveryBounds DEF UpdateStatus, EligNext
<1>6. CASE NextBlock
    BY <1>6 DEF NextBlock, EligNext
<1>7. ASSUME \/ \E d \in Subjects, gs \in GuardianSets : SetGuardians(d, gs)
             \/ \E d \in Subjects, n \in Nonces, c \in Accounts, k \in Keys,
                   m \in {"SOCIAL", "REAUTH"} : InitiateRecovery(d, n, c, k, m)
             \/ \E r \in Rids, g \in Dids, s \in Salts : ApproveRecovery(r, g, s)
             \/ \E r \in Rids, g \in Dids, s \in Salts : RejectRecovery(r, g, s)
             \/ \E r \in Rids : CancelRecovery(r)
             \/ \E p \in ParamSets : UpdateParams(p)
             \/ UNCHANGED vars
      PROVE  UNCHANGED eligVars
    <2>1. ASSUME NEW d, NEW gs, SetGuardians(d, gs) PROVE UNCHANGED eligVars
        BY <2>1 DEF SetGuardians
    <2>2. ASSUME NEW d, NEW n, NEW c, NEW k, NEW m, InitiateRecovery(d, n, c, k, m)
          PROVE  UNCHANGED eligVars
        BY <2>2 DEF InitiateRecovery
    <2>3. ASSUME NEW r, NEW g, NEW s, ApproveRecovery(r, g, s) PROVE UNCHANGED eligVars
        BY <2>3 DEF ApproveRecovery
    <2>4. ASSUME NEW r, NEW g, NEW s, RejectRecovery(r, g, s) PROVE UNCHANGED eligVars
        BY <2>4 DEF RejectRecovery
    <2>5. ASSUME NEW r, CancelRecovery(r) PROVE UNCHANGED eligVars
        BY <2>5 DEF CancelRecovery
    <2>6. ASSUME NEW p, UpdateParams(p) PROVE UNCHANGED eligVars
        BY <2>6 DEF UpdateParams
    <2> QED
        BY <1>7, <2>1, <2>2, <2>3, <2>4, <2>5, <2>6 DEF vars
<1> QED
    BY <1>1, <1>2, <1>3, <1>4, <1>5, <1>6, <1>7 DEF Next

-----------------------------------------------------------------------------
(* What the handlers do to a request *)

\* syncTallyEpoch and the append of ApproveRecovery.
LEMMA ApprovedFields ==
    ASSUME NEW r \in Rids, NEW g \in Dids, request[r] \in Requests,
           epoch[r[1]] \in 0..MaxEpoch
    PROVE  LET q == request[r]
               a == Approved(r, g)
           IN  /\ a \in Requests
               /\ a.tally = epoch[r[1]]
               /\ a.approvals = EffectiveApprovals(r) \cup {g}
               /\ a.executeAfter = q.executeAfter
               /\ a.expiresAt = q.expiresAt
               /\ a.frozenAt = q.frozenAt
               /\ a.deposit = q.deposit
<1> DEFINE y == Synced(r)
<1>1. /\ y \in Requests
      /\ y.tally = epoch[r[1]]
      /\ y.approvals = EffectiveApprovals(r)
      /\ y.executeAfter = request[r].executeAfter
      /\ y.expiresAt = request[r].expiresAt
      /\ y.frozenAt = request[r].frozenAt
      /\ y.deposit = request[r].deposit
    BY DEF Requests, Synced, EffectiveApprovals
<1> HIDE DEF y
<1> DEFINE a == [y EXCEPT !.approvals = @ \cup {g}]
<1>2. a.approvals = y.approvals \cup {g} /\ a.approvals \in SUBSET Dids
    BY <1>1 DEF Requests
<1>3. /\ a \in Requests
      /\ a.tally = y.tally
      /\ a.executeAfter = y.executeAfter
      /\ a.expiresAt = y.expiresAt
      /\ a.frozenAt = y.frozenAt
      /\ a.deposit = y.deposit
    BY <1>1, <1>2 DEF Requests
<1> QED
    BY <1>1, <1>2, <1>3 DEF Approved, y

\* syncTallyEpoch and the append of RejectRecovery.
LEMMA RejectedFields ==
    ASSUME NEW r \in Rids, NEW rs \in SUBSET Dids, request[r] \in Requests,
           epoch[r[1]] \in 0..MaxEpoch
    PROVE  LET q == request[r]
               a == Rejected(r, rs)
           IN  /\ a \in Requests
               /\ a.tally = epoch[r[1]]
               /\ a.approvals = EffectiveApprovals(r)
               /\ a.executeAfter = q.executeAfter
               /\ a.expiresAt = q.expiresAt
               /\ a.frozenAt = q.frozenAt
               /\ a.deposit = q.deposit
<1> DEFINE y == Synced(r)
<1>1. /\ y \in Requests
      /\ y.tally = epoch[r[1]]
      /\ y.approvals = EffectiveApprovals(r)
      /\ y.executeAfter = request[r].executeAfter
      /\ y.expiresAt = request[r].expiresAt
      /\ y.frozenAt = request[r].frozenAt
      /\ y.deposit = request[r].deposit
    BY DEF Requests, Synced, EffectiveApprovals
<1> HIDE DEF y
<1> DEFINE a == [y EXCEPT !.rejections = rs]
<1>2. /\ a \in Requests
      /\ a.tally = y.tally
      /\ a.approvals = y.approvals
      /\ a.executeAfter = y.executeAfter
      /\ a.expiresAt = y.expiresAt
      /\ a.frozenAt = y.frozenAt
      /\ a.deposit = y.deposit
    BY <1>1 DEF Requests
<1> QED
    BY <1>1, <1>2 DEF Rejected, y

\* freezeLiveRecoveries on one request.
LEMMA FrozenFields ==
    ASSUME NEW r \in Rids, request[r] \in Requests, now \in Nat
    PROVE  LET q == request[r]
               f == Frozen(r)
           IN  /\ f \in Requests
               /\ f.deposit = q.deposit
               /\ f.tally = q.tally
               /\ f.approvals = q.approvals
               /\ f.executeAfter = q.executeAfter
               /\ f.expiresAt = q.expiresAt
               /\ f.frozenAt = IF q.frozenAt # 0 \/ now > q.expiresAt
                               THEN q.frozenAt ELSE now
<1>1. CASE request[r].frozenAt # 0 \/ now > request[r].expiresAt
    BY <1>1 DEF Frozen
<1>2. CASE ~(request[r].frozenAt # 0 \/ now > request[r].expiresAt)
    <2>1. Frozen(r) = [request[r] EXCEPT !.frozenAt = now]
        BY <1>2 DEF Frozen
    <2> QED
        BY <1>2, <2>1 DEF Requests
<1> QED
    BY <1>1, <1>2

\* thawRecoveries on one request.
LEMMA ThawedFields ==
    ASSUME NEW r \in Rids, request[r] \in Requests, now \in Nat, params.ttl \in Nat
    PROVE  LET q == request[r]
               f == Thawed(r)
           IN  /\ f \in Requests
               /\ f.deposit = q.deposit
               /\ f.tally = q.tally
               /\ f.approvals = q.approvals
               /\ f.frozenAt = 0
               /\ q.frozenAt = 0 => f = q
               /\ q.frozenAt # 0 =>
                    /\ f.executeAfter = IF q.frozenAt < q.executeAfter
                                        THEN now + (q.executeAfter - q.frozenAt)
                                        ELSE q.executeAfter
                    /\ f.expiresAt = now + params.ttl
<1>1. CASE request[r].frozenAt = 0
    BY <1>1 DEF Thawed
<1>2. CASE request[r].frozenAt # 0
    <2> DEFINE q == request[r]
               x == IF q.frozenAt < q.executeAfter
                    THEN now + (q.executeAfter - q.frozenAt) ELSE q.executeAfter
               e == now + params.ttl
    <2>1. x \in Nat /\ e \in Nat /\ 0 \in Nat
        BY SMTT(30) DEF Requests
    <2>2. Thawed(r) = [q EXCEPT !.executeAfter = x, !.frozenAt = 0, !.expiresAt = e]
        BY <1>2 DEF Thawed
    <2> HIDE DEF x, e
    <2>3. LET f == [q EXCEPT !.executeAfter = x, !.frozenAt = 0, !.expiresAt = e]
          IN  /\ f \in Requests
              /\ f.deposit = q.deposit
              /\ f.tally = q.tally
              /\ f.approvals = q.approvals
              /\ f.frozenAt = 0
              /\ f.executeAfter = x
              /\ f.expiresAt = e
        BY <2>1 DEF Requests
    <2> QED
        BY <1>2, <2>2, <2>3 DEF x, e
<1> QED
    BY <1>1, <1>2

\* A step that leaves everything a request depends on alone keeps it.
LEMMA RequestKept ==
    ASSUME NEW r, NEW d, RequestInv(r, d),
           request'[r] = request[r], vetoLeft'[r] = vetoLeft[r],
           epoch'[d] = epoch[d], guardians'[d] = guardians[d],
           status'[d] = status[d], now' = now
    PROVE  RequestInv(r, d)'
BY DEF RequestInv, IsOpen

-----------------------------------------------------------------------------
(* Preservation of the inductive invariant *)

\* The part of the invariant a step of this module must re-establish itself.
RecStepInv == RecTyped /\ GuardiansStanding /\ \A r \in Rids : RequestInv(r, r[1])

\* Facts every case of the step proof starts from.
LEMMA InvFacts ==
    ASSUME RecoveryInv
    PROVE  /\ now \in Nat /\ now # 0
           /\ status \in [Dids -> Statuses]
           /\ RecTyped /\ GuardiansStanding
           /\ \A r \in Rids : RequestInv(r, r[1])
           /\ params.delay \in Nat /\ params.ttl \in Nat /\ params.deposit \in Nat
           /\ \A r \in Rids : r[1] \in Dids /\ r = <<r[1], r[2]>>
           /\ \A r \in Rids : IsOpen(r) => request[r] \in Requests
<1>1. params \in [delay : Nat, ttl : Nat, maxOpen : Nat, maxGuardians : Nat, deposit : Nat]
    BY ParamsNat DEF RecoveryInv, RecTyped
<1> QED
    BY <1>1, TimeBound, SMTT(30) DEF RecoveryInv, RegistryInv, EligTypeOK, RecTyped, Time, Rids, IsOpen

\* Settling a set of requests deletes them and leaves the others alone.
LEMMA SettleFields ==
    ASSUME RecTyped, NEW rs \in SUBSET Rids, Settle(rs)
    PROVE  /\ request' \in [Rids -> Requests \cup {NoRequest}]
           /\ vetoLeft' \in [Rids -> Nat]
           /\ \A r \in rs : request'[r] = NoRequest
           /\ \A r \in Rids \ rs : request'[r] = request[r] /\ vetoLeft'[r] = vetoLeft[r]
BY DEF RecTyped, Settle, Without, VetoWithout

\* SetGuardians: consent recorded under the replaced set stops counting.
LEMMA SetGuardiansInv ==
    ASSUME RecoveryInv, NEW d \in Subjects, NEW gs \in GuardianSets, SetGuardians(d, gs)
    PROVE  RecStepInv'
<1> USE InvFacts
<1>1. d \in Dids /\ epoch[d] < MaxEpoch
    BY RecoveryBounds DEF SetGuardians, BumpEpoch
<1>2. /\ guardians' = [guardians EXCEPT ![d] = gs]
      /\ epoch' = [epoch EXCEPT ![d] = @ + 1]
      /\ UNCHANGED <<status, now, request, params, vetoLeft>>
      /\ status[d] = "ACTIVE"
    BY DEF SetGuardians, BumpEpoch, eligVars
<1>3. RecTyped'
    BY <1>1, <1>2, RecoveryBounds, SMTT(30) DEF RecTyped
<1>4. GuardiansStanding'
    BY <1>2 DEF GuardiansStanding, RecTyped
<1>5. ASSUME NEW r \in Rids PROVE RequestInv(r, r[1])'
    <2>1. CASE r[1] # d
        BY <1>2, <2>1, RequestKept DEF RecTyped
    <2>2. CASE r[1] = d
        BY <1>1, <1>2, <2>2, RecoveryBounds, SMTT(30) DEF RequestInv, IsOpen, RecTyped, Requests
    <2> QED
        BY <2>1, <2>2
<1> QED
    BY <1>3, <1>4, <1>5 DEF RecStepInv

\* InitiateRecovery: the new request owes its owner the whole delay, and the
\* reaped ones are gone.
LEMMA InitiateRecoveryInv ==
    ASSUME RecoveryInv, NEW d \in Subjects, NEW n \in Nonces, NEW c \in Accounts,
           NEW k \in Keys, NEW m \in {"SOCIAL", "REAUTH"}, InitiateRecovery(d, n, c, k, m)
    PROVE  RecStepInv'
<1> USE InvFacts
<1> DEFINE reaped == {r \in RequestsForDID(d) : Expired(r)}
           o == <<d, n>>
           dep == IF m = "REAUTH" THEN 0 ELSE params.deposit
           new == [method |-> m, key |-> k, newController |-> c,
                   approvals |-> {}, rejections |-> {}, tally |-> 0,
                   initiatedAt |-> now, executeAfter |-> now + params.delay,
                   expiresAt |-> now + params.ttl, frozenAt |-> 0, deposit |-> dep]
<1>1. d \in Dids /\ o \in Rids
    BY RecoveryBounds DEF Rids
<1>2. /\ request' = [Without(reaped) EXCEPT ![o] = new]
      /\ vetoLeft' = [VetoWithout(reaped) EXCEPT ![o] = params.delay]
      /\ UNCHANGED <<status, now, guardians, epoch, params>>
      /\ status[d] = "ACTIVE"
    BY DEF InitiateRecovery, eligVars
<1>3. new \in Requests
    BY RecoveryBounds, SMTT(30) DEF Requests
<1>4. /\ new.tally = 0 /\ new.approvals = {} /\ new.frozenAt = 0
      /\ new.executeAfter = now + params.delay /\ new.expiresAt = now + params.ttl
    OBVIOUS
<1> HIDE DEF new, reaped
<1>5. RecTyped'
    BY <1>1, <1>2, <1>3 DEF RecTyped, Without, VetoWithout
<1>6. GuardiansStanding'
    BY <1>2 DEF GuardiansStanding
<1>7. ASSUME NEW r \in Rids PROVE RequestInv(r, r[1])'
    <2>1. CASE r = o
        <3>1. request'[r] = new /\ vetoLeft'[r] = params.delay
            BY <1>1, <1>2, <2>1 DEF Without, VetoWithout
        <3>2. epoch[d] \in Nat /\ r[1] = d
            BY <1>1, <2>1, RecoveryBounds, SMTT(30) DEF RecTyped
        <3> QED
            BY <1>2, <1>4, <3>1, <3>2, SMTT(30) DEF RequestInv
    <2>2. CASE r # o /\ r \in reaped
        BY <1>1, <1>2, <2>2 DEF Without, RequestInv, IsOpen
    <2>3. CASE r # o /\ r \notin reaped
        <3>1. request'[r] = request[r] /\ vetoLeft'[r] = vetoLeft[r]
            BY <1>1, <1>2, <2>3 DEF Without, VetoWithout
        <3> QED
            BY <1>2, <3>1, RequestKept
    <2> QED
        BY <2>1, <2>2, <2>3
<1> QED
    BY <1>5, <1>6, <1>7 DEF RecStepInv

\* ApproveRecovery: the approval added is that of a guardian now enrolled.
LEMMA ApproveRecoveryInv ==
    ASSUME RecoveryInv, NEW o \in Rids, NEW g \in Dids, NEW s \in Salts,
           ApproveRecovery(o, g, s)
    PROVE  RecStepInv'
<1> USE InvFacts
<1>1. /\ request' = [request EXCEPT ![o] = Approved(o, g)]
      /\ UNCHANGED <<status, now, guardians, epoch, params, vetoLeft>>
      /\ IsOpen(o) /\ g # o[1] /\ <<g, s>> \in guardians[o[1]].commits
    BY DEF ApproveRecovery, OpensCommitment, eligVars
<1>2. epoch[o[1]] \in 0..MaxEpoch
    BY DEF RecTyped
<1>3. LET q == request[o]
          a == Approved(o, g)
      IN  /\ a \in Requests
          /\ a.tally = epoch[o[1]]
          /\ a.approvals = EffectiveApprovals(o) \cup {g}
          /\ a.executeAfter = q.executeAfter
          /\ a.expiresAt = q.expiresAt
          /\ a.frozenAt = q.frozenAt
    BY <1>1, <1>2, ApprovedFields
<1>4. RecTyped'
    BY <1>1, <1>3 DEF RecTyped
<1>5. GuardiansStanding'
    BY <1>1 DEF GuardiansStanding
<1>6. ASSUME NEW r \in Rids PROVE RequestInv(r, r[1])'
    <2>1. CASE r # o
        <3>1. request'[r] = request[r]
            BY <1>1, <2>1, SMTT(30)
        <3> QED
            BY <1>1, <3>1, RequestKept
    <2>2. CASE r = o
        <3>1. request'[r] = Approved(o, g)
            BY <1>1, <2>2 DEF RecTyped
        <3>2. \A x \in EffectiveApprovals(o) :
                 x # o[1] /\ \E z \in Salts : <<x, z>> \in guardians[o[1]].commits
            BY <1>1 DEF EffectiveApprovals, RequestInv
        <3>3. \A x \in EffectiveApprovals(o) \cup {g} :
                 x # o[1] /\ \E z \in Salts : <<x, z>> \in guardians[o[1]].commits
            BY <1>1, <3>2
        <3> QED
            BY <1>1, <1>2, <1>3, <2>2, <3>1, <3>3, SMTT(30) DEF RequestInv
    <2> QED
        BY <2>1, <2>2
<1> QED
    BY <1>4, <1>5, <1>6 DEF RecStepInv

\* RejectRecovery, below the threshold and at it.
LEMMA RejectRecoveryInv ==
    ASSUME RecoveryInv, NEW o \in Rids, NEW g \in Dids, NEW s \in Salts,
           RejectRecovery(o, g, s)
    PROVE  RecStepInv'
<1> USE InvFacts
<1> DEFINE against == Synced(o).rejections \cup {g}
<1>1. /\ Settle({o}) \/ (/\ request' = [request EXCEPT ![o] = Rejected(o, against)]
                          /\ UNCHANGED vetoLeft)
      /\ UNCHANGED <<status, now, guardians, epoch, params>>
      /\ IsOpen(o)
    BY DEF RejectRecovery, eligVars
<1>2. epoch[o[1]] \in 0..MaxEpoch /\ request[o] \in Requests
    BY <1>1 DEF RecTyped
<1>3. against \in SUBSET Dids
    <2>1. Synced(o) \in Requests
        BY <1>2 DEF Synced, Requests
    <2> QED
        BY <2>1 DEF Requests
<1> HIDE DEF against
<1>4. GuardiansStanding'
    BY <1>1 DEF GuardiansStanding
<1>5. CASE Settle({o})
    <2>1. RecTyped'
        BY <1>1, <1>5, SettleFields DEF RecTyped
    <2>2. ASSUME NEW r \in Rids PROVE RequestInv(r, r[1])'
        <3>1. CASE r = o
            BY <1>5, <3>1, SettleFields DEF RequestInv, IsOpen
        <3>2. CASE r # o
            BY <1>1, <1>5, <3>2, SettleFields, RequestKept, SMTT(30)
        <3> QED
            BY <3>1, <3>2
    <2> QED
        BY <1>4, <2>1, <2>2 DEF RecStepInv
<1>6. CASE request' = [request EXCEPT ![o] = Rejected(o, against)] /\ UNCHANGED vetoLeft
    <2>1. LET q == request[o]
              a == Rejected(o, against)
          IN  /\ a \in Requests
              /\ a.tally = epoch[o[1]]
              /\ a.approvals = EffectiveApprovals(o)
              /\ a.executeAfter = q.executeAfter
              /\ a.expiresAt = q.expiresAt
              /\ a.frozenAt = q.frozenAt
        BY <1>2, <1>3, RejectedFields
    <2>2. RecTyped'
        BY <1>1, <1>6, <2>1 DEF RecTyped
    <2>3. ASSUME NEW r \in Rids PROVE RequestInv(r, r[1])'
        <3>1. CASE r # o
            <4>1. request'[r] = request[r]
                BY <1>6, <3>1, SMTT(30)
            <4> QED
                BY <1>1, <1>6, <4>1, RequestKept
        <3>2. CASE r = o
            <4>1. request'[r] = Rejected(o, against)
                BY <1>6, <3>2 DEF RecTyped
            <4>2. \A x \in EffectiveApprovals(o) :
                     x # o[1] /\ \E z \in Salts : <<x, z>> \in guardians[o[1]].commits
                BY <1>1 DEF EffectiveApprovals, RequestInv
            <4> QED
                BY <1>1, <1>2, <1>6, <2>1, <3>2, <4>1, <4>2, SMTT(30) DEF RequestInv
        <3> QED
            BY <3>1, <3>2
    <2> QED
        BY <1>4, <2>2, <2>3 DEF RecStepInv
<1> QED
    BY <1>1, <1>5, <1>6

\* CancelRecovery deletes one request.
LEMMA CancelRecoveryInv ==
    ASSUME RecoveryInv, NEW o \in Rids, CancelRecovery(o)
    PROVE  RecStepInv'
<1> USE InvFacts
<1>1. Settle({o}) /\ UNCHANGED <<status, now, guardians, epoch, params>>
    BY DEF CancelRecovery, eligVars
<1>2. RecTyped' /\ GuardiansStanding'
    BY <1>1, SettleFields DEF RecTyped, GuardiansStanding
<1>3. ASSUME NEW r \in Rids PROVE RequestInv(r, r[1])'
    <2>1. CASE r = o
        BY <1>1, <2>1, SettleFields DEF RequestInv, IsOpen
    <2>2. CASE r # o
        BY <1>1, <2>2, SettleFields, RequestKept, SMTT(30)
    <2> QED
        BY <2>1, <2>2
<1> QED
    BY <1>2, <1>3 DEF RecStepInv

\* ExecuteRecovery moves the DID and deletes every request on it.
LEMMA ExecuteRecoveryInv ==
    ASSUME RecoveryInv, NEW o \in Rids, ExecuteRecovery(o)
    PROVE  RecStepInv'
<1> USE InvFacts
<1>1. /\ Settle(RequestsForDID(o[1])) /\ UNCHANGED <<now, guardians, epoch, params>>
      /\ status[o[1]] = "ACTIVE" /\ status' = [status EXCEPT ![o[1]] = "ACTIVE"]
    BY SetIdentityStatus DEF ExecuteRecovery, MoveDoc
<1>2. UNCHANGED status
    BY <1>1
<1>3. RequestsForDID(o[1]) \in SUBSET Rids
    BY DEF RequestsForDID
<1>4. RecTyped' /\ GuardiansStanding'
    BY <1>1, <1>2, <1>3, SettleFields DEF RecTyped, GuardiansStanding
<1>5. ASSUME NEW r \in Rids PROVE RequestInv(r, r[1])'
    <2>1. CASE r \in RequestsForDID(o[1])
        BY <1>1, <1>3, <2>1, SettleFields DEF RequestInv, IsOpen
    <2>2. CASE r \notin RequestsForDID(o[1])
        BY <1>1, <1>2, <1>3, <2>2, SettleFields, RequestKept, SMTT(30)
    <2> QED
        BY <2>1, <2>2
<1> QED
    BY <1>4, <1>5 DEF RecStepInv

\* RevokeIdentity deletes the requests and the guardian set of the DID.
LEMMA RevokeIdentityInv ==
    ASSUME RecoveryInv, NEW d \in Dids, NEW byGov \in BOOLEAN, RevokeIdentity(d, byGov)
    PROVE  RecStepInv'
<1> USE InvFacts
<1>1. /\ Settle(RequestsForDID(d)) /\ UNCHANGED <<now, params>>
      /\ status' = [status EXCEPT ![d] = "REVOKED"]
      /\ guardians' = [guardians EXCEPT ![d] = NoGuardians]
      /\ epoch[d] < MaxEpoch /\ epoch' = [epoch EXCEPT ![d] = @ + 1]
    BY SetIdentityStatus DEF RevokeIdentity, RevokeDoc, BumpEpoch
<1>2. RequestsForDID(d) \in SUBSET Rids
    BY DEF RequestsForDID
<1>3. RecTyped'
    BY <1>1, <1>2, SettleFields, RecoveryBounds, SMTT(30) DEF RecTyped
<1>4. GuardiansStanding'
    BY <1>1 DEF RecTyped, GuardiansStanding
<1>5. ASSUME NEW r \in Rids PROVE RequestInv(r, r[1])'
    <2>1. CASE r \in RequestsForDID(d)
        BY <1>1, <1>2, <2>1, SettleFields DEF RequestInv, IsOpen
    <2>2. CASE r \notin RequestsForDID(d) /\ r[1] = d
        BY <1>1, <1>2, <2>2, SettleFields DEF RequestInv, RequestsForDID, IsOpen
    <2>3. CASE r[1] # d
        <3>1. r \notin RequestsForDID(d)
            BY <2>3 DEF RequestsForDID
        <3>2. request'[r] = request[r] /\ vetoLeft'[r] = vetoLeft[r]
            BY <1>1, <1>2, <3>1, SettleFields
        <3> QED
            BY <1>1, <2>3, <3>2, RequestKept DEF RecTyped
    <2> QED
        BY <2>1, <2>2, <2>3
<1> QED
    BY <1>3, <1>4, <1>5 DEF RecStepInv

\* UpdateStatus: freezing pauses the veto clock and thawing resumes it with
\* the time that was left.
LEMMA UpdateStatusInv ==
    ASSUME RecoveryInv, NEW d \in Subjects, NEW st \in {"ACTIVE", "SUSPENDED"},
           UpdateStatus(d, st)
    PROVE  RecStepInv'
<1> USE InvFacts
<1>0. d \in Dids
    BY RecoveryBounds
<1> USE <1>0
<1>1. /\ status[d] \in {"ACTIVE", "SUSPENDED"} \ {st}
      /\ status' = [status EXCEPT ![d] = st]
      /\ request' = [r \in Rids |->
                       IF r \notin RequestsForDID(d) THEN request[r]
                       ELSE IF st = "SUSPENDED" THEN Frozen(r) ELSE Thawed(r)]
      /\ UNCHANGED <<now, guardians, epoch, params, vetoLeft>>
    BY SetIdentityStatus DEF UpdateStatus, ChangeStatusDoc
<1>2. \A r \in RequestsForDID(d) : r \in Rids /\ r[1] = d /\ request[r] \in Requests
    BY DEF RequestsForDID
<1>3. \A r \in RequestsForDID(d) : Frozen(r) \in Requests /\ Thawed(r) \in Requests
    BY <1>2, FrozenFields, ThawedFields
<1>4. RecTyped'
    BY <1>1, <1>3 DEF RecTyped
<1>5. GuardiansStanding'
    BY <1>1 DEF GuardiansStanding
<1>6. ASSUME NEW r \in Rids PROVE RequestInv(r, r[1])'
    <2>1. CASE r[1] # d
        <3>1. request'[r] = request[r] /\ status'[r[1]] = status[r[1]]
            BY <1>1, <2>1 DEF RequestsForDID
        <3> QED
            BY <1>1, <3>1, RequestKept
    <2>2. CASE r[1] = d /\ ~IsOpen(r)
        BY <1>1, <2>2 DEF RequestsForDID, RequestInv, IsOpen
    <2>3. CASE r[1] = d /\ IsOpen(r) /\ st = "SUSPENDED"
        <3>1. r \in RequestsForDID(d) /\ status[d] = "ACTIVE" /\ status'[d] = "SUSPENDED"
            BY <1>1, <2>3 DEF RequestsForDID
        <3>2. request'[r] = Frozen(r) /\ request[r] \in Requests
            BY <1>1, <1>2, <2>3, <3>1
        <3>3. LET q == request[r]
                  f == Frozen(r)
              IN  /\ f.tally = q.tally
                  /\ f.approvals = q.approvals
                  /\ f.executeAfter = q.executeAfter
                  /\ f.expiresAt = q.expiresAt
                  /\ f.frozenAt = IF q.frozenAt # 0 \/ now > q.expiresAt
                                  THEN q.frozenAt ELSE now
            BY <3>2, FrozenFields
        <3>4. request[r].frozenAt = 0
            BY <2>3, <3>1 DEF RequestInv
        <3>5. request[r].executeAfter \in Nat /\ request[r].expiresAt \in Nat
            BY <3>2 DEF Requests
        <3> QED
            BY <1>1, <2>3, <3>1, <3>2, <3>3, <3>4, <3>5, SMTT(30) DEF RequestInv
    <2>4. CASE r[1] = d /\ IsOpen(r) /\ st = "ACTIVE"
        <3>1. r \in RequestsForDID(d) /\ status[d] = "SUSPENDED" /\ status'[d] = "ACTIVE"
            BY <1>1, <2>4 DEF RequestsForDID
        <3>2. request'[r] = Thawed(r) /\ request[r] \in Requests
            BY <1>1, <1>2, <2>4, <3>1
        <3>3. LET q == request[r]
                  f == Thawed(r)
              IN  /\ f.tally = q.tally
                  /\ f.approvals = q.approvals
                  /\ f.frozenAt = 0
                  /\ q.frozenAt = 0 => f = q
                  /\ q.frozenAt # 0 =>
                       /\ f.executeAfter = IF q.frozenAt < q.executeAfter
                                           THEN now + (q.executeAfter - q.frozenAt)
                                           ELSE q.executeAfter
                       /\ f.expiresAt = now + params.ttl
            BY <3>2, ThawedFields
        <3>4. /\ request[r].executeAfter \in Nat /\ request[r].expiresAt \in Nat
              /\ request[r].frozenAt \in Nat
            BY <3>2 DEF Requests
        <3> QED
            BY <1>1, <2>4, <3>1, <3>2, <3>3, <3>4, SMTT(30) DEF RequestInv
    <2> QED
        BY <2>1, <2>2, <2>3, <2>4
<1> QED
    BY <1>4, <1>5, <1>6 DEF RecStepInv

\* A later block: the veto clock of an ACTIVE DID runs with the block time.
LEMMA NextBlockInv ==
    ASSUME RecoveryInv, NextBlock
    PROVE  RecStepInv'
<1> USE InvFacts
<1>1. /\ now' \in Nat /\ now' > now
      /\ UNCHANGED <<status, guardians, epoch, request, params>>
      /\ vetoLeft' = [r \in Rids |->
            IF ~IsOpen(r) \/ status[r[1]] # "ACTIVE" THEN vetoLeft[r]
            ELSE IF vetoLeft[r] <= now' - now THEN 0
            ELSE vetoLeft[r] - (now' - now)]
    BY TimeBound, SMTT(30) DEF NextBlock, Tick, registryVars
<1>2. RecTyped' /\ GuardiansStanding'
    BY <1>1, SMTT(30) DEF RecTyped, GuardiansStanding
<1>3. ASSUME NEW r \in Rids PROVE RequestInv(r, r[1])'
    <2>1. CASE ~IsOpen(r)
        BY <1>1, <2>1 DEF RequestInv, IsOpen
    <2>2. CASE IsOpen(r)
        <3>1. /\ request[r].executeAfter \in Nat /\ request[r].expiresAt \in Nat
              /\ request[r].frozenAt \in Nat
            BY <2>2 DEF Requests
        <3>2. vetoLeft'[r] = IF status[r[1]] # "ACTIVE" THEN vetoLeft[r]
                             ELSE IF vetoLeft[r] <= now' - now THEN 0
                             ELSE vetoLeft[r] - (now' - now)
            BY <1>1, <2>2
        <3> QED
            BY <1>1, <2>2, <3>1, <3>2, SMTT(30) DEF RequestInv
    <2> QED
        BY <2>1, <2>2
<1> QED
    BY <1>2, <1>3 DEF RecStepInv

\* Registration, key rotation and parameter changes.
LEMMA OtherStepsInv ==
    ASSUME RecoveryInv,
           \/ \E d \in Dids, c \in Accounts : RegisterIdentity(d, c)
           \/ \E d \in Subjects, k \in Keys : RotateIdentityKey(d, k)
           \/ \E p \in ParamSets : UpdateParams(p)
           \/ UNCHANGED vars
    PROVE  RecStepInv'
<1> USE InvFacts
<1>1. ASSUME NEW d \in Dids, NEW c \in Accounts, RegisterIdentity(d, c)
      PROVE  RecStepInv'
    <2>1. /\ status[d] = "NONE" /\ status' = [status EXCEPT ![d] = "ACTIVE"]
          /\ UNCHANGED <<now, guardians, epoch, request, params, vetoLeft>>
        BY <1>1, SetIdentityStatus DEF RegisterIdentity, RegisterDoc, Registered
    <2>2. RecTyped' /\ GuardiansStanding'
        BY <2>1 DEF RecTyped, GuardiansStanding
    <2>3. ASSUME NEW r \in Rids PROVE RequestInv(r, r[1])'
        <3>1. CASE r[1] = d
            BY <2>1, <3>1 DEF RequestInv, IsOpen
        <3>2. CASE r[1] # d
            BY <2>1, <3>2, RequestKept
        <3> QED
            BY <3>1, <3>2
    <2> QED
        BY <2>2, <2>3 DEF RecStepInv
<1>2. ASSUME NEW d \in Subjects, NEW k \in Keys, RotateIdentityKey(d, k)
      PROVE  UNCHANGED <<now, status, guardians, epoch, request, vetoLeft, params>>
    <2>1. d \in Dids /\ status[d] = "ACTIVE" /\ status' = [status EXCEPT ![d] = "ACTIVE"]
        BY <1>2, SetIdentityStatus, RecoveryBounds DEF RotateIdentityKey
    <2> QED
        BY <1>2, <2>1 DEF RotateIdentityKey
<1>3. ASSUME NEW p \in ParamSets, UpdateParams(p)
      PROVE  UNCHANGED <<now, status, guardians, epoch, request, vetoLeft>> /\ params' \in ParamSets
    BY <1>3 DEF UpdateParams, eligVars
<1>4. ASSUME UNCHANGED vars
      PROVE  UNCHANGED <<now, status, guardians, epoch, request, vetoLeft, params>>
    BY <1>4 DEF vars, eligVars, recVars
<1>5. ASSUME UNCHANGED <<now, status, guardians, epoch, request, vetoLeft>>,
             params' \in ParamSets
      PROVE  RecStepInv'
    BY <1>5, RequestKept DEF RecStepInv, RecTyped, GuardiansStanding
<1>6. params \in ParamSets
    BY DEF RecTyped
<1> QED
    BY <1>1, <1>2, <1>3, <1>4, <1>5, <1>6

\* Genesis without open requests establishes the inductive invariant.
LEMMA RecoveryInitInv == Init => RecoveryInv
<1> SUFFICES ASSUME Init PROVE RecoveryInv
    OBVIOUS
<1>1. RegistryInv
    BY InitInv DEF Init
<1>2. RecTyped
    BY RecoveryBounds, SMTT(30) DEF Init, RecTyped
<1>3. GuardiansStanding /\ \A r \in Rids : RequestInv(r, r[1])
    BY DEF Init, GuardiansStanding, RequestInv, IsOpen
<1> QED
    BY <1>1, <1>2, <1>3 DEF RecoveryInv

\* Every handler preserves the inductive invariant.
LEMMA RecoveryNextInv ==
    ASSUME RecoveryInv, [Next]_vars
    PROVE  RecoveryInv'
<1>1. RegistryInv'
    BY StepRefines, NextInv DEF RecoveryInv
<1>2. RecStepInv'
    BY SetGuardiansInv, InitiateRecoveryInv, ApproveRecoveryInv, RejectRecoveryInv,
       ExecuteRecoveryInv, CancelRecoveryInv, RevokeIdentityInv, UpdateStatusInv,
       NextBlockInv, OtherStepsInv DEF Next
<1> QED
    BY <1>1, <1>2 DEF RecoveryInv, RecStepInv

-----------------------------------------------------------------------------
(* The theorems *)

\* In every reachable state of the recovery handlers the requests, guardian
\* sets and veto clocks satisfy the inductive invariant.
THEOREM RecoveryInvariance == Spec => []RecoveryInv
<1>1. RecoveryInv /\ [Next]_vars => RecoveryInv'
    BY RecoveryNextInv
<1> QED
    BY RecoveryInitInv, <1>1, PTL DEF Spec

\* The message handlers implement the registry specification governance
\* relies on, so everything proved of EligSpec holds of them.
THEOREM RecoveryRefinesEligibility == Spec => ImplementsEligibility
<1>1. Init => EligInit
    BY DEF Init
<1>2. RecoveryInv /\ [Next]_vars => [EligNext]_eligVars
    BY StepRefines
<1> QED
    BY RecoveryInvariance, <1>1, <1>2, PTL DEF Spec, EligSpec, ImplementsEligibility

\* Under every interleaving of the handlers the denominator governance reads
\* is the number of eligible controllers (an over-estimate when truncated).
THEOREM RecoveryKeepsDenominator == Spec => []DenominatorExact
BY RecoveryRefinesEligibility, DenominatorCorrect, PTL DEF ImplementsEligibility

\* SetGuardians withdraws the consent of the guardians it retires.
THEOREM ConsentCurrent == Spec => []ConsentIsCurrent
<1>1. RecoveryInv => ConsentIsCurrent
    BY InvFacts DEF ConsentIsCurrent, EffectiveApprovals, RequestInv
<1> QED
    BY RecoveryInvariance, <1>1, PTL

\* Requests are frozen exactly while their DID is suspended, and a revoked
\* DID has neither requests nor guardians.
THEOREM FreezeCorrect == Spec => []FreezeMatchesSuspension
<1>1. ASSUME RecoveryInv PROVE FreezeMatchesSuspension
    BY <1>1, InvFacts DEF FreezeMatchesSuspension, RequestInv, GuardiansStanding, Expired, Held
<1> QED
    BY RecoveryInvariance, <1>1, PTL

\* The veto window in force at initiation is kept to the second, whatever
\* freezes, thaws and parameter changes happen in between.
THEOREM VetoWindowCorrect == Spec => []VetoWindowKept
<1>1. ASSUME RecoveryInv, NEW r \in Rids,
             IsOpen(r), status[r[1]] = "ACTIVE", ~Expired(r)
      PROVE  now >= request[r].executeAfter <=> vetoLeft[r] = 0
    <2> USE InvFacts
    <2>1. request[r].executeAfter \in Nat /\ request[r].expiresAt \in Nat
        BY <1>1 DEF Requests
    <2> QED
        BY <1>1, <2>1, SMTT(30) DEF Expired, Held, RequestInv
<1>2. RecoveryInv => VetoWindowKept
    BY <1>1 DEF VetoWindowKept
<1> QED
    BY RecoveryInvariance, <1>2, PTL

-----------------------------------------------------------------------------
(* Action properties *)

\* A nonce is consumed when its request is opened.
OpenUsesNonce == \A r \in Rids : IsOpen(r) => r \in usedNonces

\* How a step may touch the request r: it keeps it, deletes it, records a
\* guardian's answer, freezes or thaws it, or opens it with a fresh nonce.
RequestStep(r) ==
    /\ usedNonces \subseteq usedNonces'
    /\ \/ request'[r] = request[r]
       \/ request'[r] = NoRequest
       \/ IsOpen(r) /\ \E g \in Dids : request'[r] = Approved(r, g)
       \/ IsOpen(r) /\ \E rs \in SUBSET Dids : request'[r] = Rejected(r, rs)
       \/ IsOpen(r) /\ status[r[1]] = "ACTIVE" /\ request'[r] = Frozen(r)
       \/ IsOpen(r) /\ status[r[1]] = "SUSPENDED" /\ request'[r] = Thawed(r)
       \/ r \notin usedNonces /\ r \in usedNonces'

\* What any handler can do to one request: nothing, delete it, touch its
\* tallies, freeze it, thaw it, or open it under a nonce never used before.
LEMMA EveryStepIsRequestStep ==
    ASSUME RecoveryInv, [Next]_vars, NEW r \in Rids
    PROVE  RequestStep(r)
<1> USE InvFacts
<1>1. ASSUME NEW d \in Subjects, NEW n \in Nonces, NEW c \in Accounts, NEW k \in Keys,
             NEW m \in {"SOCIAL", "REAUTH"}, InitiateRecovery(d, n, c, k, m)
      PROVE  RequestStep(r)
    <2>1. <<d, n>> \notin usedNonces /\ usedNonces' = usedNonces \cup {<<d, n>>}
        BY <1>1 DEF InitiateRecovery
    <2>2. CASE r = <<d, n>>
        BY <2>1, <2>2 DEF RequestStep
    <2>3. CASE r # <<d, n>>
        <3>1. request'[r] = request[r] \/ request'[r] = NoRequest
            BY <1>1, <2>3 DEF InitiateRecovery, Without
        <3> QED
            BY <2>1, <3>1 DEF RequestStep
    <2> QED
        BY <2>2, <2>3
<1>2. ASSUME NEW o \in Rids, NEW g \in Dids, NEW s \in Salts, ApproveRecovery(o, g, s)
      PROVE  RequestStep(r)
    BY <1>2 DEF ApproveRecovery, RequestStep, RecTyped
<1>3. ASSUME NEW o \in Rids, NEW g \in Dids, NEW s \in Salts, RejectRecovery(o, g, s)
      PROVE  RequestStep(r)
    <2>1. IsOpen(o) /\ UNCHANGED usedNonces
        BY <1>3 DEF RejectRecovery
    <2>2. CASE Settle({o})
        BY <2>1, <2>2, SettleFields DEF RequestStep
    <2>3. CASE request' = [request EXCEPT ![o] = Rejected(o, Synced(o).rejections \cup {g})]
        <3>1. Synced(o) \in Requests
            BY <2>1 DEF Synced, Requests, RecTyped
        <3>2. Synced(o).rejections \cup {g} \in SUBSET Dids
            BY <3>1 DEF Requests
        <3> QED
            BY <2>1, <2>3, <3>2 DEF RequestStep, RecTyped
    <2> QED
        BY <1>3, <2>2, <2>3 DEF RejectRecovery
<1>4. ASSUME NEW o \in Rids, CancelRecovery(o)
      PROVE  RequestStep(r)
    BY <1>4, SettleFields DEF CancelRecovery, RequestStep
<1>5. ASSUME NEW d \in Dids, Settle(RequestsForDID(d)), UNCHANGED usedNonces
      PROVE  RequestStep(r)
    <2>1. RequestsForDID(d) \in SUBSET Rids
        BY DEF RequestsForDID
    <2> QED
        BY <1>5, <2>1, SettleFields DEF RequestStep
<1>6. ASSUME NEW d \in Subjects, NEW st \in {"ACTIVE", "SUSPENDED"}, UpdateStatus(d, st)
      PROVE  RequestStep(r)
    BY <1>6, RecoveryBounds DEF UpdateStatus, ChangeStatusDoc, RequestStep, RequestsForDID
<1>7. ASSUME UNCHANGED <<request, usedNonces>>
      PROVE  RequestStep(r)
    BY <1>7 DEF RequestStep
<1>8. ASSUME NEW o \in Rids, ExecuteRecovery(o) PROVE RequestStep(r)
    BY <1>5, <1>8 DEF ExecuteRecovery
<1>9. ASSUME NEW d \in Dids, NEW byGov, RevokeIdentity(d, byGov) PROVE RequestStep(r)
    BY <1>5, <1>9 DEF RevokeIdentity
<1>10. ASSUME \/ \E d \in Dids, c \in Accounts : RegisterIdentity(d, c)
              \/ \E d \in Subjects, k \in Keys : RotateIdentityKey(d, k)
              \/ \E d \in Subjects, gs \in GuardianSets : SetGuardians(d, gs)
              \/ \E p \in ParamSets : UpdateParams(p)
              \/ NextBlock
              \/ UNCHANGED vars
       PROVE  UNCHANGED <<request, usedNonces>>
    BY <1>10 DEF RegisterIdentity, RotateIdentityKey, SetGuardians, UpdateParams, NextBlock,
                 vars, recVars
<1> QED
    BY <1>1, <1>2, <1>3, <1>4, <1>6, <1>7, <1>8, <1>9, <1>10 DEF Next

\* markRecoveryNonce outlives the request: an open request always has its
\* nonce on record, so no later request can take over its identifier.
THEOREM OpenRequestsUsedTheirNonce == Spec => []OpenUsesNonce
<1>1. Init => OpenUsesNonce
    BY DEF Init, OpenUsesNonce, IsOpen
<1>2. RecoveryInv /\ OpenUsesNonce /\ [Next]_vars => OpenUsesNonce'
    <2> SUFFICES ASSUME RecoveryInv, OpenUsesNonce, [Next]_vars, NEW r \in Rids, IsOpen(r)'
                 PROVE  r \in usedNonces'
        BY DEF OpenUsesNonce
    <2>1. RequestStep(r)
        BY EveryStepIsRequestStep
    <2> QED
        BY <2>1 DEF RequestStep, OpenUsesNonce, IsOpen
<1> QED
    BY RecoveryInvariance, <1>1, <1>2, PTL DEF Spec

\* No suspension, reinstatement or parameter change revives a request whose
\* time ran out, and no new request takes over its identifier.
THEOREM ExpiryIsFinal == Spec => ExpiredStaysExpired
<1>1. ASSUME RecoveryInv, OpenUsesNonce, [Next]_vars
      PROVE  [\A r \in Rids :
                (IsOpen(r) /\ Expired(r)) => (IsOpen(r)' => Expired(r)')]_vars
    <2> SUFFICES ASSUME NEW r \in Rids, IsOpen(r), Expired(r), IsOpen(r)'
                 PROVE  Expired(r)'
        OBVIOUS
    <2> USE InvFacts
    <2>1. RequestStep(r)
        BY <1>1, EveryStepIsRequestStep
    <2>2. /\ request[r] \in Requests /\ request[r].frozenAt = 0
          /\ now > request[r].expiresAt /\ epoch[r[1]] \in 0..MaxEpoch
        BY <1>1 DEF Expired, Held, RequestInv, RecTyped
    <2>3. request[r].expiresAt \in Nat
        BY <2>2 DEF Requests
    <2>4. request'[r].frozenAt = 0 /\ request'[r].expiresAt = request[r].expiresAt
        <3>1. \A g \in Dids : Approved(r, g).frozenAt = request[r].frozenAt
                               /\ Approved(r, g).expiresAt = request[r].expiresAt
            BY <2>2, ApprovedFields
        <3>2. \A rs \in SUBSET Dids : Rejected(r, rs).frozenAt = request[r].frozenAt
                                      /\ Rejected(r, rs).expiresAt = request[r].expiresAt
            BY <2>2, RejectedFields
        <3>3. Frozen(r).frozenAt = 0 /\ Frozen(r).expiresAt = request[r].expiresAt
            BY <1>1, <2>2, <2>3, FrozenFields
        <3>4. Thawed(r) = request[r]
            BY <1>1, <2>2, ThawedFields
        <3>5. request'[r] # NoRequest /\ r \in usedNonces
            BY <1>1 DEF OpenUsesNonce, IsOpen
        <3> QED
            BY <2>1, <2>2, <3>1, <3>2, <3>3, <3>4, <3>5 DEF RequestStep
    <2>5. now' \in Int /\ now' >= now
        <3>1. RecoveryInv' /\ [EligNext]_eligVars
            BY <1>1, RecoveryNextInv, StepRefines
        <3>2. now' \in Int
            BY <3>1, TimeBound, SMTT(30) DEF RecoveryInv, RegistryInv, EligTypeOK, Time
        <3>3. now' = now \/ now' > now
            BY <1>1, <3>1, TimeBound, SMTT(30) DEF EligNext, RegisterDoc, RevokeDoc, ChangeStatusDoc,
               MoveDoc, Tick, eligVars
        <3> QED
            BY <1>1, <3>2, <3>3, SMTT(30)
    <2> QED
        BY <1>1, <2>2, <2>3, <2>4, <2>5, SMTT(30) DEF Expired, Held
<1> QED
    BY RecoveryInvariance, OpenRequestsUsedTheirNonce, <1>1, PTL DEF Spec, ExpiredStaysExpired

\* ExecuteRecovery is the only way a registered DID changes hands: its
\* request was authorised, the owner had the whole veto window, and no
\* request on the DID survives.
THEOREM ControlMovesCorrectly == Spec => ControlMovesByRecoveryOnly
<1> DEFINE Moves ==
        \A d \in Dids :
           (Registered(d) /\ controller'[d] # controller[d]) =>
              /\ \E r \in RequestsForDID(d) :
                   /\ request[r].newController = controller'[d]
                   /\ Authorised(r) /\ vetoLeft[r] = 0
              /\ \A n \in Nonces : request'[<<d, n>>] = NoRequest
<1>0. RecoveryInv => VetoWindowKept
    <2>1. ASSUME RecoveryInv, NEW r \in Rids,
                 IsOpen(r), status[r[1]] = "ACTIVE", ~Expired(r)
          PROVE  now >= request[r].executeAfter <=> vetoLeft[r] = 0
        <3> USE InvFacts
        <3>1. request[r].executeAfter \in Nat /\ request[r].expiresAt \in Nat
            BY <2>1 DEF Requests
        <3> QED
            BY <2>1, <3>1, SMTT(30) DEF Expired, Held, RequestInv
    <2> QED
        BY <2>1 DEF VetoWindowKept
<1>1. ASSUME RecoveryInv, [Next]_vars
      PROVE  [Moves]_vars
    <2> SUFFICES ASSUME NEW d \in Dids, Registered(d), controller'[d] # controller[d]
                 PROVE  /\ \E r \in RequestsForDID(d) :
                             /\ request[r].newController = controller'[d]
                             /\ Authorised(r) /\ vetoLeft[r] = 0
                        /\ \A n \in Nonces : request'[<<d, n>>] = NoRequest
        OBVIOUS
    <2> USE InvFacts
    <2>0. controller \in [Dids -> Accounts \cup {NoAccount}]
        BY <1>1 DEF RecoveryInv, RegistryInv, EligTypeOK
    <2>1. \E o \in Rids : ExecuteRecovery(o)
        <3>1. ~ \E e \in Dids, c \in Accounts : RegisterIdentity(e, c)
            BY <2>0, SetIdentityStatus, SMTT(30) DEF RegisterIdentity, RegisterDoc, Registered
        <3>2. ~ \E e \in Subjects, k \in Keys : RotateIdentityKey(e, k)
            BY <2>0, SetIdentityStatus, RecoveryBounds, SMTT(30) DEF RotateIdentityKey
        <3>3. ~ \E e \in Dids, byGov \in BOOLEAN : RevokeIdentity(e, byGov)
            BY <2>0, SetIdentityStatus, SMTT(30) DEF RevokeIdentity, RevokeDoc
        <3>4. ~ \E e \in Subjects, st \in {"ACTIVE", "SUSPENDED"} : UpdateStatus(e, st)
            BY <2>0, SetIdentityStatus, RecoveryBounds, SMTT(30) DEF UpdateStatus, ChangeStatusDoc
        <3>5. ~NextBlock
            BY DEF NextBlock, Tick, registryVars
        <3>6. ASSUME NEW e, NEW gs, SetGuardians(e, gs) PROVE FALSE
            BY <3>6 DEF SetGuardians, eligVars
        <3>7. ASSUME NEW e, NEW n, NEW c, NEW k, NEW m, InitiateRecovery(e, n, c, k, m)
              PROVE  FALSE
            BY <3>7 DEF InitiateRecovery, eligVars
        <3>8. ASSUME NEW r, NEW g, NEW s, ApproveRecovery(r, g, s) PROVE FALSE
            BY <3>8 DEF ApproveRecovery, eligVars
        <3>9. ASSUME NEW r, NEW g, NEW s, RejectRecovery(r, g, s) PROVE FALSE
            BY <3>9 DEF RejectRecovery, eligVars
        <3>10. ASSUME NEW r, CancelRecovery(r) PROVE FALSE
            BY <3>10 DEF CancelRecovery, eligVars
        <3>11. ASSUME NEW p, UpdateParams(p) PROVE FALSE
            BY <3>11 DEF UpdateParams, eligVars
        <3>12. ~UNCHANGED vars
            BY DEF vars, eligVars
        <3> QED
            BY <1>1, <3>1, <3>2, <3>3, <3>4, <3>5, <3>6, <3>7, <3>8, <3>9, <3>10, <3>11,
               <3>12 DEF Next
    <2>2. PICK o \in Rids : ExecuteRecovery(o)
        BY <2>1
    <2>3. /\ controller' = [controller EXCEPT ![o[1]] = request[o].newController]
          /\ Settle(RequestsForDID(o[1]))
          /\ Executable(o)
        BY <2>2, SetIdentityStatus DEF ExecuteRecovery, MoveDoc
    <2>4. o[1] = d /\ controller'[d] = request[o].newController
        BY <2>0, <2>3
    <2>5. /\ o \in RequestsForDID(d) /\ Authorised(o)
          /\ status[o[1]] = "ACTIVE" /\ ~Expired(o) /\ now >= request[o].executeAfter
          /\ IsOpen(o)
        BY <2>3, <2>4 DEF Executable, RequestsForDID
    <2>6. vetoLeft[o] = 0
        BY <1>0, <1>1, <2>5 DEF VetoWindowKept
    <2>7. \A n \in Nonces : request'[<<d, n>>] = NoRequest
        BY <2>3, <2>4 DEF Settle, Without, RequestsForDID, IsOpen, Rids
    <2> QED
        BY <2>4, <2>5, <2>6, <2>7
<1> QED
    BY RecoveryInvariance, <1>1, PTL DEF Spec, ControlMovesByRecoveryOnly, Moves
-----------------------------------------------------------------------------
(* The escrow account *)

\* The deposits of the requests rs in a request store q, and the open ones.
DepositSum(q, rs) == SumFunctionOnSet([r \in rs |-> q[r].deposit], rs)
OpenSet == {r \in Rids : IsOpen(r)}
SameDeposits(p, q, rs) ==
    \A r \in rs : p[r].deposit = q[r].deposit /\ q[r].deposit \in Nat

\* One transfer of the deposits of rs leaves exactly the others' behind.
LEMMA DepositsSettled ==
    ASSUME NEW open, IsFiniteSet(open), NEW q, SameDeposits(q, q, open),
           NEW rs \in SUBSET open, NEW p, SameDeposits(p, q, open \ rs)
    PROVE  /\ DepositSum(p, open \ rs) = DepositSum(q, open) - DepositSum(q, rs)
           /\ DepositSum(q, open) \in Int /\ DepositSum(q, rs) \in Int
<1> DEFINE f == [r \in open |-> q[r].deposit]
           g == [r \in rs |-> q[r].deposit]
           h == [r \in open \ rs |-> p[r].deposit]
           rest == open \ rs
<1>1. /\ \A r \in open : f[r] \in Int
      /\ \A r \in rs : f[r] = g[r] /\ f[r] \in Int
      /\ \A r \in rest : f[r] = h[r] /\ f[r] \in Int
    BY SMTT(30) DEF SameDeposits
<1>2. IsFiniteSet(rs) /\ IsFiniteSet(rest)
    BY FS_Subset
<1>3. /\ DepositSum(q, open) = SumFunctionOnSet(f, open)
      /\ DepositSum(q, rs) = SumFunctionOnSet(g, rs)
      /\ DepositSum(p, rest) = SumFunctionOnSet(h, rest)
    BY DEF DepositSum
<1> HIDE DEF f, g, h, rest
<1>4. SumFunctionOnSet(f, open) = SumFunctionOnSet(f, rs) + SumFunctionOnSet(f, rest)
    BY <1>1, SumSplit DEF rest
<1>5. /\ SumFunctionOnSet(f, rs) = SumFunctionOnSet(g, rs)
      /\ SumFunctionOnSet(f, rest) = SumFunctionOnSet(h, rest)
    BY <1>1, <1>2, SumAgree
<1>6. /\ SumFunctionOnSet(f, open) \in Int
      /\ SumFunctionOnSet(f, rs) \in Int
      /\ SumFunctionOnSet(f, rest) \in Int
    BY <1>1, <1>2, SumInt
<1>7. DepositSum(p, rest) = DepositSum(q, open) - DepositSum(q, rs)
    BY <1>3, <1>4, <1>5, <1>6, SMTT(30)
<1> QED
    BY <1>3, <1>5, <1>6, <1>7 DEF rest

\* A new request adds its own deposit.
LEMMA DepositAdded ==
    ASSUME NEW open, IsFiniteSet(open), NEW p, NEW o, o \notin open,
           SameDeposits(p, p, open \cup {o})
    PROVE  DepositSum(p, open \cup {o}) = DepositSum(p, open) + p[o].deposit
<1> DEFINE all == open \cup {o}
           f == [r \in all |-> p[r].deposit]
           g == [r \in open |-> p[r].deposit]
<1>1. /\ \A r \in all : f[r] \in Int
      /\ \A r \in open : f[r] = g[r] /\ f[r] \in Int
      /\ f[o] = p[o].deposit
    BY SMTT(30) DEF SameDeposits
<1>2. /\ DepositSum(p, all) = SumFunctionOnSet(f, all)
      /\ DepositSum(p, open) = SumFunctionOnSet(g, open)
    BY DEF DepositSum
<1> HIDE DEF f, g
<1>3. SumFunctionOnSet(f, all) = f[o] + SumFunctionOnSet(f, open)
    BY <1>1, SumAdd
<1>4. SumFunctionOnSet(f, open) = SumFunctionOnSet(g, open)
    BY <1>1, SumAgree
<1>5. SumFunctionOnSet(f, open) \in Int /\ f[o] \in Int
    BY <1>1, SumInt
<1> QED
    BY <1>1, <1>2, <1>3, <1>4, <1>5, SMTT(30)

\* There are finitely many request identifiers.
LEMMA RidsFinite == IsFiniteSet(Rids)
BY DidsFinite, NoncesFinite, FS_Product DEF Rids

\* Settling requests that are open keeps the account and the records in step.
LEMMA SettleKeepsEscrow ==
    ASSUME RecoveryInv, EscrowMatchesDeposits, NEW rs \in SUBSET OpenSet, Settle(rs)
    PROVE  EscrowMatchesDeposits'
<1> USE InvFacts
<1>1. IsFiniteSet(OpenSet) /\ rs \in SUBSET Rids
    BY RidsFinite, FS_Subset DEF OpenSet
<1>2. \A r \in OpenSet : request[r].deposit \in Nat
    BY DEF OpenSet, Requests
<1>3. /\ \A r \in rs : request'[r] = NoRequest
      /\ \A r \in Rids \ rs : request'[r] = request[r]
    BY <1>1, SettleFields
<1>4. OpenSet' = OpenSet \ rs
    BY <1>1, <1>3 DEF OpenSet, IsOpen
<1>5. \A r \in OpenSet \ rs : request'[r].deposit = request[r].deposit
    BY <1>3 DEF OpenSet
<1>6. /\ DepositSum(request', OpenSet \ rs) = DepositSum(request, OpenSet) - DepositSum(request, rs)
      /\ DepositSum(request, OpenSet) \in Int /\ DepositSum(request, rs) \in Int
    <2>1. SameDeposits(request, request, OpenSet) /\ SameDeposits(request', request, OpenSet \ rs)
        BY <1>2, <1>5 DEF SameDeposits
    <2> QED
        BY <1>1, <2>1, DepositsSettled
<1>7. escrow = DepositSum(request, OpenSet) /\ escrow' = escrow - DepositSum(request, rs)
    BY DEF EscrowMatchesDeposits, DepositsOf, DepositSum, OpenSet, Settle
<1>8. escrow' = DepositSum(request', OpenSet')
    BY <1>4, <1>6, <1>7
<1> QED
    BY <1>8 DEF EscrowMatchesDeposits, DepositsOf, DepositSum, OpenSet, IsOpen

\* So does a step that neither moves money nor opens or closes a request.
LEMMA AnswersKeepEscrow ==
    ASSUME RecoveryInv, EscrowMatchesDeposits, UNCHANGED escrow,
           request' \in [Rids -> Requests \cup {NoRequest}],
           \A r \in Rids : ~IsOpen(r) => request'[r] = NoRequest,
           \A r \in Rids : IsOpen(r) => /\ request'[r] \in Requests
                                        /\ request'[r].deposit = request[r].deposit
    PROVE  EscrowMatchesDeposits'
<1> USE InvFacts
<1>1. IsFiniteSet(OpenSet) /\ {} \in SUBSET OpenSet /\ OpenSet \ {} = OpenSet
    BY RidsFinite, FS_Subset DEF OpenSet
<1>2. NoRequest \notin Requests
    BY DEF NoRequest, Requests
<1>3. OpenSet' = OpenSet
    BY <1>2 DEF OpenSet, IsOpen
<1>4. \A r \in OpenSet : request[r].deposit \in Nat /\ request'[r].deposit = request[r].deposit
    BY DEF OpenSet, Requests
<1>5. /\ DepositSum(request', OpenSet) = DepositSum(request, OpenSet) - DepositSum(request, {})
      /\ DepositSum(request, OpenSet) \in Int
    <2>1. SameDeposits(request, request, OpenSet) /\ SameDeposits(request', request, OpenSet \ {})
        BY <1>4 DEF SameDeposits
    <2> QED
        BY <1>1, <2>1, DepositsSettled, SMTT(30)
<1>6. DepositSum(request, {}) = 0
    BY SumEmpty DEF DepositSum
<1>7. escrow = DepositSum(request, OpenSet)
    BY DEF EscrowMatchesDeposits, DepositsOf, DepositSum, OpenSet
<1>8. escrow' = DepositSum(request', OpenSet')
    BY <1>3, <1>5, <1>6, <1>7, SMTT(30)
<1> QED
    BY <1>8 DEF EscrowMatchesDeposits, DepositsOf, DepositSum, OpenSet, IsOpen

\* InitiateRecovery reaps the expired requests, forfeiting their deposits,
\* and takes the new one's; the fresh nonce means its slot was empty.
LEMMA InitiateKeepsEscrow ==
    ASSUME RecoveryInv, RecoveryInv', OpenUsesNonce, EscrowMatchesDeposits,
           NEW d \in Subjects, NEW n \in Nonces, NEW c \in Accounts, NEW k \in Keys,
           NEW m \in {"SOCIAL", "REAUTH"}, InitiateRecovery(d, n, c, k, m)
    PROVE  EscrowMatchesDeposits'
<1> USE InvFacts
<1> DEFINE o == <<d, n>>
           reaped == {r \in RequestsForDID(d) : Expired(r)}
           dep == IF m = "REAUTH" THEN 0 ELSE params.deposit
           left == OpenSet \ reaped
<1>0. o \in Rids
    BY RecoveryBounds DEF Rids
<1>1. /\ o \notin OpenSet
      /\ escrow' = (escrow - DepositsOf(reaped)) + dep
      /\ \A r \in Rids : r # o => request'[r] = IF r \in reaped THEN NoRequest ELSE request[r]
      /\ request'[o].deposit = dep /\ request'[o].method = m
    BY <1>0 DEF InitiateRecovery, Without, OpenUsesNonce, OpenSet
<1>2. /\ IsFiniteSet(OpenSet) /\ reaped \in SUBSET OpenSet
      /\ IsFiniteSet(left) /\ o \notin left /\ o \notin reaped
    BY <1>1, RidsFinite, FS_Subset DEF OpenSet, RequestsForDID
<1>3. dep \in Nat
    OBVIOUS
<1>4. request'[o] # NoRequest
    BY <1>1, SMTT(30) DEF NoRequest
<1> HIDE DEF dep, reaped
<1>5. OpenSet' = left \cup {o}
    BY <1>0, <1>1, <1>2, <1>4 DEF OpenSet, IsOpen
<1>6. /\ SameDeposits(request, request, OpenSet)
      /\ SameDeposits(request', request, left)
    BY <1>1, <1>2 DEF SameDeposits, OpenSet, Requests
<1>7. SameDeposits(request', request', left \cup {o})
    BY <1>1, <1>3, <1>6 DEF SameDeposits
<1> HIDE DEF left, o
<1>8. DepositSum(request', left \cup {o}) = DepositSum(request', left) + dep
    BY <1>1, <1>2, <1>7, DepositAdded, SMTT(30)
<1>9. /\ DepositSum(request', left) = DepositSum(request, OpenSet) - DepositSum(request, reaped)
      /\ DepositSum(request, OpenSet) \in Int /\ DepositSum(request, reaped) \in Int
    BY <1>2, <1>6, DepositsSettled DEF left
<1>10. /\ escrow = DepositSum(request, OpenSet)
       /\ escrow' = (escrow - DepositSum(request, reaped)) + dep
    BY <1>1 DEF EscrowMatchesDeposits, DepositsOf, DepositSum, OpenSet
<1>11. escrow' = DepositSum(request', OpenSet')
    BY <1>3, <1>5, <1>8, <1>9, <1>10
<1> QED
    BY <1>11 DEF EscrowMatchesDeposits, DepositsOf, DepositSum, OpenSet, IsOpen

\* A guardian's answer, a suspension and a reinstatement move no money.
LEMMA UpdatesKeepEscrow ==
    ASSUME RecoveryInv, RecoveryInv', EscrowMatchesDeposits, UNCHANGED escrow,
           \A r \in Rids : ~IsOpen(r) => request'[r] = request[r],
           \A r \in Rids : IsOpen(r) =>
              \/ request'[r] = request[r]
              \/ \E g \in Dids : request'[r] = Approved(r, g)
              \/ \E rs \in SUBSET Dids : request'[r] = Rejected(r, rs)
              \/ request'[r] = Frozen(r)
              \/ request'[r] = Thawed(r)
    PROVE  EscrowMatchesDeposits'
<1> USE InvFacts
<1>1. request' \in [Rids -> Requests \cup {NoRequest}]
    BY DEF RecoveryInv, RecTyped
<1>2. ASSUME NEW r \in Rids, IsOpen(r)
      PROVE  request'[r] \in Requests /\ request'[r].deposit = request[r].deposit
    <2>1. request[r] \in Requests /\ epoch[r[1]] \in 0..MaxEpoch
        BY <1>2 DEF RecTyped
    <2>2. ASSUME NEW g \in Dids, request'[r] = Approved(r, g)
          PROVE  request'[r] \in Requests /\ request'[r].deposit = request[r].deposit
        BY <2>1, <2>2, ApprovedFields, SMTT(30)
    <2>3. ASSUME NEW rs \in SUBSET Dids, request'[r] = Rejected(r, rs)
          PROVE  request'[r] \in Requests /\ request'[r].deposit = request[r].deposit
        BY <2>1, <2>3, RejectedFields, SMTT(30)
    <2>4. CASE request'[r] = Frozen(r)
        BY <2>1, <2>4, FrozenFields
    <2>5. CASE request'[r] = Thawed(r)
        BY <2>1, <2>5, ThawedFields
    <2> QED
        BY <1>2, <2>1, <2>2, <2>3, <2>4, <2>5
<1>3. \A r \in Rids : ~IsOpen(r) => request'[r] = NoRequest
    BY DEF IsOpen
<1> QED
    BY <1>1, <1>2, <1>3, AnswersKeepEscrow

LEMMA EscrowStep ==
    ASSUME RecoveryInv, RecoveryInv', OpenUsesNonce, EscrowMatchesDeposits, [Next]_vars
    PROVE  EscrowMatchesDeposits'
<1> USE InvFacts
<1>1. ASSUME NEW d \in Subjects, NEW n \in Nonces, NEW c \in Accounts, NEW k \in Keys,
             NEW m \in {"SOCIAL", "REAUTH"}, InitiateRecovery(d, n, c, k, m)
      PROVE  EscrowMatchesDeposits'
    BY <1>1, InitiateKeepsEscrow
<1>2. ASSUME NEW o \in Rids, NEW g \in Dids, NEW s \in Salts, ApproveRecovery(o, g, s)
      PROVE  EscrowMatchesDeposits'
    <2>1. /\ IsOpen(o) /\ UNCHANGED escrow
          /\ request' = [request EXCEPT ![o] = Approved(o, g)]
        BY <1>2 DEF ApproveRecovery
    <2>2. \A r \in Rids : request'[r] = IF r = o THEN Approved(o, g) ELSE request[r]
        BY <2>1 DEF RecTyped
    <2> QED
        BY <2>1, <2>2, UpdatesKeepEscrow
<1>3. ASSUME NEW o \in Rids, NEW g \in Dids, NEW s \in Salts, RejectRecovery(o, g, s)
      PROVE  EscrowMatchesDeposits'
    <2> DEFINE rs == Synced(o).rejections \cup {g}
    <2>1. /\ IsOpen(o)
          /\ \/ Settle({o})
             \/ UNCHANGED escrow /\ request' = [request EXCEPT ![o] = Rejected(o, rs)]
        BY <1>3 DEF RejectRecovery
    <2>2. rs \in SUBSET Dids
        <3>0. epoch[o[1]] \in 0..MaxEpoch /\ request[o] \in Requests
            BY <2>1 DEF RecTyped
        <3>1. Synced(o) \in Requests
            BY <3>0 DEF Synced, Requests
        <3> QED
            BY <3>1 DEF Requests
    <2> HIDE DEF rs
    <2>3. CASE Settle({o})
        <3>1. {o} \in SUBSET OpenSet
            BY <2>1 DEF OpenSet
        <3> QED
            BY <2>3, <3>1, SettleKeepsEscrow
    <2>4. CASE UNCHANGED escrow /\ request' = [request EXCEPT ![o] = Rejected(o, rs)]
        <3>1. \A r \in Rids : request'[r] = IF r = o THEN Rejected(o, rs) ELSE request[r]
            BY <2>4 DEF RecTyped
        <3> QED
            BY <2>1, <2>2, <2>4, <3>1, UpdatesKeepEscrow
    <2> QED
        BY <2>1, <2>3, <2>4
<1>4. ASSUME NEW o \in Rids, CancelRecovery(o) PROVE EscrowMatchesDeposits'
    <2>1. Settle({o}) /\ {o} \in SUBSET OpenSet
        BY <1>4 DEF CancelRecovery, OpenSet
    <2> QED
        BY <2>1, SettleKeepsEscrow
<1>5. ASSUME NEW d \in Dids, Settle(RequestsForDID(d)) PROVE EscrowMatchesDeposits'
    <2>1. RequestsForDID(d) \in SUBSET OpenSet
        BY DEF RequestsForDID, OpenSet
    <2> QED
        BY <1>5, <2>1, SettleKeepsEscrow
<1>6. ASSUME NEW d \in Subjects, NEW st \in {"ACTIVE", "SUSPENDED"}, UpdateStatus(d, st)
      PROVE  EscrowMatchesDeposits'
    <2>1. /\ UNCHANGED escrow
          /\ \A r \in Rids : \/ request'[r] = request[r]
                             \/ /\ IsOpen(r)
                                /\ request'[r] = Frozen(r) \/ request'[r] = Thawed(r)
        BY <1>6 DEF UpdateStatus, RequestsForDID
    <2> QED
        BY <2>1, UpdatesKeepEscrow
<1>7. ASSUME NEW o \in Rids, ExecuteRecovery(o) PROVE EscrowMatchesDeposits'
    BY <1>5, <1>7 DEF ExecuteRecovery
<1>8. ASSUME NEW d \in Dids, NEW byGov, RevokeIdentity(d, byGov) PROVE EscrowMatchesDeposits'
    BY <1>5, <1>8 DEF RevokeIdentity
<1>9. ASSUME \/ \E d \in Dids, c \in Accounts : RegisterIdentity(d, c)
             \/ \E d \in Subjects, k \in Keys : RotateIdentityKey(d, k)
             \/ \E d \in Subjects, gs \in GuardianSets : SetGuardians(d, gs)
             \/ \E p \in ParamSets : UpdateParams(p)
             \/ NextBlock
             \/ UNCHANGED vars
      PROVE  EscrowMatchesDeposits'
    <2>1. UNCHANGED <<request, escrow>>
        BY <1>9 DEF RegisterIdentity, RotateIdentityKey, SetGuardians, UpdateParams, NextBlock,
                    vars, recVars
    <2> QED
        BY <2>1 DEF EscrowMatchesDeposits, DepositsOf, IsOpen
<1> QED
    BY <1>1, <1>2, <1>3, <1>4, <1>6, <1>7, <1>8, <1>9 DEF Next

\* However a request ends (executed, rejected, cancelled, reaped, superseded,
\* terminated with its DID), its deposit leaves the module account exactly
\* once, and no other deposit does.
THEOREM EscrowCorrect == Spec => []EscrowMatchesDeposits
<1>1. Init => EscrowMatchesDeposits
    <2> SUFFICES ASSUME Init PROVE EscrowMatchesDeposits
        OBVIOUS
    <2>1. OpenSet = {} /\ escrow = 0
        BY DEF Init, OpenSet, IsOpen
    <2>2. DepositSum(request, {}) = 0
        BY SumEmpty DEF DepositSum
    <2>3. escrow = DepositSum(request, OpenSet)
        BY <2>1, <2>2
    <2> QED
        BY <2>3 DEF EscrowMatchesDeposits, DepositsOf, DepositSum, OpenSet
<1>2. RecoveryInv /\ RecoveryInv' /\ OpenUsesNonce /\ EscrowMatchesDeposits /\ [Next]_vars
        => EscrowMatchesDeposits'
    BY EscrowStep
<1> QED
    BY RecoveryInvariance, OpenRequestsUsedTheirNonce, <1>1, <1>2, PTL DEF Spec

=============================================================================
