---------------------------- MODULE Eligibility ----------------------------
(***************************************************************************)
(* The identity registry of x/identity as the rest of the chain sees it:   *)
(* the DID documents and the three indexes keeper.SetIdentity derives from *)
(* them (controller -> DID, controller -> eligibility record, and the      *)
(* age-ordered record index), with the running total of controllers that   *)
(* hold a standing (non-revoked) DID.  x/governance freezes a quorum       *)
(* denominator from the total and the age index, and judges each ballot    *)
(* against the eligibility record.                                         *)
(*                                                                         *)
(* Each action is one way a message handler of x/identity calls            *)
(* SetIdentity; module Recovery models those handlers in full and is shown *)
(* to implement this specification.                                        *)
(***************************************************************************)
EXTENDS Integers, FiniteSets, FiniteSetsExt

CONSTANTS
    Dids,       \* DIDs that may be registered
    Accounts,   \* controller addresses
    NoAccount,  \* the controller of a DID that is not registered
    Genesis,    \* controller of each DID in the genesis file, or NoAccount
    MaxTime,    \* bound on the block time
    TailCap     \* MaxEligibilityTailScan: ceiling of one age-index scan

ASSUME DidsFinite == IsFiniteSet(Dids)
ASSUME AccountsFinite == IsFiniteSet(Accounts) /\ NoAccount \notin Accounts
ASSUME GenesisType == Genesis \in [Dids -> Accounts \cup {NoAccount}]
ASSUME TimeBound == MaxTime \in Nat \ {0}
ASSUME TailCapNat == TailCap \in Nat

VARIABLES
    now,         \* block time, in seconds
    status,      \* DIDDocument.Status; "NONE" when the DID is not stored
    controller,  \* DIDDocument.Controller
    createdAt,   \* DIDDocument.CreatedAt
    ctrlIndex,   \* controller -> DID secondary index, as a set of pairs
    elig         \* eligibility records, age index and total

registryVars == <<status, controller, createdAt, ctrlIndex, elig>>
eligVars == <<now, status, controller, createdAt, ctrlIndex, elig>>

Time == 1..MaxTime
Statuses == {"NONE", "ACTIVE", "SUSPENDED", "REVOKED"}

\* rec: controllers with a record; oldest and since: its two fields (0 when
\* there is no record); byAge: the age-ordered index; total: the counter.
EligState ==
    [rec    : SUBSET Accounts,
     oldest : [Accounts -> 0..MaxTime],
     since  : [Accounts -> 0..MaxTime],
     byAge  : SUBSET (Time \X Accounts),
     total  : Nat]

Registered(d) == status[d] # "NONE"

-----------------------------------------------------------------------------
(* keeper.SetIdentity and the indexes it maintains *)

\* Faulty Standing: revoked DIDs still count.
StandingWithRevoked(c, idx, st) ==
    {d \in Dids : <<c, d>> \in idx /\ st[d] # "NONE"}

\* The non-revoked DIDs the controller index lists under c.
Standing(c, idx, st) ==
    {d \in Dids : <<c, d>> \in idx /\ st[d] \notin {"NONE", "REVOKED"}}

\* Faulty Refresh: standing is stamped with the age of the DID it rests on.
RefreshBackdated(e, c, held, created, t) ==
    IF held = {} THEN
        [e EXCEPT !.rec = @ \ {c}, !.oldest[c] = 0, !.since[c] = 0,
                  !.byAge = {b \in @ : b[2] # c},
                  !.total = IF c \in e.rec THEN @ - 1 ELSE @]
    ELSE LET old == Min({created[d] : d \in held})
         IN  [e EXCEPT !.rec = @ \cup {c}, !.oldest[c] = old,
                       !.since[c] = old,
                       !.byAge = {b \in @ : b[2] # c} \cup {<<old, c>>},
                       !.total = IF c \in e.rec THEN @ ELSE @ + 1]

\* refreshControllerEligibility: reconcile c's record with the DIDs it holds.
\* A record made or improved (an older DID gained) is stamped with the block
\* time t; one that got worse keeps its stamp.
Refresh(e, c, held, created, t) ==
    LET has == held # {}
        old == Min({created[d] : d \in held})
        was == <<e.oldest[c], c>>
    IN  IF c \in e.rec /\ ~has THEN
               [rec    |-> e.rec \ {c},
                oldest |-> [e.oldest EXCEPT ![c] = 0],
                since  |-> [e.since EXCEPT ![c] = 0],
                byAge  |-> e.byAge \ {was},
                total  |-> e.total - 1]
        ELSE IF c \notin e.rec /\ has THEN
               [rec    |-> e.rec \cup {c},
                oldest |-> [e.oldest EXCEPT ![c] = old],
                since  |-> [e.since EXCEPT ![c] = t],
                byAge  |-> e.byAge \cup {<<old, c>>},
                total  |-> e.total + 1]
        ELSE IF c \in e.rec /\ has /\ old # e.oldest[c] THEN
               [rec    |-> e.rec,
                oldest |-> [e.oldest EXCEPT ![c] = old],
                since  |-> [e.since EXCEPT ![c] =
                              IF old < e.oldest[c] THEN t ELSE @],
                byAge  |-> (e.byAge \ {was}) \cup {<<old, c>>},
                total  |-> e.total]
        ELSE e

\* SetIdentity: store the document, move its index entry when the controller
\* changed, then refresh the new controller and, if it differs, the old one.
SetIdentity(d, st, c, created) ==
    LET prev  == controller[d]
        moved == Registered(d) /\ prev # c
        idx   == (IF moved THEN ctrlIndex \ {<<prev, d>>} ELSE ctrlIndex)
                   \cup {<<c, d>>}
        sts   == [status EXCEPT ![d] = st]
        crs   == [createdAt EXCEPT ![d] = created]
        fresh == Refresh(elig, c, Standing(c, idx, sts), crs, now)
    IN  /\ status' = sts
        /\ controller' = [controller EXCEPT ![d] = c]
        /\ createdAt' = crs
        /\ ctrlIndex' = idx
        /\ elig' = IF moved
                   THEN Refresh(fresh, prev, Standing(prev, idx, sts), crs, now)
                   ELSE fresh

-----------------------------------------------------------------------------
(* What governance reads *)

\* Faulty TailCount: controllers exactly old enough are left out as well.
TailCountInclusive(cutoff) ==
    LET tail == Cardinality({e \in elig.byAge : e[1] >= cutoff})
    IN  IF tail > TailCap THEN TailCap ELSE tail

\* countEligibleNewerThanCapped: entries of the age index newer than the
\* cutoff, counted from the newest down and cut off at TailCap.
TailCount(cutoff) ==
    LET tail == Cardinality({e \in elig.byAge : e[1] > cutoff})
    IN  IF tail > TailCap THEN TailCap ELSE tail

\* CountEligibleControllersAt: the total less the tail too young to vote.
CountEligibleControllersAt(cutoff) ==
    IF TailCount(cutoff) > elig.total THEN elig.total
    ELSE elig.total - TailCount(cutoff)

\* Faulty IsEligibleControllerSince: standing gained after the freeze counts.
IsEligibleControllerAnyTime(c, cutoff, since) ==
    c \in elig.rec /\ elig.oldest[c] <= cutoff

\* IsEligibleControllerSince: c's oldest standing DID is old enough and its
\* standing did not begin or improve after the basis was frozen.
IsEligibleControllerSince(c, cutoff, since) ==
    /\ c \in elig.rec
    /\ elig.oldest[c] <= cutoff
    /\ since = 0 \/ elig.since[c] <= since

\* HasNonActiveDID: the ante's IdentityStatusGuard refuses a transaction of
\* an account that controls any DID that is not ACTIVE.
CanTransact(a) ==
    ~ \E d \in Dids : <<a, d>> \in ctrlIndex /\ status[d] \in {"SUSPENDED", "REVOKED"}

\* The controllers the denominator is meant to count: those with a standing
\* DID created at or before the cutoff, read from the documents themselves.
EligibleControllers(cutoff) ==
    {c \in Accounts : \E d \in Dids :
        /\ controller[d] = c
        /\ status[d] \in {"ACTIVE", "SUSPENDED"}
        /\ createdAt[d] <= cutoff}

-----------------------------------------------------------------------------
\* InitGenesis: every identity of the genesis file goes through SetIdentity.
EligInit ==
    LET held == {Genesis[d] : d \in Dids} \cap Accounts
        stamp == [c \in Accounts |-> IF c \in held THEN 1 ELSE 0]
    IN  /\ now = 1
        /\ status = [d \in Dids |-> IF Genesis[d] = NoAccount THEN "NONE" ELSE "ACTIVE"]
        /\ controller = Genesis
        /\ createdAt = [d \in Dids |-> IF Genesis[d] = NoAccount THEN 0 ELSE 1]
        /\ ctrlIndex = {e \in Accounts \X Dids : Genesis[e[2]] = e[1]}
        /\ elig = [rec |-> held, oldest |-> stamp, since |-> stamp,
                   byAge |-> {<<1, c>> : c \in held}, total |-> Cardinality(held)]

\* RegisterIdentity stores a fresh ACTIVE document created now.
RegisterDoc(d, c) ==
    /\ ~Registered(d)
    /\ SetIdentity(d, "ACTIVE", c, now)
    /\ UNCHANGED now

\* RevokeIdentity: terminal.
RevokeDoc(d) ==
    /\ status[d] \in {"ACTIVE", "SUSPENDED"}
    /\ SetIdentity(d, "REVOKED", controller[d], createdAt[d])
    /\ UNCHANGED now

\* UpdateStatus: ACTIVE <-> SUSPENDED.
ChangeStatusDoc(d, st) ==
    /\ st \in {"ACTIVE", "SUSPENDED"}
    /\ status[d] \in {"ACTIVE", "SUSPENDED"} \ {st}
    /\ SetIdentity(d, st, controller[d], createdAt[d])
    /\ UNCHANGED now

\* ExecuteRecovery moves an ACTIVE DID to another controller; its age stays.
MoveDoc(d, c) ==
    /\ status[d] = "ACTIVE"
    /\ SetIdentity(d, "ACTIVE", c, createdAt[d])
    /\ UNCHANGED now

\* A later block.
Tick ==
    /\ now < MaxTime
    /\ now' \in (now + 1)..MaxTime
    /\ UNCHANGED registryVars

EligNext ==
    \/ \E d \in Dids, c \in Accounts : RegisterDoc(d, c)
    \/ \E d \in Dids : RevokeDoc(d)
    \/ \E d \in Dids, st \in {"ACTIVE", "SUSPENDED"} : ChangeStatusDoc(d, st)
    \/ \E d \in Dids, c \in Accounts : MoveDoc(d, c)
    \/ Tick

EligSpec == EligInit /\ [][EligNext]_eligVars

-----------------------------------------------------------------------------
(* Properties *)

\* The registry's state stays in its types: the total never goes negative
\* (uint64 underflow at keeper.go:278) and stamps are block times.
EligTypeOK ==
    /\ now \in Time
    /\ status \in [Dids -> Statuses]
    /\ controller \in [Dids -> Accounts \cup {NoAccount}]
    /\ createdAt \in [Dids -> 0..MaxTime]
    /\ ctrlIndex \subseteq Accounts \X Dids
    /\ elig \in EligState

\* The controller index lists exactly the stored documents under the
\* controller each one names: SetIdentity leaves no stale entry behind.
IndexExact ==
    ctrlIndex = {e \in Accounts \X Dids :
                    Registered(e[2]) /\ controller[e[2]] = e[1]}

\* The DIDs that give c its standing, read from the documents.
StandingDids(c) ==
    {d \in Dids : controller[d] = c /\ status[d] \in {"ACTIVE", "SUSPENDED"}}

\* The eligibility records, the age index and the running total agree with
\* the documents after every SetIdentity: one record per controller with a
\* standing DID, carrying the creation time of the oldest of them.
EligibilityExact ==
    /\ elig.rec = {c \in Accounts : StandingDids(c) # {}}
    /\ \A c \in elig.rec :
          /\ \E d \in StandingDids(c) : createdAt[d] = elig.oldest[c]
          /\ \A d \in StandingDids(c) : elig.oldest[c] <= createdAt[d]
    /\ elig.byAge = {<<elig.oldest[c], c>> : c \in elig.rec}
    /\ elig.total = Cardinality(elig.rec)

\* The quorum denominator, computed as total minus tail, is the number of
\* distinct controllers with a standing DID old enough at the cutoff; when
\* the tail scan is truncated it can only be an over-estimate.
DenominatorExact ==
    \A cutoff \in 0..MaxTime :
        LET exact == Cardinality(EligibleControllers(cutoff))
            young == Cardinality({e \in elig.byAge : e[1] > cutoff})
        IN  /\ CountEligibleControllersAt(cutoff) >= exact
            /\ young <= TailCap => CountEligibleControllersAt(cutoff) = exact

\* A controller that enters the eligible set of any cutoff, other than by a
\* cutoff moving, is stamped with the block time of the step that let it in:
\* standing gained by registration or by recovery is never backdated.
GainIsStamped ==
    [][\A c \in Accounts, cutoff \in 0..MaxTime :
          (c \notin EligibleControllers(cutoff) /\ c \in EligibleControllers(cutoff)')
             => elig'.since[c] = now]_eligVars
=============================================================================
