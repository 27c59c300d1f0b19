------------------------- MODULE EligibilityProofs -------------------------
(***************************************************************************)
(* Proofs about module Eligibility, for any number of DIDs, accounts and   *)
(* block times: the derived indexes that SetIdentity maintains step by     *)
(* step always agree with the documents they are derived from, so the      *)
(* quorum denominator governance reads off them counts what it should.     *)
(***************************************************************************)
EXTENDS Eligibility, CountingProofs

\* The time the provers get for a step, in seconds.
USE SMTT(30), ZenonT(30)

\* A stored document names an account and carries a block time.
DocsWellFormed ==
    \A d \in Dids : Registered(d) =>
        controller[d] \in Accounts /\ createdAt[d] \in Time

\* The age index and the total follow from the records.
Aggregates(e) ==
    /\ e.byAge = {<<e.oldest[c], c>> : c \in e.rec}
    /\ e.total = Cardinality(e.rec)

\* c's record is the one its standing DIDs call for.
RecordExact(e, c, held, created) ==
    /\ c \in e.rec <=> held # {}
    /\ held # {} => /\ \E d \in held : created[d] = e.oldest[c]
                    /\ \A d \in held : e.oldest[c] <= created[d]

\* b's record is the same in e and f.
SameRecord(e, f, b) ==
    /\ b \in f.rec <=> b \in e.rec
    /\ f.oldest[b] = e.oldest[b]
    /\ f.since[b] = e.since[b]

\* A record of b made or improved between e and f is stamped t; any other
\* record keeps its stamp.
Stamped(e, f, b, t) ==
    b \in f.rec =>
        f.since[b] = IF b \notin e.rec \/ f.oldest[b] < e.oldest[b] THEN t ELSE e.since[b]

\* The inductive invariant.
RegistryInv ==
    /\ EligTypeOK
    /\ DocsWellFormed
    /\ IndexExact
    /\ Aggregates(elig)
    /\ \A c \in Accounts : RecordExact(elig, c, StandingDids(c), createdAt)

-----------------------------------------------------------------------------
(* Lemmas on the operators *)

\* refreshControllerEligibility makes c's record exact, leaves every other
\* record alone, keeps the age index and the total in step, and stamps a
\* record it makes or improves.
LEMMA RefreshExact ==
    ASSUME NEW e \in EligState, Aggregates(e),
           NEW c \in Accounts, NEW held \in SUBSET Dids,
           NEW created \in [Dids -> 0..MaxTime], \A d \in held : created[d] \in Time,
           NEW t \in Time
    PROVE  LET f == Refresh(e, c, held, created, t)
           IN  /\ f \in EligState
               /\ Aggregates(f)
               /\ RecordExact(f, c, held, created)
               /\ \A b \in Accounts \ {c} : SameRecord(e, f, b)
               /\ Stamped(e, f, c, t)
<1> DEFINE f == Refresh(e, c, held, created, t)
           old == Min({created[d] : d \in held})
           was == <<e.oldest[c], c>>
<1>1. IsFiniteSet(e.rec) /\ e.rec \subseteq Accounts
    BY AccountsFinite, FS_Subset DEF EligState
<1>2. ASSUME held # {}
      PROVE  /\ old \in Time
             /\ \E d \in held : created[d] = old
             /\ \A d \in held : old <= created[d]
    <2> DEFINE S == {created[d] : d \in held}
    <2>1. S \in SUBSET Nat /\ S # {}
        BY <1>2, TimeBound DEF Time
    <2>2. Min(S) \in S /\ \A y \in S : Min(S) <= y
        BY Zenon, <2>1, MinIsLeast
    <2> QED
        BY Zenon, <2>2
<1> HIDE DEF old
<1>3. CASE c \in e.rec /\ held = {}
    <2>1. f = [rec    |-> e.rec \ {c},
               oldest |-> [e.oldest EXCEPT ![c] = 0],
               since  |-> [e.since EXCEPT ![c] = 0],
               byAge  |-> e.byAge \ {was},
               total  |-> e.total - 1]
        BY <1>3 DEF Refresh
    <2>2. Cardinality(e.rec \ {c}) = Cardinality(e.rec) - 1
          /\ Cardinality(e.rec \ {c}) \in Nat
        BY <1>1, <1>3, FS_RemoveElement, FS_CardinalityType
    <2>3. f \in EligState /\ f.total = Cardinality(f.rec)
        BY <2>1, <2>2, TimeBound DEF EligState, Aggregates, Time
    <2>4. f.byAge = {<<f.oldest[b], b>> : b \in f.rec}
        BY <2>1, <1>1, <1>3 DEF EligState, Aggregates
    <2>5. \A b \in Accounts \ {c} : SameRecord(e, f, b)
        BY <2>1 DEF SameRecord, EligState
    <2> QED
        BY <2>1, <2>3, <2>4, <2>5, <1>3 DEF Aggregates, RecordExact, Stamped
<1>4. CASE c \notin e.rec /\ held # {}
    <2>1. f = [rec    |-> e.rec \cup {c},
               oldest |-> [e.oldest EXCEPT ![c] = old],
               since  |-> [e.since EXCEPT ![c] = t],
               byAge  |-> e.byAge \cup {<<old, c>>},
               total  |-> e.total + 1]
        BY <1>4 DEF Refresh, old
    <2>2. Cardinality(e.rec \cup {c}) = Cardinality(e.rec) + 1
          /\ Cardinality(e.rec \cup {c}) \in Nat
        BY <1>1, <1>4, FS_AddElement, FS_CardinalityType
    <2>3. f \in EligState /\ f.total = Cardinality(f.rec)
        BY <2>1, <2>2, <1>2, <1>4, TimeBound DEF EligState, Aggregates, Time
    <2>4. f.byAge = {<<f.oldest[b], b>> : b \in f.rec}
        BY <2>1, <1>1, <1>4 DEF EligState, Aggregates
    <2>5. \A b \in Accounts \ {c} : SameRecord(e, f, b)
        BY <2>1 DEF SameRecord, EligState
    <2>6. f.oldest[c] = old /\ c \in f.rec /\ f.since[c] = t
        BY <2>1 DEF EligState
    <2> QED
        BY <2>3, <2>4, <2>5, <2>6, <1>2, <1>4 DEF Aggregates, RecordExact, Stamped
<1>5. CASE c \in e.rec /\ held # {} /\ old # e.oldest[c]
    <2>1. f = [rec    |-> e.rec,
               oldest |-> [e.oldest EXCEPT ![c] = old],
               since  |-> [e.since EXCEPT ![c] =
                             IF old < e.oldest[c] THEN t ELSE @],
               byAge  |-> (e.byAge \ {was}) \cup {<<old, c>>},
               total  |-> e.total]
        BY <1>5 DEF Refresh, old
    <2>3. f \in EligState /\ f.total = Cardinality(f.rec)
        BY <2>1, <1>2, <1>5, TimeBound DEF EligState, Aggregates, Time
    <2>4. f.byAge = {<<f.oldest[b], b>> : b \in f.rec}
        BY <2>1, <1>1, <1>5 DEF EligState, Aggregates
    <2>5. \A b \in Accounts \ {c} : SameRecord(e, f, b)
        BY <2>1 DEF SameRecord, EligState
    <2>6. /\ f.oldest[c] = old /\ c \in f.rec
          /\ f.since[c] = IF old < e.oldest[c] THEN t ELSE e.since[c]
        BY <2>1, <1>5 DEF EligState
    <2> QED
        BY <2>3, <2>4, <2>5, <2>6, <1>2, <1>5 DEF Aggregates, RecordExact, Stamped
<1>6. CASE \/ c \notin e.rec /\ held = {}
           \/ c \in e.rec /\ held # {} /\ old = e.oldest[c]
    <2>1. f = e
        BY <1>6 DEF Refresh, old
    <2> QED
        <3>1. e.oldest[c] \in Int
            BY TimeBound DEF EligState
        <3> QED
            BY <2>1, <1>2, <1>6, <3>1 DEF Aggregates, RecordExact, SameRecord, Stamped
<1> QED
    BY <1>3, <1>4, <1>5, <1>6

\* SetIdentity preserves the inductive invariant, and stamps every record it
\* makes or improves with the block time.
LEMMA SetIdentityStep ==
    ASSUME RegistryInv, now' \in Time,
           NEW d \in Dids, NEW st \in {"ACTIVE", "SUSPENDED", "REVOKED"},
           NEW c \in Accounts, NEW cr \in Time,
           SetIdentity(d, st, c, cr)
    PROVE  /\ RegistryInv'
           /\ \A b \in Accounts : Stamped(elig, elig', b, now)
<1>0. PICK prev : prev = controller[d]
    OBVIOUS
<1> DEFINE moved == Registered(d) /\ prev # c
           fresh == Refresh(elig, c, Standing(c, ctrlIndex', status'), createdAt', now)
<1>1. /\ status' = [status EXCEPT ![d] = st]
      /\ controller' = [controller EXCEPT ![d] = c]
      /\ createdAt' = [createdAt EXCEPT ![d] = cr]
      /\ ctrlIndex' = (IF moved THEN ctrlIndex \ {<<prev, d>>} ELSE ctrlIndex)
                        \cup {<<c, d>>}
      /\ elig' = IF moved
                 THEN Refresh(fresh, prev, Standing(prev, ctrlIndex', status'),
                              createdAt', now)
                 ELSE fresh
    BY <1>0 DEF SetIdentity
<1> HIDE DEF fresh
<1>2. /\ status' \in [Dids -> Statuses]
      /\ controller' \in [Dids -> Accounts \cup {NoAccount}]
      /\ createdAt' \in [Dids -> 0..MaxTime]
      /\ ctrlIndex' \subseteq Accounts \X Dids
    BY <1>1, TimeBound DEF RegistryInv, EligTypeOK, Statuses, Time
<1>3. DocsWellFormed'
    BY <1>0, <1>1 DEF RegistryInv, EligTypeOK, DocsWellFormed, Registered
<1>4. IndexExact'
    BY <1>0, <1>1, <1>2 DEF RegistryInv, EligTypeOK, DocsWellFormed, IndexExact, Registered
<1>5. \A b \in Accounts : Standing(b, ctrlIndex', status') = StandingDids(b)'
    BY <1>2, <1>4 DEF IndexExact, Standing, StandingDids, Registered, Statuses
<1>6. \A b \in Accounts : \A x \in StandingDids(b)' : createdAt'[x] \in Time
    BY <1>3 DEF DocsWellFormed, StandingDids, Registered
<1>7. \A b \in Accounts : StandingDids(b)' \in SUBSET Dids
    BY DEF StandingDids
<1>8. ASSUME NEW b \in Accounts, b # c, ~moved \/ b # prev
      PROVE  /\ StandingDids(b)' = StandingDids(b)
             /\ \A x \in StandingDids(b) : createdAt'[x] = createdAt[x]
    BY <1>0, <1>1, <1>8 DEF RegistryInv, EligTypeOK, StandingDids, Registered
<1>9. \A b \in Accounts : b # c /\ (~moved \/ b # prev) =>
          RecordExact(elig, b, StandingDids(b)', createdAt')
    BY <1>8 DEF RegistryInv, RecordExact
<1>10. /\ fresh \in EligState
       /\ Aggregates(fresh)
       /\ RecordExact(fresh, c, StandingDids(c)', createdAt')
       /\ \A b \in Accounts \ {c} : SameRecord(elig, fresh, b)
       /\ Stamped(elig, fresh, c, now)
    BY Zenon, <1>2, <1>5, <1>6, <1>7, RefreshExact DEF RegistryInv, EligTypeOK, fresh
<1>11. \A b \in Accounts : b # c => Stamped(elig, fresh, b, now)
    BY <1>10 DEF SameRecord, Stamped, RegistryInv, EligTypeOK, EligState
<1>12. CASE ~moved
    <2>1. elig' = fresh
        BY <1>1, <1>12
    <2>2. \A b \in Accounts : RecordExact(elig', b, StandingDids(b)', createdAt')
        BY <2>1, <1>9, <1>10, <1>12 DEF RecordExact, SameRecord
    <2> QED
        BY <2>1, <2>2, <1>2, <1>3, <1>4, <1>10, <1>11 DEF RegistryInv, EligTypeOK
<1>13. CASE moved
    <2>1. prev \in Accounts /\ prev # c
        BY <1>0, <1>13 DEF RegistryInv, DocsWellFormed
    <2>2. elig' = Refresh(fresh, prev, StandingDids(prev)', createdAt', now)
        BY Zenon, <1>1, <1>5, <1>13, <2>1
    <2>3. now \in Time
        BY DEF RegistryInv, EligTypeOK
    <2>4. /\ elig' \in EligState
          /\ Aggregates(elig')
          /\ RecordExact(elig', prev, StandingDids(prev)', createdAt')
          /\ \A b \in Accounts \ {prev} : SameRecord(fresh, elig', b)
          /\ Stamped(fresh, elig', prev, now)
        BY Zenon, <1>2, <1>6, <1>7, <1>10, <2>1, <2>2, <2>3, RefreshExact
    <2>5. \A b \in Accounts : RecordExact(elig', b, StandingDids(b)', createdAt')
        BY <2>1, <2>4, <1>9, <1>10 DEF RecordExact, SameRecord
    <2>6. \A b \in Accounts : Stamped(elig, elig', b, now)
        BY <2>1, <2>4, <1>10, <1>11 DEF Stamped, SameRecord
    <2> QED
        BY <2>4, <2>5, <2>6, <1>2, <1>3, <1>4 DEF RegistryInv, EligTypeOK
<1> QED
    BY <1>12, <1>13

-----------------------------------------------------------------------------
(* The inductive invariant holds, and every step stamps what it lets in *)

\* The genesis replay of InitGenesis establishes the inductive invariant.
LEMMA InitInv == EligInit => RegistryInv
<1> SUFFICES ASSUME EligInit PROVE RegistryInv
    OBVIOUS
<1> DEFINE held == {Genesis[d] : d \in Dids} \cap Accounts
           stamp == [c \in Accounts |-> IF c \in held THEN 1 ELSE 0]
<1>1. /\ now = 1
      /\ status = [d \in Dids |-> IF Genesis[d] = NoAccount THEN "NONE" ELSE "ACTIVE"]
      /\ controller = Genesis
      /\ createdAt = [d \in Dids |-> IF Genesis[d] = NoAccount THEN 0 ELSE 1]
      /\ ctrlIndex = {e \in Accounts \X Dids : Genesis[e[2]] = e[1]}
      /\ elig = [rec |-> held, oldest |-> stamp, since |-> stamp,
                 byAge |-> {<<1, c>> : c \in held}, total |-> Cardinality(held)]
    BY DEF EligInit
<1>2. held \subseteq Accounts /\ IsFiniteSet(held) /\ Cardinality(held) \in Nat
    BY AccountsFinite, FS_Subset, FS_CardinalityType
<1>3. \A c \in Accounts : c \in held <=> \E d \in Dids : Genesis[d] = c
    OBVIOUS
<1> HIDE DEF held
<1>4. EligTypeOK
    BY <1>1, <1>2, GenesisType, TimeBound DEF EligTypeOK, EligState, Time, Statuses
<1>5. DocsWellFormed
    BY <1>1, GenesisType, TimeBound DEF DocsWellFormed, Registered, Time
<1>6. IndexExact
    BY <1>1, AccountsFinite DEF IndexExact, Registered
<1>7. Aggregates(elig)
    BY <1>1, <1>2 DEF Aggregates
<1>8. ASSUME NEW c \in Accounts
      PROVE  RecordExact(elig, c, StandingDids(c), createdAt)
    <2>1. StandingDids(c) = {d \in Dids : Genesis[d] = c}
        BY <1>1, AccountsFinite DEF StandingDids
    <2>2. \A d \in StandingDids(c) : createdAt[d] = 1
        BY <1>1, <2>1, AccountsFinite
    <2>3. elig.rec = held /\ (c \in held => elig.oldest[c] = 1)
        BY <1>1
    <2> QED
        BY <1>3, <2>1, <2>2, <2>3 DEF RecordExact
<1> QED
    BY <1>4, <1>5, <1>6, <1>7, <1>8 DEF RegistryInv

\* Every registry step preserves the inductive invariant and stamps the
\* records it makes or improves.
LEMMA NextInv ==
    ASSUME RegistryInv, [EligNext]_eligVars
    PROVE  /\ RegistryInv'
           /\ \A b \in Accounts : Stamped(elig, elig', b, now)
<1>0. elig \in EligState /\ now \in Time
    BY DEF RegistryInv, EligTypeOK
<1>1. ASSUME NEW d \in Dids, NEW c \in Accounts, RegisterDoc(d, c)
      PROVE  RegistryInv' /\ \A b \in Accounts : Stamped(elig, elig', b, now)
    BY <1>0, <1>1, SetIdentityStep DEF RegisterDoc
<1>2. ASSUME NEW d \in Dids, RevokeDoc(d)
      PROVE  RegistryInv' /\ \A b \in Accounts : Stamped(elig, elig', b, now)
    <2>1. controller[d] \in Accounts /\ createdAt[d] \in Time
        BY <1>2 DEF RevokeDoc, RegistryInv, DocsWellFormed, Registered
    <2> QED
        BY <1>0, <1>2, <2>1, SetIdentityStep DEF RevokeDoc
<1>3. ASSUME NEW d \in Dids, NEW st \in {"ACTIVE", "SUSPENDED"}, ChangeStatusDoc(d, st)
      PROVE  RegistryInv' /\ \A b \in Accounts : Stamped(elig, elig', b, now)
    <2>1. controller[d] \in Accounts /\ createdAt[d] \in Time
        BY <1>3 DEF ChangeStatusDoc, RegistryInv, DocsWellFormed, Registered
    <2> QED
        BY <1>0, <1>3, <2>1, SetIdentityStep DEF ChangeStatusDoc
<1>4. ASSUME NEW d \in Dids, NEW c \in Accounts, MoveDoc(d, c)
      PROVE  RegistryInv' /\ \A b \in Accounts : Stamped(elig, elig', b, now)
    <2>1. createdAt[d] \in Time
        BY <1>4 DEF MoveDoc, RegistryInv, DocsWellFormed, Registered
    <2> QED
        BY <1>0, <1>4, <2>1, SetIdentityStep DEF MoveDoc
<1>5. ASSUME Tick \/ UNCHANGED eligVars
      PROVE  RegistryInv' /\ \A b \in Accounts : Stamped(elig, elig', b, now)
    <2>1. UNCHANGED registryVars /\ now' \in Time
        BY <1>0, <1>5, TimeBound DEF Tick, registryVars, eligVars, Time
    <2>2. UNCHANGED <<status, controller, createdAt, ctrlIndex, elig>>
        BY <2>1 DEF registryVars
    <2>3. EligTypeOK' /\ DocsWellFormed' /\ IndexExact' /\ Aggregates(elig')
        BY <2>1, <2>2 DEF RegistryInv, EligTypeOK, DocsWellFormed, IndexExact, Registered
    <2>4. \A c \in Accounts : RecordExact(elig', c, StandingDids(c)', createdAt')
        BY <2>2 DEF RegistryInv, StandingDids
    <2>5. \A b \in Accounts : Stamped(elig, elig', b, now)
        BY <1>0, <2>2, TimeBound DEF Stamped, EligState
    <2> QED
        BY <2>3, <2>4, <2>5 DEF RegistryInv
<1> QED
    BY <1>1, <1>2, <1>3, <1>4, <1>5 DEF EligNext

\* The controller index, eligibility records, age index and total that
\* SetIdentity maintains agree with the documents in every reachable state.
THEOREM RegistryInvariance == EligSpec => []RegistryInv
<1>1. RegistryInv /\ [EligNext]_eligVars => RegistryInv'
    BY NextInv
<1> QED
    BY InitInv, <1>1, PTL DEF EligSpec

\* Type correctness of the registry, the non-negative total included.
THEOREM TypeCorrect == EligSpec => []EligTypeOK
<1>1. RegistryInv => EligTypeOK
    BY DEF RegistryInv
<1> QED
    BY RegistryInvariance, <1>1, PTL

\* SetIdentity leaves no stale entry in the controller index.
THEOREM IndexCorrect == EligSpec => []IndexExact
<1>1. RegistryInv => IndexExact
    BY DEF RegistryInv
<1> QED
    BY RegistryInvariance, <1>1, PTL

\* The eligibility records, the age index and the total of
\* refreshControllerEligibility agree with the documents at all times.
THEOREM EligibilityCorrect == EligSpec => []EligibilityExact
<1>1. RegistryInv => EligibilityExact
    BY DEF RegistryInv, EligTypeOK, EligState, Aggregates, RecordExact, EligibilityExact
<1> QED
    BY RegistryInvariance, <1>1, PTL

-----------------------------------------------------------------------------
(* What governance reads off the indexes *)

\* The controllers a cutoff admits are those whose record is old enough.
LEMMA EligibleByRecord ==
    ASSUME RegistryInv, NEW cutoff \in Int
    PROVE  EligibleControllers(cutoff) = {c \in elig.rec : elig.oldest[c] <= cutoff}
<1>1. \A c \in Accounts : c \in EligibleControllers(cutoff)
                            <=> \E d \in StandingDids(c) : createdAt[d] <= cutoff
    BY DEF EligibleControllers, StandingDids
<1>2. elig.rec \subseteq Accounts /\ \A c \in Accounts : elig.oldest[c] \in Int
    BY TimeBound DEF RegistryInv, EligTypeOK, EligState
<1>3. \A d \in Dids : createdAt[d] \in Int
    BY TimeBound DEF RegistryInv, EligTypeOK
<1>4. \A c \in Accounts : StandingDids(c) \subseteq Dids
    BY DEF StandingDids
<1>5. \A c \in Accounts : RecordExact(elig, c, StandingDids(c), createdAt)
    BY DEF RegistryInv
<1>6. ASSUME NEW c \in Accounts
      PROVE  (\E d \in StandingDids(c) : createdAt[d] <= cutoff)
                <=> c \in elig.rec /\ elig.oldest[c] <= cutoff
    BY <1>2, <1>3, <1>4, <1>5, TimeBound DEF RecordExact
<1>7. EligibleControllers(cutoff) \subseteq Accounts
    BY DEF EligibleControllers
<1> QED
    BY <1>1, <1>2, <1>6, <1>7

\* CountEligibleControllersAt counts the controllers with a standing DID old
\* enough, and only over-estimates when its tail scan is cut off.
THEOREM DenominatorCorrect == EligSpec => []DenominatorExact
<1>1. ASSUME RegistryInv PROVE DenominatorExact
    <2> SUFFICES ASSUME NEW cutoff \in 0..MaxTime
                 PROVE  LET exact == Cardinality(EligibleControllers(cutoff))
                            young == Cardinality({e \in elig.byAge : e[1] > cutoff})
                        IN  /\ CountEligibleControllersAt(cutoff) >= exact
                            /\ young <= TailCap => CountEligibleControllersAt(cutoff) = exact
        BY DEF DenominatorExact
    <2> DEFINE E == EligibleControllers(cutoff)
               Y == {c \in elig.rec : elig.oldest[c] > cutoff}
               T == {e \in elig.byAge : e[1] > cutoff}
               f == [c \in Y |-> <<elig.oldest[c], c>>]
    <2>1. /\ IsFiniteSet(elig.rec) /\ elig.rec \subseteq Accounts
          /\ \A c \in elig.rec : elig.oldest[c] \in Int
          /\ elig.total = Cardinality(elig.rec)
          /\ elig.byAge = {<<elig.oldest[c], c>> : c \in elig.rec}
        BY <1>1, AccountsFinite, TimeBound, FS_Subset
           DEF RegistryInv, EligTypeOK, EligState, Aggregates
    <2>2. E = {c \in elig.rec : elig.oldest[c] <= cutoff}
        BY <1>1, EligibleByRecord
    <2>3. E = elig.rec \ Y /\ Y = elig.rec \cap Y
        BY <2>1, <2>2, TimeBound
    <2> HIDE DEF E, Y, T, f
    <2>4. IsFiniteSet(Y) /\ IsFiniteSet(E)
        BY <2>1, <2>3, FS_Difference, FS_Subset
    <2>5. Cardinality(E) = Cardinality(elig.rec) - Cardinality(Y)
        <3>1. Cardinality(elig.rec \ Y) = Cardinality(elig.rec) - Cardinality(elig.rec \cap Y)
            BY <2>1, FS_Difference, Zenon
        <3> QED
            BY <2>3, <3>1, Zenon
    <2>6. f \in Bijection(Y, T)
        BY <2>1, TimeBound DEF Bijection, Injection, Surjection, IsInjective, Y, T, f
    <2>7. Cardinality(T) = Cardinality(Y)
        BY <2>4, <2>6, FS_Bijection DEF ExistsBijection
    <2>8. /\ Cardinality(E) \in Nat /\ Cardinality(Y) \in Nat
          /\ Cardinality(elig.rec) \in Nat
        BY <2>1, <2>4, FS_CardinalityType
    <2>9. /\ TailCount(cutoff) = IF Cardinality(T) > TailCap THEN TailCap ELSE Cardinality(T)
          /\ CountEligibleControllersAt(cutoff) =
                IF TailCount(cutoff) > elig.total THEN elig.total
                ELSE elig.total - TailCount(cutoff)
        BY DEF TailCount, CountEligibleControllersAt, T
    <2>10. /\ CountEligibleControllersAt(cutoff) >= Cardinality(E)
           /\ Cardinality(T) <= TailCap => CountEligibleControllersAt(cutoff) = Cardinality(E)
        BY <2>1, <2>5, <2>7, <2>8, <2>9, TailCapNat
    <2> QED
        BY <2>10 DEF E, T
<1> QED
    BY RegistryInvariance, <1>1, PTL

\* Standing gained by registration or recovery is never backdated.
THEOREM GainStamped == EligSpec => GainIsStamped
<1>0. RegistryInv => \A c \in Accounts, cutoff \in 0..MaxTime :
         c \in EligibleControllers(cutoff) <=> c \in elig.rec /\ elig.oldest[c] <= cutoff
    BY EligibleByRecord
<1>2. (RegistryInv => \A c \in Accounts, cutoff \in 0..MaxTime :
         c \in EligibleControllers(cutoff) <=> c \in elig.rec /\ elig.oldest[c] <= cutoff)'
    BY <1>0, PTL
<1>1. ASSUME RegistryInv, [EligNext]_eligVars
      PROVE  [\A c \in Accounts, cutoff \in 0..MaxTime :
                (c \notin EligibleControllers(cutoff) /\ c \in EligibleControllers(cutoff)')
                   => elig'.since[c] = now]_eligVars
    <2> SUFFICES ASSUME NEW c \in Accounts, NEW cutoff \in 0..MaxTime,
                        c \notin EligibleControllers(cutoff),
                        c \in EligibleControllers(cutoff)'
                 PROVE  elig'.since[c] = now
        OBVIOUS
    <2>1. RegistryInv' /\ Stamped(elig, elig', c, now)
        BY <1>1, NextInv
    <2>2. ~(c \in elig.rec /\ elig.oldest[c] <= cutoff)
        BY <1>1, <1>0
    <2>3. c \in elig'.rec /\ elig'.oldest[c] <= cutoff
        BY <2>1, <1>2
    <2>4. elig.oldest[c] \in Int /\ elig'.oldest[c] \in Int
        BY <1>1, <2>1, TimeBound DEF RegistryInv, EligTypeOK, EligState
    <2> QED
        BY <2>1, <2>2, <2>3, <2>4, TimeBound DEF Stamped
<1> QED
    BY RegistryInvariance, <1>1, PTL DEF EligSpec, GainIsStamped
=============================================================================
