---------------------------- MODULE HumanProofs ----------------------------
(***************************************************************************)
(* Proofs about who votes and who validates, in two parts.  HumanVote, for *)
(* every set of accounts, dids and proposals: the running tally of a       *)
(* proposal is exactly its recorded ballots, nobody outside the counted    *)
(* electorate is in it, and the vote machinery is a refinement of          *)
(* Eligibility, whose theorems it inherits.  ValidatorBinding, for any     *)
(* number of DIDs, accounts and validators: the binding is one to one, the *)
(* end-block sweep leaves no validator in office without an ACTIVE DID,    *)
(* and it strikes for good only where a DID was revoked.                   *)
(***************************************************************************)
EXTENDS HumanVote, ValidatorBinding, EligibilityProofs

\* Zenon by default, SMT where a step names it; the seconds each may take.
USE ZenonT(30)

-----------------------------------------------------------------------------
(* The tally of a proposal (module Tally) *)

\* The voters recorded under o in a proposal's ballots c, and all of them.
ForOption(c, o) == {x \in DOMAIN c : c[x] = o}
Recorded(c) == {x \in DOMAIN c : c[x] # Uncast}

BallotMap(A) == [A -> Options \cup {Uncast}]
Counters == [Options -> Nat \cup {Absent}]

\* Ballots, counters and turnout of a proposal agree.
TallyOf(c, cs, n) ==
    /\ n = Cardinality(Recorded(c))
    /\ \A o \in Options : Reads(cs, o) = Cardinality(ForOption(c, o))

LEMMA VotersFinite ==
    ASSUME NEW A, IsFiniteSet(A), NEW c \in BallotMap(A)
    PROVE  /\ IsFiniteSet(Recorded(c)) /\ Cardinality(Recorded(c)) \in Nat
           /\ \A o : IsFiniteSet(ForOption(c, o)) /\ Cardinality(ForOption(c, o)) \in Nat
<1>1. Recorded(c) \in SUBSET A /\ \A o : ForOption(c, o) \in SUBSET A
    BY DEF Recorded, ForOption, BallotMap
<1> QED
    BY <1>1, FS_Subset, FS_CardinalityType

\* A tie is an abstention; any other ballot counts for its heaviest option.
LEMMA DominantIsOption ==
    ASSUME NEW h \in SUBSET Options
    PROVE  DominantOption(h) \in Options
BY DEF DominantOption, Options

\* addOptionCount touches one counter, and floors it at zero.
LEMMA BumpFacts ==
    ASSUME NEW cs \in Counters, NEW o \in Options, NEW delta \in Int
    PROVE  /\ Bump(cs, o, delta) \in Counters
           /\ Reads(Bump(cs, o, delta), o) =
                 IF Reads(cs, o) + delta < 0 THEN 0 ELSE Reads(cs, o) + delta
           /\ \A x \in Options \ {o} : Reads(Bump(cs, o, delta), x) = Reads(cs, x)
<1>1. Reads(cs, o) \in Nat
    BY DEF Counters, Reads, Absent
<1>2. Bump(cs, o, delta) =
        [cs EXCEPT ![o] = IF Reads(cs, o) + delta < 0 THEN 0 ELSE Reads(cs, o) + delta]
    BY DEF Bump, Reads
<1> DEFINE v == IF Reads(cs, o) + delta < 0 THEN 0 ELSE Reads(cs, o) + delta
<1>3. v \in Nat /\ v # Absent
    BY <1>1, SMTT(30) DEF Absent
<1> HIDE DEF v
<1>4. /\ Bump(cs, o, delta) \in Counters
      /\ Bump(cs, o, delta)[o] = v
      /\ \A x \in Options \ {o} : Bump(cs, o, delta)[x] = cs[x]
    BY <1>2, <1>3 DEF Counters, v
<1> QED
    BY <1>3, <1>4 DEF Reads, v

\* One ballot more, and one less where there was one.
LEMMA BumpByOne ==
    ASSUME NEW cs \in Counters, NEW o \in Options, Reads(cs, o) \in Nat
    PROVE  /\ Bump(cs, o, 1) \in Counters
           /\ Reads(Bump(cs, o, 1), o) = Reads(cs, o) + 1
           /\ \A x \in Options \ {o} : Reads(Bump(cs, o, 1), x) = Reads(cs, x)
           /\ Bump(cs, o, -1) \in Counters
           /\ Reads(cs, o) > 0 => Reads(Bump(cs, o, -1), o) = Reads(cs, o) - 1
           /\ \A x \in Options \ {o} : Reads(Bump(cs, o, -1), x) = Reads(cs, x)
<1>1. 1 \in Int /\ -1 \in Int
    BY SMTT(30)
<1> QED
    BY <1>1, BumpFacts, SMTT(30)

\* A ballot cast, repeated or changed keeps the tally exact: the counter it
\* retracts is never zero, so applyDelta's floor is never reached.
LEMMA RecountExact ==
    ASSUME NEW A, IsFiniteSet(A), NEW c \in BallotMap(A), NEW cs \in Counters, NEW n \in Nat,
           TallyOf(c, cs, n), NEW a \in A, NEW o \in Options
    PROVE  /\ Recount(cs, c[a], o) \in Counters
           /\ TallyOf([c EXCEPT ![a] = o], Recount(cs, c[a], o),
                      IF c[a] = Uncast THEN n + 1 ELSE n)
<1> DEFINE d == [c EXCEPT ![a] = o]
<1>0. PICK prev : prev = c[a]
    OBVIOUS
<1>1. prev \in Options \cup {Uncast} /\ Uncast \notin Options
    BY <1>0 DEF BallotMap, Options, Uncast
<1>2. /\ d \in BallotMap(A) /\ DOMAIN d = A /\ DOMAIN c = A
      /\ d[a] = o /\ \A x \in A \ {a} : d[x] = c[x]
    BY DEF BallotMap
<1> HIDE DEF d
<1>3. Recorded(d) = Recorded(c) \cup {a} /\ (a \in Recorded(c) <=> prev # Uncast)
    BY <1>0, <1>1, <1>2 DEF Recorded
<1>4. /\ ForOption(d, o) = ForOption(c, o) \cup {a}
      /\ a \in ForOption(c, o) <=> prev = o
      /\ prev # o => ForOption(d, prev) = ForOption(c, prev) \ {a} /\ a \in ForOption(c, prev)
      /\ \A x : x # o /\ x # prev => ForOption(d, x) = ForOption(c, x)
    BY <1>0, <1>2, SMTT(30) DEF ForOption
<1>5. Cardinality(Recorded(d)) = IF prev = Uncast THEN n + 1 ELSE n
    BY <1>3, VotersFinite, FS_AddElement DEF TallyOf
<1>6. /\ Cardinality(ForOption(d, o)) =
            IF prev = o THEN Cardinality(ForOption(c, o)) ELSE Cardinality(ForOption(c, o)) + 1
      /\ prev # o => /\ Cardinality(ForOption(d, prev)) = Cardinality(ForOption(c, prev)) - 1
                     /\ Cardinality(ForOption(d, prev)) \in Nat
    <2>1. Cardinality(ForOption(c, o) \cup {a}) =
            IF prev = o THEN Cardinality(ForOption(c, o)) ELSE Cardinality(ForOption(c, o)) + 1
        BY <1>4, VotersFinite, FS_AddElement
    <2>2. ASSUME prev # o
          PROVE  Cardinality(ForOption(c, prev) \ {a}) = Cardinality(ForOption(c, prev)) - 1
        BY <1>4, <2>2, VotersFinite, FS_RemoveElement
    <2> QED
        BY <1>2, <1>4, <2>1, <2>2, VotersFinite
<1>7. \A x \in Options : /\ Reads(cs, x) = Cardinality(ForOption(c, x))
                         /\ Cardinality(ForOption(c, x)) \in Nat
    BY VotersFinite DEF TallyOf
<1> DEFINE Goal == /\ Recount(cs, prev, o) \in Counters
                   /\ TallyOf(d, Recount(cs, prev, o), IF prev = Uncast THEN n + 1 ELSE n)
<1>8. ASSUME prev = o PROVE Goal
    <2>1. Recount(cs, prev, o) = cs
        BY <1>8 DEF Recount
    <2>2. \A x \in Options : Reads(cs, x) = Cardinality(ForOption(d, x))
        BY <1>4, <1>6, <1>7, <1>8
    <2> QED
        BY <1>5, <2>1, <2>2 DEF TallyOf
<1>9. ASSUME prev = Uncast PROVE Goal
    <2>1. Recount(cs, prev, o) = Bump(cs, o, 1)
        BY <1>1, <1>9 DEF Recount
    <2>2. /\ Bump(cs, o, 1) \in Counters
          /\ Reads(Bump(cs, o, 1), o) = Reads(cs, o) + 1
          /\ \A x \in Options \ {o} : Reads(Bump(cs, o, 1), x) = Reads(cs, x)
        BY <1>7, BumpByOne
    <2>3. \A x \in Options : Reads(Bump(cs, o, 1), x) = Cardinality(ForOption(d, x))
        BY <1>1, <1>4, <1>6, <1>7, <1>9, <2>2
    <2> QED
        BY <1>5, <2>1, <2>2, <2>3 DEF TallyOf
<1>10. ASSUME prev # o, prev # Uncast PROVE Goal
    <2> DEFINE b == Bump(cs, prev, -1)
    <2>1. Recount(cs, prev, o) = Bump(b, o, 1) /\ prev \in Options
        BY <1>1, <1>10 DEF Recount
    <2>2. Reads(cs, prev) - 1 \in Nat
        BY <1>6, <1>7, <1>10, <2>1
    <2>3. /\ b \in Counters
          /\ Reads(b, prev) = Reads(cs, prev) - 1
          /\ \A x \in Options \ {prev} : Reads(b, x) = Reads(cs, x)
        BY <1>7, <2>1, <2>2, BumpByOne, SMTT(30)
    <2> HIDE DEF b
    <2>4. /\ Bump(b, o, 1) \in Counters
          /\ Reads(Bump(b, o, 1), o) = Reads(cs, o) + 1
          /\ \A x \in Options \ {o} : Reads(Bump(b, o, 1), x) = Reads(b, x)
        BY <1>7, <1>10, <2>1, <2>3, BumpByOne, SMTT(30)
    <2>5. \A x \in Options : Reads(Bump(b, o, 1), x) = Cardinality(ForOption(d, x))
        BY <1>4, <1>6, <1>7, <1>10, <2>1, <2>3, <2>4
    <2> QED
        BY <1>5, <1>10, <2>1, <2>4, <2>5 DEF TallyOf
<1> QED
    BY <1>0, <1>8, <1>9, <1>10 DEF d

\* An empty proposal has an empty tally.
LEMMA EmptyTally ==
    ASSUME NEW A, NEW c \in BallotMap(A), \A a \in A : c[a] = Uncast,
           NEW cs, \A o \in Options : cs[o] = Absent
    PROVE  TallyOf(c, cs, 0)
<1>1. Recorded(c) = {} /\ \A o \in Options : ForOption(c, o) = {}
    BY DEF Recorded, ForOption, Options, Uncast, BallotMap
<1> QED
    BY <1>1, FS_EmptySet DEF TallyOf, Reads

-----------------------------------------------------------------------------
(* Pruning *)

\* The records PruneStep works on.
Bases == [denominator : Nat, cutoff : Int, frozenAt : Nat]
PruneTyped(s, P, A) ==
    /\ s.counted \in [P -> BallotMap(A)]
    /\ s.counts \in [P -> Counters]
    /\ s.turnout \in [P -> Nat]
    /\ s.basis \in [P -> Bases]
    /\ s.queue \in SUBSET P
    /\ s.deleted \in Nat

\* What pruning may do to a proposal: nothing unless it is queued; drop some
\* of its ballots; or, none being left, drop its aggregates and unqueue it.
PrunedFrom(s, r, p, A) ==
    \/ /\ r.counts[p] = s.counts[p] /\ r.turnout[p] = s.turnout[p] /\ r.basis[p] = s.basis[p]
       /\ p \in r.queue <=> p \in s.queue
       /\ \A a \in A : r.counted[p][a] \in {s.counted[p][a], Uncast}
       /\ p \notin s.queue => r.counted[p] = s.counted[p]
    \/ /\ p \in s.queue /\ p \notin r.queue
       /\ \A a \in A : r.counted[p][a] = Uncast
       /\ \A o \in Options : r.counts[p][o] = Absent
       /\ r.turnout[p] = 0 /\ r.basis[p] = NoBasis

LEMMA PrunedTransitive ==
    ASSUME NEW A, NEW s, NEW r, NEW t, NEW p, PrunedFrom(s, r, p, A), PrunedFrom(r, t, p, A)
    PROVE  PrunedFrom(s, t, p, A)
BY DEF PrunedFrom

\* One iteration of PruneStep's loop.
LEMMA PruneOneStep ==
    ASSUME NEW A, IsFiniteSet(A), NEW P, NEW budget \in Nat,
           NEW s, PruneTyped(s, P, A), NEW i \in P
    PROVE  LET r == PruneOne(s, i, budget)
           IN  PruneTyped(r, P, A) /\ \A p \in P : PrunedFrom(s, r, p, A)
<1> DEFINE r == PruneOne(s, i, budget)
           voters == {a \in A : s.counted[i][a] # Uncast}
           room   == budget - s.deleted
           size   == IF Cardinality(voters) < room THEN Cardinality(voters) ELSE room
           batch  == CHOOSE b \in SUBSET voters : Cardinality(b) = size
           keys   == {o \in Options : s.counts[i][o] # Absent}
           left   == [a \in A |-> IF a \in batch THEN Uncast ELSE s.counted[i][a]]
<1>0. /\ Cardinality(voters) \in Nat /\ Cardinality(keys) \in Nat
      /\ s.deleted \in Nat /\ s.counted[i] \in BallotMap(A) /\ DOMAIN s.counted[i] = A
      /\ s.deleted < budget => size \in Nat
    <2>1. DOMAIN s.counted[i] = A /\ voters = Recorded(s.counted[i])
        BY DEF Recorded, PruneTyped, BallotMap
    <2>2. IsFiniteSet(Options)
        <3>1. Options = (({"YES"} \cup {"NO"}) \cup {"VETO"}) \cup {"ABSTAIN"}
            BY DEF Options
        <3>2. IsFiniteSet({"YES"})
            BY FS_Singleton
        <3>3. IsFiniteSet({"YES"} \cup {"NO"})
            BY <3>2, FS_AddElement
        <3>4. IsFiniteSet(({"YES"} \cup {"NO"}) \cup {"VETO"})
            BY <3>3, FS_AddElement
        <3> QED
            BY <3>1, <3>4, FS_AddElement
    <2>3. keys \in SUBSET Options
        OBVIOUS
    <2>4. Cardinality(voters) \in Nat /\ Cardinality(keys) \in Nat
        BY <2>1, <2>2, <2>3, VotersFinite, FS_Subset, FS_CardinalityType DEF PruneTyped
    <2> QED
        BY <2>1, <2>4, SMTT(30) DEF PruneTyped
<1>1. CASE i \notin s.queue \/ s.deleted >= budget
    <2>1. r = s
        BY <1>0, <1>1, SMTT(30) DEF PruneOne
    <2> QED
        BY <2>1 DEF PrunedFrom
<1>2. CASE i \in s.queue /\ s.deleted < budget /\ voters # {}
    <2>1. r = [counted |-> [s.counted EXCEPT ![i] = left],
               counts  |-> s.counts,
               turnout |-> s.turnout,
               basis   |-> s.basis,
               queue   |-> s.queue,
               deleted |-> s.deleted + size]
        BY <1>0, <1>2, SMTT(30) DEF PruneOne
    <2>2. left \in BallotMap(A) /\ \A a \in A : left[a] \in {s.counted[i][a], Uncast}
        BY <1>0 DEF BallotMap
    <2>3. s.deleted + size \in Nat
        BY <1>0, <1>2, SMTT(30)
    <2> HIDE DEF left, size
    <2> QED
        BY <1>2, <2>1, <2>2, <2>3, SMTT(30) DEF PruneTyped, PrunedFrom
<1>3. CASE i \in s.queue /\ s.deleted < budget /\ voters = {}
    <2>1. r = [counted |-> s.counted,
               counts  |-> [s.counts EXCEPT ![i] = [o \in Options |-> Absent]],
               turnout |-> [s.turnout EXCEPT ![i] = 0],
               basis   |-> [s.basis EXCEPT ![i] = NoBasis],
               queue   |-> s.queue \ {i},
               deleted |-> s.deleted + Cardinality(keys) + 1]
        BY <1>0, <1>3, SMTT(30) DEF PruneOne
    <2>2. s.deleted + Cardinality(keys) + 1 \in Nat
        BY <1>0, SMTT(30)
    <2>3. NoBasis \in Bases /\ [o \in Options |-> Absent] \in Counters
        BY SMTT(30) DEF NoBasis, Bases, Counters
    <2>4. \A a \in A : s.counted[i][a] = Uncast
        BY <1>3
    <2> HIDE DEF keys
    <2> QED
        BY <1>3, <2>1, <2>2, <2>3, <2>4, SMTT(30) DEF PruneTyped, PrunedFrom
<1> QED
    BY <1>0, <1>1, <1>2, <1>3, SMTT(30)

\* The loop of PruneStep over the first n proposals, from the records s.
Passes(g, n, s, budget) ==
    g = [i \in 0..n |-> IF i = 0 THEN s ELSE PruneOne(g[i - 1], i, budget)]

\* The recursion that defines the loop has a solution.
LEMMA PassExists ==
    ASSUME NEW s, NEW budget
    PROVE  \A n \in Nat : \E g : Passes(g, n, s, budget)
<1> DEFINE P == {n \in Nat : \E g : Passes(g, n, s, budget)}
<1>1. 0 \in P
    <2> DEFINE g == [i \in 0..0 |-> s]
    <2>1. Passes(g, 0, s, budget)
        BY SMTT(30) DEF Passes
    <2> QED
        BY <2>1
<1>2. ASSUME NEW n \in Nat, n \in P PROVE n + 1 \in P
    <2>1. PICK g : Passes(g, n, s, budget)
        BY <1>2
    <2> DEFINE h == [i \in 0..n + 1 |-> IF i = 0 THEN s ELSE PruneOne(g[i - 1], i, budget)]
    <2>2. ASSUME NEW i \in 0..n PROVE h[i] = g[i]
        BY <2>1, SMTT(30) DEF Passes
    <2>3. ASSUME NEW i \in 1..n + 1 PROVE h[i - 1] = g[i - 1]
        <3>1. i - 1 \in 0..n
            BY SMTT(30)
        <3> HIDE DEF h
        <3> QED
            BY <2>2, <3>1
    <2>4. Passes(h, n + 1, s, budget)
        BY <2>3, SMTT(30) DEF Passes
    <2> HIDE DEF h
    <2> QED
        BY <2>4, SMTT(30)
<1> HIDE DEF P
<1>3. \A n \in Nat : n \in P
    BY <1>1, <1>2, NatInduct
<1> QED
    BY <1>3 DEF P

\* PruneStep touches queued proposals only, and takes one off the queue only
\* with nothing of it left.
LEMMA PrunedFacts ==
    ASSUME NEW A, IsFiniteSet(A), NEW n \in Nat, NEW budget \in Nat, NEW s, PruneTyped(s, 1..n, A)
    PROVE  LET r == Pruned(s, n, budget)
           IN  PruneTyped(r, 1..n, A) /\ \A p \in 1..n : PrunedFrom(s, r, p, A)
<1> DEFINE G == CHOOSE g : Passes(g, n, s, budget)
           Q == {i \in Nat : i <= n =>
                    PruneTyped(G[i], 1..n, A) /\ \A p \in 1..n : PrunedFrom(s, G[i], p, A)}
<1>1. Pruned(s, n, budget) = G[n]
    BY DEF Pruned, Passes
<1>2. Passes(G, n, s, budget)
    BY PassExists
<1> HIDE DEF G
<1>3. G[0] = s /\ \A i \in 1..n : G[i] = PruneOne(G[i - 1], i, budget)
    BY <1>2, SMTT(30) DEF Passes
<1>4. 0 \in Q
    <2>1. \A p \in 1..n : PrunedFrom(s, s, p, A)
        BY DEF PrunedFrom
    <2> QED
        BY <1>3, <2>1
<1>5. ASSUME NEW i \in Nat, i \in Q PROVE i + 1 \in Q
    <2> SUFFICES ASSUME i + 1 <= n
                 PROVE  /\ PruneTyped(G[i + 1], 1..n, A)
                        /\ \A p \in 1..n : PrunedFrom(s, G[i + 1], p, A)
        BY SMTT(30)
    <2>1. i <= n /\ i + 1 \in 1..n /\ (i + 1) - 1 = i
        BY SMTT(30)
    <2>2. G[i + 1] = PruneOne(G[i], i + 1, budget)
        BY <1>3, <2>1
    <2>3. PruneTyped(G[i], 1..n, A) /\ \A p \in 1..n : PrunedFrom(s, G[i], p, A)
        BY <1>5, <2>1
    <2>4. PruneTyped(G[i + 1], 1..n, A) /\ \A p \in 1..n : PrunedFrom(G[i], G[i + 1], p, A)
        BY <2>1, <2>2, <2>3, PruneOneStep
    <2> QED
        BY <2>3, <2>4, PrunedTransitive
<1> HIDE DEF Q
<1>6. n \in Q
    BY <1>4, <1>5, NatInduct
<1> QED
    BY <1>1, <1>6, SMTT(30) DEF Q

-----------------------------------------------------------------------------
(* The inductive invariant *)

VoteTyped ==
    /\ minAge \in Nat
    /\ phase \in [Proposals -> {"DEPOSIT", "VOTING", "CANCELLED", "PASSED", "REJECTED"}]
    /\ votingStart \in [Proposals -> Nat]
    /\ counted \in [Proposals -> BallotMap(Accounts)]
    /\ counts \in [Proposals -> Counters]
    /\ turnout \in [Proposals -> Nat]
    /\ basis \in [Proposals -> Bases]
    /\ queue \in SUBSET Proposals
    /\ members \in [Proposals -> SUBSET Accounts]
    /\ late \in [Proposals -> SUBSET Accounts]

\* Whoever the basis of p would admit today was counted in it, or gained
\* standing in its second.
AdmitsCounted(p) ==
    \A c \in elig.rec :
        elig.oldest[c] <= basis[p].cutoff /\ elig.since[c] <= basis[p].frozenAt
            => c \in members[p] \cup late[p]

\* Only a decided proposal is queued; before the vote there is no basis and
\* no ballot; during it the basis stands, dated no later than now.
ProposalInv(p) ==
    /\ p \in queue => phase[p] \in {"PASSED", "REJECTED"}
    /\ phase[p] = "DEPOSIT" =>
          basis[p] = NoBasis /\ CountedVoters(p) = {}
    /\ phase[p] = "VOTING" =>
          basis[p].frozenAt \in 1..now /\ AdmitsCounted(p)
    /\ CountedVoters(p) \subseteq members[p] \cup late[p]
    /\ p \notin queue => TallyOf(counted[p], counts[p], turnout[p])

VoteInv == RegistryInv /\ VoteTyped /\ \A p \in Proposals : ProposalInv(p)

\* The facts most steps start from.
VoteBasics ==
    /\ now \in Nat /\ now >= 1 /\ minAge \in Nat
    /\ counted \in [Proposals -> BallotMap(Accounts)]
    /\ counts \in [Proposals -> Counters]
    /\ turnout \in [Proposals -> Nat]
    /\ basis \in [Proposals -> Bases]
    /\ queue \in SUBSET Proposals
    /\ elig.rec \in SUBSET Accounts
    /\ \A c \in Accounts : elig.oldest[c] \in Int /\ elig.since[c] \in Int

LEMMA VoteFacts ==
    ASSUME VoteInv
    PROVE  VoteBasics
BY TimeBound, SMTT(30) DEF VoteInv, VoteTyped, RegistryInv, EligTypeOK, EligState, Time, VoteBasics

\* A proposal a step leaves alone keeps its invariant.
LEMMA ProposalKept ==
    ASSUME NEW p \in Proposals, ProposalInv(p),
           UNCHANGED <<now, elig, queue>>,
           phase'[p] = phase[p], basis'[p] = basis[p], counted'[p] = counted[p],
           counts'[p] = counts[p], turnout'[p] = turnout[p],
           members'[p] = members[p], late'[p] = late[p]
    PROVE  ProposalInv(p)'
BY DEF ProposalInv, CountedVoters, AdmitsCounted

\* The denominator is a natural number.
LEMMA DenominatorNat ==
    ASSUME RegistryInv, NEW cutoff \in Int
    PROVE  CountEligibleControllersAt(cutoff) \in Nat
<1> DEFINE tail == {e \in elig.byAge : e[1] > cutoff}
<1>1. IsFiniteSet(Time \X Accounts)
    <2>1. IsFiniteSet(1..MaxTime)
        BY TimeBound, FS_Interval, SMTT(30)
    <2> QED
        BY <2>1, AccountsFinite, FS_Product DEF Time
<1>2. tail \in SUBSET (Time \X Accounts) /\ elig.total \in Nat
    BY DEF RegistryInv, EligTypeOK, EligState
<1>3. Cardinality(tail) \in Nat
    BY <1>1, <1>2, FS_Subset, FS_CardinalityType
<1>4. TailCount(cutoff) \in Nat
    BY <1>3, TailCapNat DEF TailCount
<1> QED
    BY <1>2, <1>4, SMTT(30) DEF CountEligibleControllersAt

\* freezeEligibilityOnce: the basis taken now admits, of today's controllers,
\* exactly those it counts.
LEMMA FreezeFacts ==
    ASSUME VoteInv, NEW p \in Proposals, basis[p] = NoBasis, NEW vs \in Nat
    PROVE  LET b == FrozenBasis(p, vs)
           IN  /\ b \in Bases /\ b.frozenAt = now
               /\ \A c \in elig.rec : elig.oldest[c] <= b.cutoff =>
                     c \in EligibleControllers(vs - minAge)
<1>0. VoteBasics
    BY VoteFacts
<1>1. vs - minAge \in Int
    BY <1>0, SMTT(30) DEF VoteBasics
<1>2. CountEligibleControllersAt(vs - minAge) \in Nat
    BY <1>1, DenominatorNat DEF VoteInv
<1>3. EligibleControllers(vs - minAge) = {c \in elig.rec : elig.oldest[c] <= vs - minAge}
    BY <1>1, EligibleByRecord DEF VoteInv
<1>4. FrozenBasis(p, vs) = [denominator |-> CountEligibleControllersAt(vs - minAge),
                            cutoff |-> vs - minAge, frozenAt |-> now]
    BY DEF FrozenBasis
<1> QED
    BY <1>0, <1>1, <1>2, <1>3, <1>4, SMTT(30) DEF Bases, VoteBasics

\* AddDeposit: a proposal enters its voting period with its basis.
LEMMA AddDepositStep ==
    ASSUME VoteInv, NEW p \in Proposals, NEW suffices \in BOOLEAN, AddDeposit(p, suffices)
    PROVE  VoteInv'
<1>0. VoteBasics
    BY VoteFacts
<1> DEFINE starts == phase[p] = "DEPOSIT" /\ suffices
           vs == IF starts THEN now ELSE votingStart[p]
           votes == phase[p] = "VOTING" \/ starts
<1>1. /\ phase[p] \in {"DEPOSIT", "VOTING"}
      /\ votingStart' = [votingStart EXCEPT ![p] = vs]
      /\ phase' = [phase EXCEPT ![p] = IF starts THEN "VOTING" ELSE @]
      /\ basis' = [basis EXCEPT ![p] = IF votes THEN FrozenBasis(p, vs) ELSE @]
      /\ members' = [members EXCEPT ![p] =
             IF votes /\ basis[p] = NoBasis THEN EligibleControllers(vs - minAge) ELSE @]
      /\ UNCHANGED <<eligVars, minAge, counted, counts, turnout, queue, late>>
    BY DEF AddDeposit
<1>2. vs \in Nat /\ votingStart[p] \in Nat /\ ProposalInv(p)
    BY <1>0 DEF VoteInv, VoteTyped, VoteBasics
<1>3. UNCHANGED <<now, elig, queue>> /\ RegistryInv'
    <2>1. UNCHANGED eligVars
        BY <1>1
    <2> QED
        BY <1>1, <2>1, NextInv DEF VoteInv, eligVars
<1>4. phase[p] = "VOTING" => basis[p] # NoBasis
    BY <1>2, SMTT(30) DEF ProposalInv, NoBasis
<1>5. votes /\ basis[p] # NoBasis => FrozenBasis(p, vs) = basis[p]
    BY DEF FrozenBasis
<1>6. EligibleControllers(vs - minAge) \in SUBSET Accounts
    BY DEF EligibleControllers
<1>7. VoteTyped'
    <2>1. (IF votes THEN FrozenBasis(p, vs) ELSE basis[p]) \in Bases
        BY <1>0, <1>2, <1>5, FreezeFacts DEF VoteBasics
    <2>2. /\ votingStart' \in [Proposals -> Nat]
          /\ phase' \in [Proposals -> {"DEPOSIT", "VOTING", "CANCELLED", "PASSED", "REJECTED"}]
          /\ basis' \in [Proposals -> Bases]
          /\ members' \in [Proposals -> SUBSET Accounts]
          /\ late' \in [Proposals -> SUBSET Accounts]
        BY <1>0, <1>1, <1>2, <1>6, <2>1 DEF VoteInv, VoteTyped, VoteBasics
    <2> QED
        BY <1>0, <1>1, <2>2 DEF VoteTyped, VoteBasics
<1>8. ASSUME NEW x \in Proposals PROVE ProposalInv(x)'
    <2>1. CASE x # p \/ ~votes \/ basis[p] # NoBasis
        <3>1. CASE x = p /\ starts
            BY <1>2, <2>1, <3>1 DEF ProposalInv
        <3>2. CASE x # p \/ ~starts
            <4>1. /\ phase'[x] = phase[x] /\ basis'[x] = basis[x]
                  /\ members'[x] = members[x]
                BY <1>1, <1>5, <2>1, <3>2 DEF VoteInv, VoteTyped
            <4> QED
                BY <1>1, <1>3, <4>1, ProposalKept DEF VoteInv
        <3> QED
            BY <3>1, <3>2
    <2>2. CASE x = p /\ votes /\ basis[p] = NoBasis
        <3>1. starts
            BY <1>4, <2>2
        <3>2. /\ phase'[p] = "VOTING" /\ basis'[p] = FrozenBasis(p, vs)
              /\ members'[p] = EligibleControllers(vs - minAge)
            BY <1>0, <1>1, <2>2, <3>1 DEF VoteInv, VoteTyped, VoteBasics
        <3>3. /\ FrozenBasis(p, vs).frozenAt = now
              /\ \A c \in elig.rec : elig.oldest[c] <= FrozenBasis(p, vs).cutoff =>
                     c \in EligibleControllers(vs - minAge)
            BY <1>2, <2>2, FreezeFacts
        <3>4. AdmitsCounted(p)'
            BY <1>3, <3>2, <3>3 DEF AdmitsCounted
        <3>5. p \notin queue /\ CountedVoters(p) = {} /\ CountedVoters(p)' = {}
            BY <1>1, <1>2, <3>1 DEF ProposalInv, CountedVoters
        <3>6. basis'[p].frozenAt \in 1..now
            BY <1>0, <3>2, <3>3, SMTT(30) DEF VoteBasics
        <3> QED
            BY <1>1, <1>2, <1>3, <2>2, <3>2, <3>4, <3>5, <3>6 DEF ProposalInv
    <2> QED
        BY <2>1, <2>2
<1> QED
    BY <1>3, <1>7, <1>8 DEF VoteInv

\* RecordVote for a voter the basis admits: the tally stays exact.
LEMMA RecordVoteStep ==
    ASSUME VoteBasics, NEW p \in Proposals, ProposalInv(p), phase[p] = "VOTING", p \notin queue,
           NEW a \in Accounts, a \in members[p] \cup late[p],
           NEW o \in Options, RecordVote(p, a, o),
           UNCHANGED <<now, elig, queue, basis, phase, members, late>>
    PROVE  /\ counted' \in [Proposals -> BallotMap(Accounts)]
           /\ counts' \in [Proposals -> Counters] /\ turnout' \in [Proposals -> Nat]
           /\ \A x \in Proposals \ {p} : /\ counted'[x] = counted[x] /\ counts'[x] = counts[x]
                                         /\ turnout'[x] = turnout[x]
           /\ ProposalInv(p)'
<1>1. PICK c, c1, cs1, n1 :
        /\ c = counted[p] /\ c1 = [c EXCEPT ![a] = o] /\ cs1 = Recount(counts[p], c[a], o)
        /\ n1 = IF c[a] = Uncast THEN turnout[p] + 1 ELSE turnout[p]
        /\ counted' = [counted EXCEPT ![p] = c1]
        /\ counts' = [counts EXCEPT ![p] = cs1]
        /\ turnout' = [turnout EXCEPT ![p] = n1]
    BY DEF RecordVote
<1>2. /\ c \in BallotMap(Accounts) /\ counts[p] \in Counters /\ turnout[p] \in Nat
      /\ TallyOf(c, counts[p], turnout[p])
    BY <1>1 DEF ProposalInv, VoteBasics
<1>3. c1 \in BallotMap(Accounts) /\ n1 \in Nat /\ \A x \in Accounts \ {a} : c1[x] = c[x]
    BY <1>1, <1>2, SMTT(30) DEF BallotMap
<1>4. cs1 \in Counters /\ TallyOf(c1, cs1, n1)
    BY <1>1, <1>2, AccountsFinite, RecountExact
<1>5. /\ counted' \in [Proposals -> BallotMap(Accounts)]
      /\ counts' \in [Proposals -> Counters] /\ turnout' \in [Proposals -> Nat]
      /\ \A x \in Proposals \ {p} : /\ counted'[x] = counted[x] /\ counts'[x] = counts[x]
                                    /\ turnout'[x] = turnout[x]
      /\ counted'[p] = c1 /\ counts'[p] = cs1 /\ turnout'[p] = n1
    BY <1>1, <1>3, <1>4 DEF VoteBasics
<1>6. CountedVoters(p)' \subseteq members[p] \cup late[p]
    BY <1>1, <1>3, <1>5 DEF ProposalInv, CountedVoters
<1>7. AdmitsCounted(p)' <=> AdmitsCounted(p)
    BY DEF AdmitsCounted
<1> QED
    BY <1>4, <1>5, <1>6, <1>7 DEF ProposalInv

\* Vote: the ballot counted is that of somebody the basis admits.
LEMMA VoteStep ==
    ASSUME VoteInv, NEW p \in Proposals, NEW a \in Accounts, NEW h \in Ballots, Vote(p, a, h)
    PROVE  VoteInv'
<1>0. VoteBasics
    BY VoteFacts
<1>1. PICK b, o :
        /\ b = FrozenBasis(p, votingStart[p]) /\ o = DominantOption(h)
        /\ phase[p] = "VOTING" /\ basis' = [basis EXCEPT ![p] = b]
        /\ IF Technical(p) THEN UNCHANGED <<counted, counts, turnout>>
           ELSE IsEligibleControllerSince(a, b.cutoff, b.frozenAt) /\ RecordVote(p, a, o)
        /\ UNCHANGED <<eligVars, minAge, govVars, queue, histVars>>
    BY DEF Vote
<1>2. ProposalInv(p) /\ p \notin queue /\ AdmitsCounted(p) /\ basis[p].frozenAt \in 1..now
    BY <1>1 DEF VoteInv, ProposalInv
<1>3. b = basis[p] /\ basis' = basis
    <2>1. b = basis[p]
        BY <1>1, <1>2, SMTT(30) DEF FrozenBasis, NoBasis
    <2> QED
        BY <1>0, <1>1, <2>1 DEF VoteBasics
<1>4. /\ UNCHANGED <<now, elig, queue, basis, phase, votingStart, members, late, minAge>>
      /\ RegistryInv'
    <2>1. UNCHANGED eligVars
        BY <1>1
    <2> QED
        BY <1>1, <1>3, <2>1, NextInv DEF VoteInv, eligVars, govVars, histVars
<1>5. CASE Technical(p)
    <2>1. UNCHANGED <<counted, counts, turnout>>
        BY <1>1, <1>5
    <2>2. VoteTyped'
        BY <1>4, <2>1 DEF VoteInv, VoteTyped
    <2>3. ASSUME NEW x \in Proposals PROVE ProposalInv(x)'
        BY <1>4, <2>1, ProposalKept DEF VoteInv
    <2> QED
        BY <1>4, <2>2, <2>3 DEF VoteInv
<1>6. CASE ~Technical(p)
    <2>1. RecordVote(p, a, o) /\ o \in Options /\ a \in members[p] \cup late[p]
        BY <1>1, <1>2, <1>3, <1>6, DominantIsOption, BallotSets, SMTT(30)
           DEF IsEligibleControllerSince, AdmitsCounted, Options
    <2>2. /\ counted' \in [Proposals -> BallotMap(Accounts)]
          /\ counts' \in [Proposals -> Counters] /\ turnout' \in [Proposals -> Nat]
          /\ \A x \in Proposals \ {p} : /\ counted'[x] = counted[x] /\ counts'[x] = counts[x]
                                        /\ turnout'[x] = turnout[x]
          /\ ProposalInv(p)'
        BY <1>0, <1>1, <1>2, <1>4, <2>1, RecordVoteStep
    <2>3. VoteTyped'
        BY <1>4, <2>2 DEF VoteInv, VoteTyped
    <2>4. ASSUME NEW x \in Proposals PROVE ProposalInv(x)'
        BY <1>4, <2>2, ProposalKept DEF VoteInv
    <2> QED
        BY <1>4, <2>3, <2>4 DEF VoteInv
<1> QED
    BY <1>5, <1>6

\* CancelProposal leaves the records where they are.
LEMMA CancelStep ==
    ASSUME VoteInv, NEW p \in Proposals, CancelProposal(p)
    PROVE  VoteInv'
<1>0. VoteBasics
    BY VoteFacts
<1>1. /\ phase[p] \in {"DEPOSIT", "VOTING"} /\ phase' = [phase EXCEPT ![p] = "CANCELLED"]
      /\ UNCHANGED <<eligVars, minAge, votingStart, tallyVars, histVars>>
    BY DEF CancelProposal
<1>2. /\ UNCHANGED <<now, elig, queue, basis, counted, counts, turnout, votingStart, members,
                     late, minAge>>
      /\ RegistryInv'
    <2>1. UNCHANGED eligVars
        BY <1>1
    <2> QED
        BY <1>1, <2>1, NextInv DEF VoteInv, eligVars, tallyVars, histVars
<1>3. VoteTyped'
    BY <1>1, <1>2 DEF VoteInv, VoteTyped
<1>4. ASSUME NEW x \in Proposals PROVE ProposalInv(x)'
    <2>1. CASE x # p
        BY <1>1, <1>2, <2>1, ProposalKept DEF VoteInv, VoteTyped
    <2>2. CASE x = p
        <3>1. phase'[p] = "CANCELLED" /\ CountedVoters(p)' = CountedVoters(p)
            BY <1>1, <1>2 DEF VoteInv, VoteTyped, CountedVoters
        <3>2. ProposalInv(p) /\ p \notin queue
            BY <1>1 DEF VoteInv, ProposalInv
        <3> QED
            BY <1>2, <2>2, <3>1, <3>2 DEF ProposalInv
    <2> QED
        BY <2>1, <2>2
<1> QED
    BY <1>2, <1>3, <1>4 DEF VoteInv

\* The next block is no registry step or a later block time.
LEMMA EndBlockRefines ==
    ASSUME now \in Time, NEW t \in now..MaxTime, now' = t, UNCHANGED registryVars
    PROVE  [EligNext]_eligVars
<1>1. CASE t = now
    BY <1>1 DEF eligVars, registryVars
<1>2. CASE t # now
    <2>1. now < MaxTime /\ now' \in (now + 1)..MaxTime
        BY <1>2, TimeBound, SMTT(30) DEF Time
    <2> QED
        BY <2>1 DEF EligNext, Tick
<1> QED
    BY <1>1, <1>2

\* The end-blocker of x/gov decides the due proposals: what is queued is
\* decided, and what stays open was open.
LEMMA EndBlockPhases ==
    ASSUME VoteInv, NEW t, NEW tech, EndBlock(t, tech)
    PROVE  /\ phase' \in [Proposals -> {"DEPOSIT", "VOTING", "CANCELLED", "PASSED", "REJECTED"}]
           /\ Enqueued(tech) \in SUBSET Proposals /\ queue \subseteq Enqueued(tech)
           /\ \A p \in Enqueued(tech) : phase'[p] \in {"PASSED", "REJECTED"}
           /\ \A p \in Proposals : phase'[p] \in {"DEPOSIT", "VOTING"} => phase'[p] = phase[p]
<1>1. PICK ok, converted :
        /\ ok = Carried(tech) /\ converted = {p \in Due \ ok : expedited[p]}
        /\ phase' = [p \in Proposals |->
             IF p \notin Due \/ p \in converted THEN phase[p]
             ELSE IF p \in ok THEN "PASSED" ELSE "REJECTED"]
    BY DEF EndBlock
<1>2. /\ queue \in SUBSET Proposals
      /\ phase \in [Proposals -> {"DEPOSIT", "VOTING", "CANCELLED", "PASSED", "REJECTED"}]
    BY DEF VoteInv, VoteTyped
<1>3. Due \in SUBSET Proposals
    BY DEF Due
<1>4. Enqueued(tech) \in SUBSET Proposals /\ queue \subseteq Enqueued(tech)
    BY <1>2, <1>3 DEF Enqueued
<1>5. ASSUME NEW p \in Enqueued(tech) PROVE phase'[p] \in {"PASSED", "REJECTED"}
    <2>1. p \in queue => phase[p] \in {"PASSED", "REJECTED"} /\ p \notin Due
        BY <1>2 DEF VoteInv, ProposalInv, Due
    <2>2. p \notin queue => p \in Due /\ p \notin converted
        BY <1>1 DEF Enqueued
    <2> QED
        BY <1>1, <1>4, <2>1, <2>2
<1> QED
    BY <1>1, <1>2, <1>4, <1>5

\* The records PruneStep starts from when q is queued.
RecordsOf(q) ==
    [counted |-> counted, counts |-> counts, turnout |-> turnout,
     basis |-> basis, queue |-> q, deleted |-> 0]

\* What the end-blockers leave of a proposal.
LEMMA ProposalPruned ==
    ASSUME NEW p \in Proposals, ProposalInv(p), VoteTyped',
           now \in Nat, now' \in Nat, now <= now', UNCHANGED <<elig, members, late>>,
           NEW q, queue \subseteq q, NEW r, PrunedFrom(RecordsOf(q), r, p, Accounts),
           counted' = r.counted, counts' = r.counts, turnout' = r.turnout,
           basis' = r.basis, queue' = r.queue,
           p \in q => phase'[p] \in {"PASSED", "REJECTED"},
           phase'[p] \in {"DEPOSIT", "VOTING"} => phase'[p] = phase[p]
    PROVE  ProposalInv(p)'
<1>1. CASE p \notin q
    <2>1. /\ counted'[p] = counted[p] /\ counts'[p] = counts[p] /\ turnout'[p] = turnout[p]
          /\ basis'[p] = basis[p] /\ p \notin queue' /\ p \notin queue
        BY <1>1 DEF PrunedFrom, RecordsOf
    <2>2. CountedVoters(p)' = CountedVoters(p) /\ (AdmitsCounted(p) => AdmitsCounted(p)')
        BY <2>1 DEF CountedVoters, AdmitsCounted
    <2>3. basis[p].frozenAt \in 1..now => basis[p].frozenAt \in 1..now'
        BY SMTT(30)
    <2> QED
        BY <2>1, <2>2, <2>3 DEF ProposalInv
<1>2. CASE p \in q
    <2>1. CountedVoters(p)' \subseteq CountedVoters(p)
        BY DEF PrunedFrom, RecordsOf, CountedVoters
    <2>2. ASSUME p \notin queue' PROVE TallyOf(counted'[p], counts'[p], turnout'[p])
        <3>1. /\ \A a \in Accounts : counted'[p][a] = Uncast
              /\ \A o \in Options : counts'[p][o] = Absent
              /\ turnout'[p] = 0
            BY <1>2, <2>2 DEF PrunedFrom, RecordsOf
        <3>2. counted'[p] \in BallotMap(Accounts)
            BY DEF VoteTyped
        <3> QED
            BY <3>1, <3>2, EmptyTally
    <2> QED
        BY <1>2, <2>1, <2>2 DEF ProposalInv
<1> QED
    BY <1>1, <1>2

\* The end-blockers: what they queue is decided, and they touch nothing else.
LEMMA EndBlockStep ==
    ASSUME VoteInv, NEW t \in now..MaxTime, NEW tech, EndBlock(t, tech)
    PROVE  VoteInv'
<1>0. VoteBasics
    BY VoteFacts
<1>1. PICK q, r :
        /\ q = Enqueued(tech) /\ r = PruneStep(q)
        /\ counted' = r.counted /\ counts' = r.counts /\ turnout' = r.turnout
        /\ basis' = r.basis /\ queue' = r.queue
        /\ now' = t
        /\ UNCHANGED <<registryVars, minAge, votingStart, histVars>>
    BY DEF EndBlock
<1>2. /\ UNCHANGED <<elig, minAge, votingStart, members, late>>
      /\ now' \in Nat /\ now <= now'
      /\ RegistryInv'
    <2>1. now' \in Time /\ now <= now'
        BY <1>0, <1>1, TimeBound, SMTT(30) DEF Time, VoteBasics
    <2>2. [EligNext]_eligVars
        BY <1>1, EndBlockRefines DEF VoteInv, RegistryInv, EligTypeOK
    <2> QED
        BY <1>1, <2>1, <2>2, NextInv, TimeBound, SMTT(30) DEF VoteInv, registryVars, histVars, Time
<1>3. /\ phase' \in [Proposals -> {"DEPOSIT", "VOTING", "CANCELLED", "PASSED", "REJECTED"}]
      /\ q \in SUBSET Proposals /\ queue \subseteq q
      /\ \A p \in q : phase'[p] \in {"PASSED", "REJECTED"}
      /\ \A p \in Proposals : phase'[p] \in {"DEPOSIT", "VOTING"} => phase'[p] = phase[p]
    BY <1>1, EndBlockPhases
<1>4. PruneTyped(RecordsOf(q), Proposals, Accounts)
    BY <1>0, <1>3 DEF RecordsOf, PruneTyped, VoteBasics
<1>5. /\ PruneTyped(r, Proposals, Accounts)
      /\ \A p \in Proposals : PrunedFrom(RecordsOf(q), r, p, Accounts)
    <2>1. r = Pruned(RecordsOf(q), N, Budget) /\ Budget \in Nat
        BY <1>1, BudgetPositive DEF PruneStep, RecordsOf
    <2> QED
        BY <1>4, <2>1, AccountsFinite, ProposalCount, PrunedFacts DEF Proposals
<1>6. VoteTyped'
    BY <1>1, <1>2, <1>3, <1>5 DEF VoteInv, VoteTyped, PruneTyped
<1>7. ASSUME NEW p \in Proposals PROVE ProposalInv(p)'
    <2>1. ProposalInv(p) /\ now \in Nat
        BY <1>0 DEF VoteInv, VoteBasics
    <2> QED
        BY <1>1, <1>2, <1>3, <1>5, <1>6, <2>1, ProposalPruned
<1> QED
    BY <1>2, <1>6, <1>7 DEF VoteInv

\* Whoever a standing basis would admit from now on gained their standing in
\* the basis's own second.
LEMMA GainIsLate ==
    ASSUME VoteBasics, NEW p \in Proposals, AdmitsCounted(p), basis[p].frozenAt \in 1..now,
           late'[p] = (IF basis[p] # NoBasis /\ basis[p].frozenAt = now
                       THEN late[p] \cup Gained ELSE late[p]),
           NEW c \in elig'.rec, c \in Accounts, Stamped(elig, elig', c, now),
           elig'.oldest[c] \in Int, elig'.since[c] \in Int,
           elig'.oldest[c] <= basis[p].cutoff, elig'.since[c] <= basis[p].frozenAt
    PROVE  c \in members[p] \cup late'[p]
<1>1. basis[p] # NoBasis /\ basis[p].cutoff \in Int
    BY SMTT(30) DEF NoBasis, VoteBasics, Bases
<1>2. CASE c \in Gained
    <2>1. elig'.since[c] = now
        BY <1>2 DEF Stamped, Gained
    <2>2. basis[p].frozenAt = now
        BY <2>1, SMTT(30) DEF VoteBasics
    <2> QED
        BY <1>1, <1>2, <2>2
<1>3. CASE c \notin Gained
    <2>1. c \in elig.rec /\ ~(elig'.oldest[c] < elig.oldest[c])
        BY <1>3 DEF Gained
    <2>2. elig'.since[c] = elig.since[c]
        BY <2>1 DEF Stamped
    <2>3. elig.oldest[c] <= basis[p].cutoff
        BY <1>1, <2>1, SMTT(30) DEF VoteBasics
    <2>4. c \in members[p] \cup late[p]
        BY <2>1, <2>2, <2>3 DEF AdmitsCounted
    <2> QED
        BY <2>4
<1> QED
    BY <1>2, <1>3

\* Identities change: the history of late standing keeps up.
LEMMA RegistryStepInv ==
    ASSUME VoteInv, RegistryStep
    PROVE  VoteInv'
<1>0. VoteBasics
    BY VoteFacts
<1>1. /\ late' = [p \in Proposals |->
             IF basis[p] # NoBasis /\ basis[p].frozenAt = now
             THEN late[p] \cup Gained ELSE late[p]]
      /\ UNCHANGED <<minAge, phase, votingStart, basis, counted, counts, turnout, queue, members>>
    BY DEF RegistryStep, govVars, tallyVars
<1>2. EligNext /\ UNCHANGED now
    BY MovableDids DEF RegistryStep, EligNext, RegisterDoc, RevokeDoc, ChangeStatusDoc, MoveDoc
<1>3. /\ RegistryInv' /\ \A b \in Accounts : Stamped(elig, elig', b, now)
    BY <1>2, NextInv DEF VoteInv
<1>4. /\ elig'.rec \in SUBSET Accounts
      /\ \A c \in Accounts : elig'.oldest[c] \in Int /\ elig'.since[c] \in Int
    BY <1>3, TimeBound, SMTT(30) DEF RegistryInv, EligTypeOK, EligState
<1>5. Gained \in SUBSET Accounts
    BY <1>4 DEF Gained
<1>6. VoteTyped'
    <2>1. late' \in [Proposals -> SUBSET Accounts]
        BY <1>1, <1>5 DEF VoteInv, VoteTyped
    <2> QED
        BY <1>1, <2>1 DEF VoteInv, VoteTyped
<1>7. ASSUME NEW p \in Proposals PROVE ProposalInv(p)'
    <2>1. ProposalInv(p) /\ late[p] \subseteq late'[p]
        BY <1>1 DEF VoteInv
    <2>2. ASSUME phase[p] = "VOTING" PROVE AdmitsCounted(p)'
        <3>1. AdmitsCounted(p) /\ basis[p].frozenAt \in 1..now
            BY <2>1, <2>2 DEF ProposalInv
        <3>2. late'[p] = IF basis[p] # NoBasis /\ basis[p].frozenAt = now
                         THEN late[p] \cup Gained ELSE late[p]
            BY <1>1
        <3>3. ASSUME NEW c \in elig'.rec,
                     elig'.oldest[c] <= basis[p].cutoff, elig'.since[c] <= basis[p].frozenAt
              PROVE  c \in members[p] \cup late'[p]
            BY <1>0, <1>3, <1>4, <3>1, <3>2, <3>3, GainIsLate
        <3> QED
            BY <1>1, <3>3 DEF AdmitsCounted
    <2>3. CountedVoters(p)' = CountedVoters(p)
        BY <1>1 DEF CountedVoters
    <2> QED
        BY <1>1, <1>2, <2>1, <2>2, <2>3 DEF ProposalInv
<1> QED
    BY <1>3, <1>6, <1>7 DEF VoteInv

LEMMA VoteInitInv == Init => VoteInv
<1> SUFFICES ASSUME Init PROVE VoteInv
    OBVIOUS
<1>1. RegistryInv
    BY InitInv DEF Init
<1>2. NoBasis \in Bases /\ [a \in Accounts |-> Uncast] \in BallotMap(Accounts)
      /\ [o \in Options |-> Absent] \in Counters
    BY SMTT(30) DEF NoBasis, Bases, BallotMap, Counters
<1>3. VoteTyped
    BY <1>2, MinAgesNat DEF Init, VoteTyped
<1>4. ASSUME NEW p \in Proposals PROVE ProposalInv(p)
    <2>1. /\ \A a \in Accounts : counted[p][a] = Uncast
          /\ \A o \in Options : counts[p][o] = Absent
          /\ turnout[p] = 0 /\ phase[p] = "DEPOSIT" /\ basis[p] = NoBasis /\ queue = {}
        BY DEF Init
    <2>2. TallyOf(counted[p], counts[p], 0)
        BY <1>3, <2>1, EmptyTally DEF VoteTyped
    <2> QED
        BY <2>1, <2>2 DEF ProposalInv, CountedVoters
<1> QED
    BY <1>1, <1>3, <1>4 DEF VoteInv

LEMMA VoteNextInv ==
    ASSUME VoteInv, [Next]_vars
    PROVE  VoteInv'
<1>0. VoteBasics
    BY VoteFacts
<1>1. ASSUME UNCHANGED <<eligVars, govVars, tallyVars, histVars>>, minAge' \in Nat
      PROVE  VoteInv'
    <2>1. UNCHANGED <<phase, votingStart, now, elig, queue, basis, counted, counts, turnout,
                      members, late>> /\ RegistryInv'
        <3>1. UNCHANGED eligVars
            BY <1>1
        <3> QED
            BY <1>1, <3>1, NextInv DEF VoteInv, eligVars, govVars, tallyVars, histVars
    <2>2. VoteTyped'
        BY <1>1, <2>1 DEF VoteInv, VoteTyped
    <2>3. ASSUME NEW p \in Proposals PROVE ProposalInv(p)'
        BY <2>1, ProposalKept DEF VoteInv
    <2> QED
        BY <2>1, <2>2, <2>3 DEF VoteInv
<1>2. ASSUME NEW m \in MinAges, SetMinAge(m) PROVE VoteInv'
    BY <1>1, <1>2, MinAgesNat DEF SetMinAge
<1>3. ASSUME NEW t \in RouteTables, UpdateParams(t) PROVE VoteInv'
    BY <1>0, <1>1, <1>3 DEF UpdateParams, VoteBasics
<1>4. CASE UNCHANGED vars
    BY <1>0, <1>1, <1>4 DEF vars, VoteBasics
<1>5. CASE EndSomeBlock
    BY <1>5, EndBlockStep DEF EndSomeBlock
<1> QED
    BY <1>2, <1>3, <1>4, <1>5, AddDepositStep, VoteStep, CancelStep, RegistryStepInv DEF Next

\* The invariant of the voting records.
THEOREM VoteInvariance == Spec => []VoteInv
<1>1. VoteInv /\ [Next]_vars => VoteInv'
    BY VoteNextInv
<1> QED
    BY VoteInitInv, <1>1, PTL DEF Spec

\* One vote per human: the tally x/gov decides from is the number of ballots
\* on record, option by option, however often ballots are changed and however
\* far earlier proposals have been pruned.
THEOREM TallyCorrect == Spec => []TallyMatchesBallots
<1>1. VoteInv => TallyMatchesBallots
    <2> SUFFICES ASSUME VoteInv, NEW p \in Proposals, p \notin queue
                 PROVE  /\ turnout[p] = Cardinality(CountedVoters(p))
                        /\ \A o \in Options : Count(p, o) = Cardinality(VotersFor(p, o))
        BY DEF TallyMatchesBallots
    <2>1. DOMAIN counted[p] = Accounts
        BY DEF VoteInv, VoteTyped, BallotMap
    <2>2. CountedVoters(p) = Recorded(counted[p])
          /\ \A o : VotersFor(p, o) = ForOption(counted[p], o)
        BY <2>1 DEF CountedVoters, VotersFor, Recorded, ForOption
    <2>3. TallyOf(counted[p], counts[p], turnout[p])
        BY DEF VoteInv, ProposalInv
    <2> QED
        BY <2>2, <2>3 DEF TallyOf, Count
<1> QED
    BY VoteInvariance, <1>1, PTL

\* Nobody is counted who was not in the frozen denominator, save whoever
\* gained standing in the second of the freeze.
THEOREM VotersCorrect == Spec => []VotersWithinBasis
<1>1. VoteInv => VotersWithinBasis
    BY DEF VoteInv, ProposalInv, VotersWithinBasis
<1> QED
    BY VoteInvariance, <1>1, PTL

\* Governance uses the registry as it is specified: whatever holds of the
\* registry alone holds of it during votes.
THEOREM VoteRefinesEligibility == Spec => EligSpec
<1>1. Init => EligInit
    BY DEF Init
<1>2. VoteInv /\ [Next]_vars => [EligNext]_eligVars
    <2> SUFFICES ASSUME VoteInv, [Next]_vars PROVE [EligNext]_eligVars
        OBVIOUS
    <2>1. CASE RegistryStep
        BY <2>1, MovableDids DEF RegistryStep, EligNext
    <2>2. CASE EndSomeBlock
        <3>1. PICK t \in now..MaxTime : now' = t /\ UNCHANGED registryVars
            BY <2>2 DEF EndSomeBlock, EndBlock
        <3> QED
            BY <3>1, EndBlockRefines DEF VoteInv, RegistryInv, EligTypeOK
    <2>3. ASSUME ~RegistryStep, ~EndSomeBlock PROVE UNCHANGED eligVars
        BY <2>3 DEF Next, AddDeposit, Vote, CancelProposal, SetMinAge, UpdateParams, vars
    <2> QED
        BY <2>1, <2>2, <2>3
<1> QED
    BY VoteInvariance, <1>1, <1>2, PTL DEF Spec, EligSpec

\* The denominator is exact while votes run.
THEOREM VoteDenominatorCorrect == Spec => []DenominatorExact
BY VoteRefinesEligibility, DenominatorCorrect

\* Standing is never backdated while votes run.
THEOREM VoteGainStamped == Spec => GainIsStamped
BY VoteRefinesEligibility, GainStamped

-----------------------------------------------------------------------------
(* The validator binding (module ValidatorBinding) *)

\* The sweep record of every controller is what its documents call for.
SweepExact == sweepRec = [a \in Accounts |-> SweepOf(a, ctrlIndex, status)]

\* The inductive invariant: a one-to-one binding stays one through the sweep
\* only if the records the sweep binds by are exact; only a validator that
\* exists is bound, since removal releases it, and only to a standing DID, since
\* revocation releases that.
BindInv ==
    /\ RegistryInv
    /\ valOf \in [Dids -> Accounts \cup {NoAccount}]
    /\ didOf \in [Accounts -> Dids \cup {NoDid}]
    /\ vals \subseteq Accounts /\ last \subseteq vals
    /\ SweepExact
    /\ BindingOneToOne
    /\ \A v \in Accounts : didOf[v] # NoDid => v \in vals
    /\ \A d \in Dids : valOf[d] # NoAccount => status[d] \in {"ACTIVE", "SUSPENDED"}

-----------------------------------------------------------------------------

LEMMA Distinct == NoDid \notin Dids /\ NoAccount \notin Accounts
BY DidOrder, AccountsFinite

\* The DIDs found under a in the index are those whose documents name a.
LEMMA HeldFromDocs ==
    ASSUME RegistryInv, NEW a \in Accounts, NEW s \in Statuses \ {"NONE"}
    PROVE  Held(a, ctrlIndex, status, s) = {d \in Dids : controller[d] = a /\ status[d] = s}
BY DEF RegistryInv, IndexExact, Held, Registered, Statuses

LEMMA FirstOfFacts ==
    ASSUME NEW S \in SUBSET Dids
    PROVE  /\ S = {} => FirstOf(S) = NoDid
           /\ S # {} => FirstOf(S) \in S
           /\ FirstOf(S) # NoDid => FirstOf(S) \in S
<1>1. S \in SUBSET Nat
  BY DidOrder
<1> QED
  BY <1>1, MinIsLeast, Distinct DEF FirstOf

\* What the sweep reads off the record of a controller.
LEMMA RecordFacts ==
    ASSUME BindInv, NEW a \in Accounts
    PROVE  /\ sweepRec[a].active # NoDid =>
                  /\ sweepRec[a].active \in Dids
                  /\ controller[sweepRec[a].active] = a
                  /\ status[sweepRec[a].active] = "ACTIVE"
           /\ sweepRec[a].active = NoDid =>
                  ~ \E d \in Dids : controller[d] = a /\ status[d] = "ACTIVE"
           /\ sweepRec[a].suspended <=> \E d \in Dids : controller[d] = a /\ status[d] = "SUSPENDED"
           /\ sweepRec[a].revoked <=> \E d \in Dids : controller[d] = a /\ status[d] = "REVOKED"
<1> DEFINE H(s) == {d \in Dids : controller[d] = a /\ status[d] = s}
<1>1. /\ Held(a, ctrlIndex, status, "ACTIVE") = H("ACTIVE")
      /\ Held(a, ctrlIndex, status, "SUSPENDED") = H("SUSPENDED")
      /\ Held(a, ctrlIndex, status, "REVOKED") = H("REVOKED")
  BY HeldFromDocs DEF BindInv, Statuses
<1>2. /\ sweepRec[a].active = FirstOf(H("ACTIVE"))
      /\ sweepRec[a].suspended = (H("SUSPENDED") # {})
      /\ sweepRec[a].revoked = (H("REVOKED") # {})
  BY <1>1 DEF BindInv, SweepExact, SweepOf
<1>3. /\ H("ACTIVE") = {} => FirstOf(H("ACTIVE")) = NoDid
      /\ H("ACTIVE") # {} => FirstOf(H("ACTIVE")) \in H("ACTIVE")
      /\ FirstOf(H("ACTIVE")) # NoDid => FirstOf(H("ACTIVE")) \in H("ACTIVE")
  <2>1. H("ACTIVE") \in SUBSET Dids
    OBVIOUS
  <2> QED
    BY <2>1, FirstOfFacts
<1>4. H("ACTIVE") # {} => FirstOf(H("ACTIVE")) # NoDid
  BY <1>3, Distinct
<1> QED
  BY <1>2, <1>3, <1>4

\* SetIdentity with its refresh of the sweep records keeps them exact.
LEMMA RegistryChange ==
    ASSUME BindInv, NEW d \in Dids, NEW st \in {"ACTIVE", "SUSPENDED", "REVOKED"},
           NEW c \in Accounts, NEW cr \in Time,
           SetIdentity(d, st, c, cr), UNCHANGED now, RefreshSweep(d)
    PROVE  RegistryInv' /\ SweepExact' /\ status' = [status EXCEPT ![d] = st]
<1>1. now' \in Time
  BY DEF BindInv, RegistryInv, EligTypeOK
<1>2. RegistryInv'
  BY <1>1, SetIdentityStep DEF BindInv
<1>3. /\ status' = [status EXCEPT ![d] = st]
      /\ controller' = [controller EXCEPT ![d] = c]
  BY DEF SetIdentity
<1>4. /\ status \in [Dids -> Statuses] /\ controller \in [Dids -> Accounts \cup {NoAccount}]
      /\ IndexExact /\ IndexExact'
  BY <1>2 DEF BindInv, RegistryInv, EligTypeOK
<1>5. ASSUME NEW a \in Accounts, a \notin {controller'[d], controller[d]}, NEW s
      PROVE  Held(a, ctrlIndex', status', s) = Held(a, ctrlIndex, status, s)
  <2>1. <<a, d>> \notin ctrlIndex /\ <<a, d>> \notin ctrlIndex'
    BY <1>4, <1>5 DEF IndexExact
  <2>2. \A e \in Dids : e # d =>
           status'[e] = status[e] /\ (<<a, e>> \in ctrlIndex' <=> <<a, e>> \in ctrlIndex)
    BY <1>3, <1>4 DEF IndexExact, Registered
  <2> QED
    BY <2>1, <2>2 DEF Held
<1>6. ASSUME NEW a \in Accounts
      PROVE  sweepRec'[a] = SweepOf(a, ctrlIndex', status')
  <2>1. CASE a \in {controller'[d], controller[d]}
    BY <2>1 DEF RefreshSweep
  <2>2. CASE a \notin {controller'[d], controller[d]}
    <3>1. sweepRec'[a] = SweepOf(a, ctrlIndex, status)
      BY <2>2 DEF RefreshSweep, BindInv, SweepExact
    <3>2. /\ Held(a, ctrlIndex', status', "ACTIVE") = Held(a, ctrlIndex, status, "ACTIVE")
          /\ Held(a, ctrlIndex', status', "SUSPENDED") = Held(a, ctrlIndex, status, "SUSPENDED")
          /\ Held(a, ctrlIndex', status', "REVOKED") = Held(a, ctrlIndex, status, "REVOKED")
      BY <2>2, <1>5
    <3> QED
      BY <3>1, <3>2 DEF SweepOf
  <2> QED
    BY <2>1, <2>2
<1>7. SweepExact'
  BY <1>6 DEF RefreshSweep, SweepExact
<1> QED
  BY <1>2, <1>3, <1>7

-----------------------------------------------------------------------------

LEMMA BindInit == ValInit => BindInv
<1> SUFFICES ASSUME ValInit PROVE BindInv
  OBVIOUS
<1>1. RegistryInv
  BY InitInv DEF ValInit
<1>2. Founders \subseteq Accounts
  BY FoundersHold
<1> QED
  BY <1>1, <1>2, Distinct DEF ValInit, BindInv, SweepExact, BindingOneToOne

\* A handler that rewrites the document of d to a standing status.
LEMMA StandingStep ==
    ASSUME BindInv, NEW d \in Dids, NEW st \in {"ACTIVE", "SUSPENDED"},
           NEW c \in Accounts, NEW cr \in Time,
           SetIdentity(d, st, c, cr), UNCHANGED now, RefreshSweep(d),
           UNCHANGED <<valOf, didOf, stakingVars>>
    PROVE  BindInv'
<1>1. RegistryInv' /\ SweepExact' /\ status' = [status EXCEPT ![d] = st]
  BY RegistryChange, SMTT(30)
<1>2. status \in [Dids -> Statuses]
  BY DEF BindInv, RegistryInv, EligTypeOK
<1>3. \A e \in Dids : valOf'[e] # NoAccount => status'[e] \in {"ACTIVE", "SUSPENDED"}
  BY <1>1, <1>2 DEF BindInv
<1> QED
  BY <1>1, <1>3 DEF BindInv, BindingOneToOne, stakingVars

LEMMA RevokeStep ==
    ASSUME BindInv, NEW d \in Dids, Revoke(d)
    PROVE  BindInv'
<1>1. controller[d] \in Accounts /\ createdAt[d] \in Time
  BY DEF Revoke, RevokeDoc, BindInv, RegistryInv, DocsWellFormed, Registered
<1>2. RegistryInv' /\ SweepExact' /\ status' = [status EXCEPT ![d] = "REVOKED"]
  BY <1>1, RegistryChange DEF Revoke, RevokeDoc
<1>3. status \in [Dids -> Statuses]
  BY DEF BindInv, RegistryInv, EligTypeOK
<1>4. CASE valOf[d] = NoAccount
  <2>1. UNCHANGED <<valOf, didOf, vals, last>>
    BY <1>4 DEF Revoke, stakingVars
  <2> QED
    BY <1>2, <1>3, <1>4, <2>1 DEF BindInv, BindingOneToOne
<1>5. CASE valOf[d] # NoAccount
  <2>1. valOf[d] \in Accounts /\ didOf[valOf[d]] = d
    BY <1>5 DEF BindInv, BindingOneToOne
  <2>2. /\ valOf' = [valOf EXCEPT ![d] = NoAccount]
        /\ didOf' = [didOf EXCEPT ![valOf[d]] = NoDid]
        /\ UNCHANGED <<vals, last>>
    BY <1>5, <2>1, Distinct DEF Revoke, Unbind, stakingVars
  <2>3. BindingOneToOne'
    BY <2>1, <2>2, Distinct DEF BindInv, BindingOneToOne
  <2> QED
    BY <1>2, <1>3, <2>1, <2>2, <2>3 DEF BindInv
<1> QED
  BY <1>4, <1>5

\* A step of staking leaves the registry and the sweep records alone.
LEMMA RegistryKept ==
    ASSUME BindInv, UNCHANGED eligVars, UNCHANGED sweepRec
    PROVE  RegistryInv' /\ SweepExact' /\ status' = status
<1>1. RegistryInv'
  BY NextInv DEF BindInv
<1>2. UNCHANGED <<status, ctrlIndex>>
  BY DEF eligVars, registryVars
<1> QED
  BY <1>1, <1>2 DEF BindInv, SweepExact

LEMMA CreateStep ==
    ASSUME BindInv, NEW v \in Accounts, CreateValidator(v)
    PROVE  BindInv'
<1>1. PICK d : d = PrimaryDID(v)
  OBVIOUS
<1>2. d \in Dids /\ status[d] = "ACTIVE" /\ valOf[d] \in {v, NoAccount}
  <2> DEFINE scanned == {e \in {x \in Dids : <<v, x>> \in ctrlIndex} :
                Cardinality({x \in {y \in Dids : <<v, y>> \in ctrlIndex} : x < e}) < MaxScan}
             S == {e \in scanned : status[e] = "ACTIVE"}
  <2>1. d = FirstOf(S)
    BY <1>1 DEF PrimaryDID
  <2>2. S \in SUBSET Dids
    OBVIOUS
  <2>3. d # NoDid /\ valOf[d] \in {v, NoAccount}
    BY <1>1 DEF CreateValidator, MayValidate
  <2>4. d \in S
    BY <2>1, <2>2, <2>3, FirstOfFacts
  <2> QED
    BY <2>3, <2>4
<1>3. /\ valOf' = [valOf EXCEPT ![d] = v] /\ didOf' = [didOf EXCEPT ![v] = d]
      /\ vals' = vals \cup {v} /\ last' = last /\ v \notin vals
  BY <1>1 DEF CreateValidator, Bind
<1>4. didOf[v] = NoDid /\ valOf[d] = NoAccount
  BY <1>2, <1>3, Distinct DEF BindInv, BindingOneToOne
<1>5. RegistryInv' /\ SweepExact' /\ status' = status
  BY RegistryKept DEF CreateValidator
<1>6. BindingOneToOne'
  BY <1>2, <1>3, <1>4, Distinct, SMTT(30) DEF BindInv, BindingOneToOne
<1> QED
  BY <1>2, <1>3, <1>5, <1>6 DEF BindInv

LEMMA RemoveStep ==
    ASSUME BindInv, NEW v \in Accounts, RemoveValidator(v)
    PROVE  BindInv'
<1>1. RegistryInv' /\ SweepExact' /\ status' = status
  BY RegistryKept DEF RemoveValidator
<1>2. /\ valOf' = IF didOf[v] = NoDid THEN valOf ELSE [valOf EXCEPT ![didOf[v]] = NoAccount]
      /\ didOf' = [didOf EXCEPT ![v] = NoDid]
      /\ vals' = vals \ {v} /\ last' = last /\ v \notin last
  BY DEF RemoveValidator, Unbind
<1>3. BindingOneToOne'
  BY <1>2, Distinct DEF BindInv, BindingOneToOne
<1> QED
  BY <1>1, <1>2, <1>3 DEF BindInv

-----------------------------------------------------------------------------

\* What each verdict of the sweep tells.  A bound validator is never struck
\* for good by the status of its DID, because revocation unbound it already.
LEMMA VerdictFacts ==
    ASSUME BindInv, NEW v \in last
    PROVE  /\ SweepOne(v) \in {"kept", "jailed", "tombstoned", "bound"}
           /\ SweepOne(v) = "kept" => didOf[v] \in Dids /\ status[didOf[v]] = "ACTIVE"
           /\ SweepOne(v) = "bound" =>
                 /\ didOf[v] = NoDid
                 /\ sweepRec[v].active \in Dids
                 /\ controller[sweepRec[v].active] = v
                 /\ status[sweepRec[v].active] = "ACTIVE"
                 /\ valOf[sweepRec[v].active] = NoAccount
           /\ SweepOne(v) = "tombstoned" =>
                 /\ didOf[v] = NoDid
                 /\ StandingDids(v) = {}
                 /\ \E d \in Dids : controller[d] = v /\ status[d] = "REVOKED"
<1>1. v \in Accounts /\ didOf[v] \in Dids \cup {NoDid}
  BY DEF BindInv
<1>2. CASE didOf[v] # NoDid
  <2>1. didOf[v] \in Dids /\ status[didOf[v]] \in {"ACTIVE", "SUSPENDED"}
    BY <1>1, <1>2, AccountsFinite DEF BindInv, BindingOneToOne
  <2> QED
    BY <1>2, <2>1 DEF SweepOne
<1>3. CASE didOf[v] = NoDid /\ sweepRec[v].active = NoDid
  <2>1. SweepOne(v) = IF sweepRec[v].revoked /\ ~sweepRec[v].suspended
                      THEN "tombstoned" ELSE "jailed"
    BY <1>3 DEF SweepOne, Permanent
  <2>2. SweepOne(v) = "tombstoned" => sweepRec[v].revoked /\ ~sweepRec[v].suspended
    BY <2>1
  <2>3. SweepOne(v) = "tombstoned" =>
           StandingDids(v) = {} /\ \E d \in Dids : controller[d] = v /\ status[d] = "REVOKED"
    BY <1>1, <1>3, <2>2, RecordFacts, SMTT(30) DEF StandingDids
  <2> QED
    BY <1>3, <2>1, <2>3
<1>4. CASE didOf[v] = NoDid /\ sweepRec[v].active # NoDid
  <2>1. /\ sweepRec[v].active \in Dids
        /\ controller[sweepRec[v].active] = v
        /\ status[sweepRec[v].active] = "ACTIVE"
    BY <1>1, <1>4, RecordFacts
  <2>2. SweepOne(v) = IF valOf[sweepRec[v].active] \in {v, NoAccount} THEN "bound" ELSE "jailed"
    BY <1>4 DEF SweepOne
  <2>3. valOf[sweepRec[v].active] # v
    BY <1>1, <1>4, <2>1, Distinct DEF BindInv, BindingOneToOne
  <2> QED
    BY <1>4, <2>1, <2>2, <2>3
<1> QED
  BY <1>2, <1>3, <1>4

LEMMA SweepStep ==
    ASSUME BindInv, SweepValidatorBindings
    PROVE  /\ BindInv'
           /\ \A v \in last \cap last' : didOf'[v] # NoDid /\ status[didOf'[v]] = "ACTIVE"
           /\ \A v \in tombstoned' \ tombstoned : v \in last /\ SweepOne(v) = "tombstoned"
<1> DEFINE bound == {v \in last : SweepOne(v) = "bound"}
           dead == {v \in last : SweepOne(v) = "tombstoned"}
           p(v) == sweepRec[v].active
<1>1. /\ didOf' = [v \in Accounts |-> IF v \in bound THEN p(v)
                                      ELSE IF v \in dead THEN NoDid ELSE didOf[v]]
      /\ valOf' = [d \in Dids |->
            IF \E v \in bound : p(v) = d THEN CHOOSE v \in bound : p(v) = d
            ELSE IF \E v \in dead : didOf[v] = d THEN NoAccount ELSE valOf[d]]
      /\ jailed' = jailed \cup {v \in last : SweepOne(v) \in {"jailed", "tombstoned"}}
      /\ tombstoned' = tombstoned \cup dead
      /\ last' \in SUBSET (vals \ jailed')
      /\ vals' = vals
  BY DEF SweepValidatorBindings
<1>2. RegistryInv' /\ SweepExact' /\ status' = status
  BY RegistryKept DEF SweepValidatorBindings
<1>3. last \subseteq Accounts
  BY DEF BindInv
<1>4. \A v \in bound : /\ v \in Accounts /\ didOf[v] = NoDid /\ p(v) \in Dids
                       /\ controller[p(v)] = v /\ status[p(v)] = "ACTIVE"
                       /\ valOf[p(v)] = NoAccount
  BY <1>3, VerdictFacts
<1>5. \A v \in dead : didOf[v] = NoDid
  BY VerdictFacts
<1>6. \A v \in Accounts : didOf'[v] = IF v \in bound THEN p(v) ELSE didOf[v]
  BY <1>1, <1>5
<1>7. \A v \in bound : valOf'[p(v)] = v
  \* One controller per document: no other validator is bound to p(v).
  <2> TAKE v \in bound
  <2>1. \A w \in bound : p(w) = p(v) => w = v
    BY <1>4, SMTT(30)
  <2>2. p(v) \in Dids
    BY <1>4
  <2> QED
    BY <1>1, <2>1, <2>2
<1>8. ASSUME NEW d \in Dids, ~ \E v \in bound : p(v) = d
      PROVE  valOf'[d] = valOf[d]
  <2>1. ~ \E v \in dead : didOf[v] = d
    BY <1>5, Distinct
  <2> QED
    BY <1>1, <1>8, <2>1
<1>9. valOf' \in [Dids -> Accounts \cup {NoAccount}]
  <2>1. \A d \in Dids : valOf'[d] \in Accounts \cup {NoAccount}
    <3> TAKE d \in Dids
    <3>1. CASE \E v \in bound : p(v) = d
      BY <3>1, <1>4, <1>7
    <3>2. CASE ~ \E v \in bound : p(v) = d
      BY <3>2, <1>8 DEF BindInv
    <3> QED
      BY <3>1, <3>2
  <2> QED
    BY <1>1, <2>1
<1>10. didOf' \in [Accounts -> Dids \cup {NoDid}]
  <2>1. \A v \in Accounts : didOf'[v] \in Dids \cup {NoDid}
    BY <1>4, <1>6 DEF BindInv
  <2> QED
    BY <1>1, <2>1
<1>11. ASSUME NEW d \in Dids, valOf'[d] # NoAccount
       PROVE  didOf'[valOf'[d]] = d /\ status'[d] \in {"ACTIVE", "SUSPENDED"}
  <2>1. CASE \E v \in bound : p(v) = d
    BY <2>1, <1>2, <1>4, <1>6, <1>7, SMTT(30)
  <2>2. CASE ~ \E v \in bound : p(v) = d
    <3>1. valOf'[d] = valOf[d] /\ valOf[d] \in Accounts /\ didOf[valOf[d]] = d
      BY <2>2, <1>8, <1>11 DEF BindInv, BindingOneToOne
    <3>2. valOf[d] \notin bound
      BY <3>1, <1>4, Distinct
    <3> QED
      BY <3>1, <3>2, <1>2, <1>6, <1>11 DEF BindInv
  <2> QED
    BY <2>1, <2>2
<1>12. ASSUME NEW v \in Accounts, didOf'[v] # NoDid
       PROVE  valOf'[didOf'[v]] = v /\ v \in vals
  <2>1. CASE v \in bound
    BY <2>1, <1>6, <1>7 DEF BindInv
  <2>2. CASE v \notin bound
    <3>1. didOf'[v] = didOf[v] /\ didOf[v] \in Dids /\ valOf[didOf[v]] = v /\ v \in vals
      BY <2>2, <1>6, <1>12 DEF BindInv, BindingOneToOne
    <3>2. ~ \E w \in bound : p(w) = didOf[v]
      BY <3>1, <1>4, Distinct, SMTT(30)
    <3> QED
      BY <3>1, <3>2, <1>8
  <2> QED
    BY <2>1, <2>2
<1>13. BindingOneToOne'
  BY <1>11, <1>12 DEF BindingOneToOne
<1>14. BindInv'
  <2>1. vals' \subseteq Accounts /\ last' \subseteq vals'
    BY <1>1 DEF BindInv
  <2> QED
    BY <2>1, <1>1, <1>2, <1>9, <1>10, <1>11, <1>12, <1>13 DEF BindInv
<1>15. ASSUME NEW v \in last \cap last'
       PROVE  didOf'[v] # NoDid /\ status[didOf'[v]] = "ACTIVE"
  <2>1. SweepOne(v) \in {"kept", "bound"}
    BY <1>1, <1>15, VerdictFacts
  <2>2. CASE SweepOne(v) = "kept"
    BY <2>2, <1>3, <1>6, <1>15, VerdictFacts, Distinct, SMTT(30)
  <2>3. CASE SweepOne(v) = "bound"
    BY <2>3, <1>4, <1>6, <1>15, Distinct, SMTT(30)
  <2> QED
    BY <2>1, <2>2, <2>3
<1> QED
  BY <1>1, <1>14, <1>15

-----------------------------------------------------------------------------

LEMMA BindNext ==
    ASSUME BindInv, [ValNext]_valVars
    PROVE  BindInv'
<1>1. ASSUME NEW d \in Dids, NEW c \in Accounts, Register(d, c)
      PROVE  BindInv'
  <2>1. now \in Time
    BY DEF BindInv, RegistryInv, EligTypeOK
  <2> QED
    BY <1>1, <2>1, StandingStep DEF Register, RegisterDoc
<1>2. ASSUME NEW d \in Dids, NEW c \in Accounts, Move(d, c)
      PROVE  BindInv'
  <2>1. createdAt[d] \in Time
    BY <1>2 DEF Move, MoveDoc, BindInv, RegistryInv, DocsWellFormed, Registered
  <2> QED
    BY <1>2, <2>1, StandingStep DEF Move, MoveDoc
<1>3. ASSUME NEW d \in Dids, NEW st \in {"ACTIVE", "SUSPENDED"}, ChangeStatus(d, st)
      PROVE  BindInv'
  <2>1. controller[d] \in Accounts /\ createdAt[d] \in Time
    BY <1>3 DEF ChangeStatus, ChangeStatusDoc, BindInv, RegistryInv, DocsWellFormed, Registered
  <2> QED
    BY <1>3, <2>1, StandingStep DEF ChangeStatus, ChangeStatusDoc
<1>4. ASSUME NEW v \in Accounts, Unjail(v) \/ JailDowntime(v)
      PROVE  BindInv'
  <2>1. UNCHANGED eligVars /\ UNCHANGED <<valOf, didOf, sweepRec, vals, last>>
    BY <1>4 DEF Unjail, JailDowntime, bindVars
  <2>2. RegistryInv' /\ SweepExact' /\ status' = status
    BY <2>1, RegistryKept
  <2> QED
    BY <2>1, <2>2 DEF BindInv, BindingOneToOne
<1>5. CASE UNCHANGED valVars
  <2>1. UNCHANGED eligVars /\ UNCHANGED <<valOf, didOf, sweepRec, vals, last>>
    BY <1>5 DEF valVars, bindVars, stakingVars
  <2>2. RegistryInv' /\ SweepExact' /\ status' = status
    BY <2>1, RegistryKept
  <2> QED
    BY <2>1, <2>2 DEF BindInv, BindingOneToOne
<1> QED
  BY <1>1, <1>2, <1>3, <1>4, <1>5, RevokeStep, CreateStep, RemoveStep, SweepStep DEF ValNext

\* A new tombstone is the work of the sweep.
LEMMA TombstoneStep ==
    ASSUME BindInv, [ValNext]_valVars, NEW v \in tombstoned' \ tombstoned
    PROVE  StandingDids(v) = {} /\ \E d \in Dids : controller[d] = v /\ status[d] = "REVOKED"
<1>1. CASE SweepValidatorBindings
  BY <1>1, SweepStep, VerdictFacts
<1>2. CASE ~SweepValidatorBindings
  <2>1. tombstoned' \subseteq tombstoned
    BY <1>2 DEF ValNext, Register, Move, ChangeStatus, Revoke, CreateValidator, RemoveValidator,
                Unjail, JailDowntime, valVars, stakingVars
  <2> QED
    BY <2>1
<1> QED
  BY <1>1, <1>2

LEMMA BindInvariance == ValSpec => []BindInv
<1>1. BindInv /\ [ValNext]_valVars => BindInv'
  BY BindNext
<1> QED
  BY BindInit, <1>1, PTL DEF ValSpec

\* One validator per human: whatever mix of registrations, recoveries,
\* revocations, staking hooks and sweeps happens, the two directions of the
\* binding (BindValidatorToDID, UnbindValidator) agree.
THEOREM BindingCorrect == ValSpec => []BindingOneToOne
<1>1. BindInv => BindingOneToOne
  BY DEF BindInv
<1> QED
  BY BindInvariance, <1>1, PTL

\* A validator that stays in the active set across an end-block
\* (SweepValidatorBindings) is bound to an ACTIVE DID after it.
THEOREM SweepCorrect == ValSpec => SweptSetIdentified
<1>1. BindInv /\ [ValNext]_valVars =>
         [SweepValidatorBindings => \A v \in last \cap last' :
                         didOf'[v] # NoDid /\ status[didOf'[v]] = "ACTIVE"]_valVars
  BY SweepStep
<1> QED
  BY BindInvariance, <1>1, PTL DEF ValSpec, SweptSetIdentified

\* removeByIdentityStatus strikes for good only an operator with a REVOKED DID
\* and none that could still be reinstated.
THEOREM TombstoneCorrect == ValSpec => TombstoneOnlyRevoked
<1>1. BindInv /\ [ValNext]_valVars =>
         [\A v \in tombstoned' \ tombstoned :
             StandingDids(v) = {} /\ \E d \in Dids : controller[d] = v /\ status[d] = "REVOKED"]_valVars
  BY TombstoneStep
<1> QED
  BY BindInvariance, <1>1, PTL DEF ValSpec, TombstoneOnlyRevoked
=============================================================================
