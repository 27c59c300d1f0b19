----------------------------- MODULE HumanVote -----------------------------
(***************************************************************************)
(* One human, one vote: x/governance on top of x/gov and the identity      *)
(* registry.  When a proposal enters its voting period the hook freezes an *)
(* eligibility basis (cutoff, denominator, moment); each ballot is judged  *)
(* against that basis and folded into a running tally; x/gov's end-blocker *)
(* decides the proposal from the tally; afterwards the per-proposal        *)
(* records are pruned within a per-block budget.                           *)
(*                                                                         *)
(* x/gov itself (deposits, voting periods, expedited proposals) is an      *)
(* external library, modelled from how the hooks and the tally function    *)
(* use it.  Identities change through the actions of module Eligibility.   *)
(***************************************************************************)
EXTENDS Eligibility, Tally

CONSTANTS
    N,            \* proposals have ids 1..N
    Msgs,         \* the message types each proposal carries
    Validators,   \* accounts of active validator operators
    MinAges,      \* min_identity_age values governance may set
    RouteTables,  \* sets of message types governance may route TECHNICAL
    Period,       \* regular voting period
    FastPeriod,   \* expedited voting period
    Budget,       \* PruneBudgetPerBlock
    Ballots,      \* bound: the sets of heaviest options ballots may have
    Movable       \* bound: the DIDs that may change during the votes

ASSUME ProposalCount == N \in Nat
ASSUME Periods == Period \in Nat /\ FastPeriod \in Nat /\ FastPeriod <= Period
ASSUME BudgetPositive == Budget \in Nat \ {0}
ASSUME BallotSets == Ballots \subseteq (SUBSET {"YES", "NO", "VETO", "ABSTAIN"}) \ {{}}
ASSUME MinAgesNat == MinAges \subseteq Nat
ASSUME MovableDids == Movable \subseteq Dids

Proposals == 1..N
Mapping == "mapping"    \* MappingUpdateMsgTypeURL

VARIABLES
    minAge,      \* identity params: min_identity_age_seconds
    technical,   \* governance params: message types routed TECHNICAL
    phase,       \* x/gov status of each proposal
    expedited,   \* x/gov: still on the expedited track
    votingStart, \* x/gov: VotingStartTime
    basis,       \* frozen eligibility basis, or NoBasis
    counted,     \* per-voter record: the option counted, or Uncast
    counts,      \* per-option counter, or Absent
    turnout,     \* number of distinct voters counted
    queue,       \* proposals queued for pruning
    members,     \* history: the controllers the denominator counted
    late         \* history: controllers whose standing was stamped in the
                 \* second of the freeze, after it

tallyVars == <<basis, counted, counts, turnout, queue>>
govVars == <<phase, expedited, votingStart>>
histVars == <<members, late>>
vars == <<eligVars, minAge, technical, govVars, tallyVars, histVars>>

-----------------------------------------------------------------------------
(* Routing and tallying *)

\* types.Classify: PUBLIC unless every message is routed TECHNICAL; the
\* mapping update is never table-governed.
Technical(p) ==
    Msgs[p] # {} /\ \A m \in Msgs[p] : m # Mapping /\ m \in technical

\* GetRunningTally
Count(p, o) == Reads(counts[p], o)

\* tallyPublicLive and x/gov's Tally over head counts, with x/gov's default
\* quorum .334, veto threshold .334 and thresholds .5 (expedited .667): the
\* scale bonded/denominator of scalePublicResults cancels out of each ratio,
\* up to its rounding at 18 decimals.  A missing basis falls back to the
\* eligible-controller total.
PublicPasses(p) ==
    LET heads == IF basis[p] = NoBasis THEN elig.total ELSE basis[p].denominator
        decided == turnout[p] - Count(p, "ABSTAIN")
    IN  /\ heads > 0 /\ turnout[p] > 0
        /\ 1000 * turnout[p] >= 334 * heads
        /\ decided > 0
        /\ 1000 * Count(p, "VETO") <= 334 * turnout[p]
        /\ 1000 * Count(p, "YES") > (IF expedited[p] THEN 667 ELSE 500) * decided

-----------------------------------------------------------------------------
(* The x/gov hooks *)

\* freezeEligibilityOnce: the basis of p after the hook, taken at the voting
\* start vs.
FrozenBasis(p, vs) ==
    IF basis[p] # NoBasis THEN basis[p]
    ELSE [denominator |-> CountEligibleControllersAt(vs - minAge),
          cutoff |-> vs - minAge, frozenAt |-> now]

\* AddDeposit: x/gov starts the voting period when the deposit suffices, then
\* calls AfterProposalDeposit, which freezes the basis of a voting proposal.
AddDeposit(p, suffices) ==
    LET starts == phase[p] = "DEPOSIT" /\ suffices
        vs     == IF starts THEN now ELSE votingStart[p]
        votes  == phase[p] = "VOTING" \/ starts
    IN  /\ phase[p] \in {"DEPOSIT", "VOTING"}
        /\ votingStart' = [votingStart EXCEPT ![p] = vs]
        /\ phase' = [phase EXCEPT ![p] = IF starts THEN "VOTING" ELSE @]
        /\ basis' = [basis EXCEPT ![p] = IF votes THEN FrozenBasis(p, vs) ELSE @]
        /\ members' = [members EXCEPT ![p] =
              IF votes /\ basis[p] = NoBasis
              THEN EligibleControllers(vs - minAge) ELSE @]
        /\ UNCHANGED <<eligVars, minAge, technical, expedited, counted, counts,
                       turnout, queue, late>>

\* Faulty RecordVote: a changed ballot leaves its previous option counted.
RecordVoteTwice(p, a, o) ==
    LET prev == counted[p][a]
    IN  /\ counted' = [counted EXCEPT ![p][a] = o]
        /\ turnout' = [turnout EXCEPT ![p] = IF prev = Uncast THEN @ + 1 ELSE @]
        /\ counts' = [counts EXCEPT ![p] = IF prev = o THEN @ ELSE Bump(@, o, 1)]

\* RecordVote: a changed ballot retracts its previous contribution, a first
\* ballot adds to the turnout, an unchanged one leaves the tally alone.
RecordVote(p, a, o) ==
    LET prev == counted[p][a]
    IN  /\ counted' = [counted EXCEPT ![p][a] = o]
        /\ turnout' = [turnout EXCEPT ![p] = IF prev = Uncast THEN @ + 1 ELSE @]
        /\ counts' = [counts EXCEPT ![p] = Recount(@, prev, o)]

\* AddVote with AfterProposalVote: x/gov stores the ballot, recordBallot
\* takes the basis if there is none and counts or refuses the voter.
Vote(p, a, heaviest) ==
    /\ phase[p] = "VOTING"
    /\ CanTransact(a)
    /\ LET b == FrozenBasis(p, votingStart[p])
       IN  /\ basis' = [basis EXCEPT ![p] = b]
           /\ IF Technical(p)
              THEN a \in Validators /\ UNCHANGED <<counted, counts, turnout>>
              ELSE /\ IsEligibleControllerSince(a, b.cutoff, b.frozenAt)
                   /\ RecordVote(p, a, DominantOption(heaviest))
    /\ UNCHANGED <<eligVars, minAge, technical, govVars, queue, histVars>>

\* CancelProposal: x/gov deletes the proposal and calls no hook.
CancelProposal(p) ==
    /\ phase[p] \in {"DEPOSIT", "VOTING"}
    /\ phase' = [phase EXCEPT ![p] = "CANCELLED"]
    /\ UNCHANGED <<eligVars, minAge, technical, expedited, votingStart,
                   tallyVars, histVars>>

-----------------------------------------------------------------------------
(* End of a block: x/gov decides the due proposals, x/governance prunes *)

\* PruneStep over a queue.
PruneStep(q) ==
    Pruned([counted |-> counted, counts |-> counts, turnout |-> turnout,
            basis |-> basis, queue |-> q, deleted |-> 0], N, Budget)

\* Proposals whose voting period has run out.
VotingEnd(p) == votingStart[p] + (IF expedited[p] THEN FastPeriod ELSE Period)
Due == {p \in Proposals : phase[p] = "VOTING" /\ now >= VotingEnd(p)}

\* The due proposals that carry; the validators' ballots on the TECHNICAL
\* route are left open.
Carried(tech) ==
    {p \in Due : IF Technical(p) THEN p \in tech ELSE PublicPasses(p)}

\* Faulty Enqueued: the hook does not queue what the tally left out.
EnqueuedWithoutHook(tech) == queue \cup {p \in Due : ~expedited[p]}

\* prunableAtTally queues a regular proposal at its tally, and
\* AfterProposalVotingPeriodEnded any proposal that left the voting period.
Enqueued(tech) ==
    queue \cup {p \in Due : ~expedited[p]} \cup {p \in Due : p \in Carried(tech)}

\* The x/gov end-blocker, then the governance one, then a later block (block
\* times are seconds: the next block may fall into the same one).  An
\* expedited proposal that does not carry becomes a regular one.
EndBlock(t, tech) ==
    LET ok == Carried(tech)
        converted == {p \in Due \ ok : expedited[p]}
        pruned == PruneStep(Enqueued(tech))
    IN  /\ phase' = [p \in Proposals |->
              IF p \notin Due \/ p \in converted THEN phase[p]
              ELSE IF p \in ok THEN "PASSED" ELSE "REJECTED"]
        /\ expedited' = [p \in Proposals |-> expedited[p] /\ p \notin converted]
        /\ counted' = pruned.counted
        /\ counts' = pruned.counts
        /\ turnout' = pruned.turnout
        /\ basis' = pruned.basis
        /\ queue' = pruned.queue
        /\ now' = t
        /\ UNCHANGED <<registryVars, minAge, technical, votingStart, histVars>>

-----------------------------------------------------------------------------
(* The surroundings: identities and parameters change while a vote runs *)

\* Controllers whose standing a registry step begins or improves.
Gained ==
    {c \in elig'.rec : c \notin elig.rec \/ elig'.oldest[c] < elig.oldest[c]}

RegistryStep ==
    /\ \/ \E d \in Movable, c \in Accounts : RegisterDoc(d, c)
       \/ \E d \in Movable : RevokeDoc(d)
       \/ \E d \in Movable, st \in {"ACTIVE", "SUSPENDED"} : ChangeStatusDoc(d, st)
       \/ \E d \in Movable, c \in Accounts : MoveDoc(d, c)
    /\ late' = [p \in Proposals |->
                  IF basis[p] # NoBasis /\ basis[p].frozenAt = now
                  THEN late[p] \cup Gained ELSE late[p]]
    /\ UNCHANGED <<minAge, technical, govVars, tallyVars, members>>

\* x/identity MsgUpdateParams, the voting age.
SetMinAge(m) ==
    /\ minAge' = m
    /\ UNCHANGED <<eligVars, technical, govVars, tallyVars, histVars>>

\* x/governance MsgUpdateParams; Validate refuses a row for the mapping.
UpdateParams(table) ==
    /\ Mapping \notin table
    /\ technical' = table
    /\ UNCHANGED <<eligVars, minAge, govVars, tallyVars, histVars>>

Init ==
    /\ EligInit
    /\ minAge \in MinAges
    /\ technical \in {t \in RouteTables : Mapping \notin t}
    /\ phase = [p \in Proposals |-> "DEPOSIT"]
    /\ expedited \in [Proposals -> BOOLEAN]
    /\ votingStart = [p \in Proposals |-> 0]
    /\ basis = [p \in Proposals |-> NoBasis]
    /\ counted = [p \in Proposals |-> [a \in Accounts |-> Uncast]]
    /\ counts = [p \in Proposals |-> [o \in Options |-> Absent]]
    /\ turnout = [p \in Proposals |-> 0]
    /\ queue = {}
    /\ members = [p \in Proposals |-> {}]
    /\ late = [p \in Proposals |-> {}]

EndSomeBlock ==
    \E t \in now..MaxTime, tech \in SUBSET {p \in Due : Technical(p)} : EndBlock(t, tech)

Next ==
    \/ \E p \in Proposals, suffices \in BOOLEAN : AddDeposit(p, suffices)
    \/ \E p \in Proposals, a \in Accounts, h \in Ballots : Vote(p, a, h)
    \/ \E p \in Proposals : CancelProposal(p)
    \/ EndSomeBlock
    \/ RegistryStep
    \/ \E m \in MinAges : SetMinAge(m)
    \/ \E t \in RouteTables : UpdateParams(t)

Spec == Init /\ [][Next]_vars

\* Consensus keeps producing blocks.
FairSpec == Spec /\ WF_vars(EndSomeBlock)

-----------------------------------------------------------------------------
(* Properties *)

CountedVoters(p) == {a \in Accounts : counted[p][a] # Uncast}
VotersFor(p, o) == {a \in Accounts : counted[p][a] = o}

\* Until a proposal is queued for pruning its turnout is the number of
\* voters on record and each option's counter the number of them recorded
\* under it: a re-vote moves one head and never adds or loses one.
TallyMatchesBallots ==
    \A p \in Proposals : p \notin queue =>
        /\ turnout[p] = Cardinality(CountedVoters(p))
        /\ \A o \in Options : Count(p, o) = Cardinality(VotersFor(p, o))

\* Every counted voter was in the set the frozen denominator counted, unless
\* its standing was gained in the very second of the freeze: identities
\* recovered, registered, aged or re-parameterised during the vote add
\* nobody to the numerator.
VotersWithinBasis ==
    \A p \in Proposals : CountedVoters(p) \subseteq members[p] \cup late[p]

\* Every decided proposal's records are eventually deleted.
DecidedIsPruned ==
    \A p \in Proposals :
        (phase[p] \in {"PASSED", "REJECTED"}) ~>
            (p \notin queue /\ basis[p] = NoBasis /\ CountedVoters(p) = {})

=============================================================================
