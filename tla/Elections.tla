----------------------------- MODULE Elections -----------------------------
(***************************************************************************)
(* Anonymous elections of x/voting, gated by a credential template of      *)
(* x/credentials.  phi-crypto is external: a derivation proof verifies     *)
(* when its holder has a credential under the template's issuer key, for   *)
(* the nullifier that is derived from holder and election and for the      *)
(* option it was made for.                                                 *)
(***************************************************************************)
EXTENDS Credentials

CONSTANTS
    Elections,
    Voters,            \* credential secrets; a nullifier stands for its secret
    Holds,             \* issuer BBS+ key -> voters with a credential under it
    Options,           \* option counts an election may have
    Windows,           \* <<start, end>> a creation may ask for, 0 for "now"
    VotingParams,      \* parameter values governance may set
    SoundnessEnforced, \* the build's VotingSoundnessEnforced
    MaxTally           \* the largest uint64

ASSUME ElectionBounds ==
    /\ Options \subseteq Nat /\ Windows \subseteq Nat \X Nat
    /\ SoundnessEnforced \in BOOLEAN /\ MaxTally \in Nat

VARIABLES
    elections, \* id -> election, or None
    ballots,   \* <<election, nullifier>> -> ballot, on the keys in the store
    vparams,   \* MaxOptions and the bounds on the window
    keyAt,     \* history: the issuer key when the election was created
    family     \* bound: the records a behaviour is about
Families == {"anchors", "agreements", "elections"}
electionVars == <<elections, ballots, vparams, keyAt>>
allVars == <<vars, electionVars, family>>

\* types.Params.Validate; a maximum of zero means no bound.
ValidVotingParams(p) ==
    /\ p.maxOptions >= 2 /\ p.minPeriod >= 0
    /\ p.maxPeriod = 0 \/ p.maxPeriod >= p.minPeriod

CreateElection(e, a, n, w, id) ==
    LET start == IF w[1] = 0 THEN now ELSE w[1]
        length == w[2] - start
    IN  /\ elections[e] = None
        /\ n \in 2..vparams.maxOptions
        /\ w[2] > w[1] /\ length > 0 /\ length >= vparams.minPeriod
        /\ vparams.maxPeriod > 0 => length <= vparams.maxPeriod
        /\ templates[id] # None
        /\ elections' = [elections EXCEPT ![e] =
               [creator |-> a, template |-> id, start |-> start, end |-> w[2],
                status |-> "OPEN", tallies |-> [i \in 1..n |-> 0], total |-> 0]]
        /\ keyAt' = [keyAt EXCEPT ![e] = templates[id].key]
        /\ UNCHANGED <<vars, ballots, vparams>>

\* VerifyDerivationVote (external).
VerifyDerivationVote(key, v) == v \in Holds[key]

\* The tally after a vote for option i.
Counted(el, i) == [el EXCEPT !.tallies[i] = @ + 1, !.total = @ + 1]

\* SetBallot: the ballots with x stored under b.
SetBallot(b, x) == [c \in DOMAIN ballots \cup {b} |-> IF c = b THEN x ELSE ballots[c]]

\* Faulty vote: no look at the nullifier.
CastVoteAgain(e, v, i) ==
    LET el == elections[e]
    IN  /\ SoundnessEnforced
        /\ el # None /\ el.status = "OPEN" /\ el.start <= now /\ now <= el.end
        /\ i \in DOMAIN el.tallies
        /\ VerifyDerivationVote(templates[el.template].key, v)
        /\ el.total < MaxTally /\ el.tallies[i] < MaxTally
        /\ ballots' = SetBallot(<<e, v>>, [option |-> i, at |-> now])
        /\ elections' = [elections EXCEPT ![e] = Counted(@, i)]
        /\ UNCHANGED <<vars, vparams, keyAt>>

CastVote(e, v, i) ==
    LET el == elections[e]
    IN  /\ SoundnessEnforced
        /\ el # None /\ el.status = "OPEN" /\ el.start <= now /\ now <= el.end
        /\ i \in DOMAIN el.tallies /\ <<e, v>> \notin DOMAIN ballots
        /\ VerifyDerivationVote(templates[el.template].key, v)
        /\ el.total < MaxTally /\ el.tallies[i] < MaxTally
        /\ ballots' = SetBallot(<<e, v>>, [option |-> i, at |-> now])
        /\ elections' = [elections EXCEPT ![e] = Counted(@, i)]
        /\ UNCHANGED <<vars, vparams, keyAt>>

CloseElection(e, a) ==
    /\ elections[e] # None /\ elections[e].creator = a /\ elections[e].status = "OPEN"
    /\ elections' = [elections EXCEPT ![e].status = "CLOSED"]
    /\ UNCHANGED <<vars, ballots, vparams, keyAt>>

CancelElection(e, a) ==
    /\ elections[e] # None /\ elections[e].creator = a /\ elections[e].status = "OPEN"
    /\ elections[e].total = 0
    /\ elections' = [elections EXCEPT ![e].status = "CANCELLED"]
    /\ UNCHANGED <<vars, ballots, vparams, keyAt>>

UpdateVotingParams(p) ==
    /\ ValidVotingParams(p)
    /\ vparams' = p
    /\ UNCHANGED <<vars, elections, ballots, keyAt>>

ElectionInit ==
    /\ Init
    /\ elections = [e \in Elections |-> None]
    /\ ballots = [b \in {} |-> 0]
    /\ vparams \in VotingParams
    /\ keyAt = [e \in Elections |-> "nokey"]
    /\ family \in Families

ElectionNext ==
    \/ \E e \in Elections, a \in Accounts :
           \/ \E n \in Options, w \in Windows, id \in Templates : CreateElection(e, a, n, w, id)
           \/ CloseElection(e, a)
           \/ CancelElection(e, a)
    \/ \E e \in Elections, v \in Voters, i \in 1..Max(Options) : CastVote(e, v, i)
    \/ \E p \in VotingParams : UpdateVotingParams(p)

\* Anchors, agreements and elections meet only in the templates and in the
\* identities, so a behaviour is about one family of records.
AllNext ==
    /\ UNCHANGED family
    /\ \/ family = "anchors" /\ (IdentityNext \/ TemplateNext \/ AnchorNext) /\ UNCHANGED electionVars
       \/ family = "agreements" /\ (IdentityNext \/ Tick \/ AgreementNext) /\ UNCHANGED electionVars
       \/ family = "elections" /\ (Tick \/ TemplateNext) /\ UNCHANGED electionVars
       \/ family = "elections" /\ ElectionNext

ElectionSpec == ElectionInit /\ [][AllNext]_allVars

-----------------------------------------------------------------------------
(* Properties *)

BallotsOf(e) == {b \in DOMAIN ballots : b[1] = e}
VotesFor(e, i) == {b \in BallotsOf(e) : ballots[b].option = i}

\* GenesisState.Validate as an invariant: recounted from the ballots, which
\* the store keys by nullifier, every tally and total is what the election
\* carries; so a repeated vote neither counts twice nor moves a vote.
TalliesMatchBallots ==
    \A e \in Elections : elections[e] # None =>
        /\ \A i \in DOMAIN elections[e].tallies :
               elections[e].tallies[i] = Cardinality(VotesFor(e, i))
        /\ elections[e].total = Cardinality(BallotsOf(e))

\* The electorate is fixed at creation: updates and deprecation of the
\* template never change the key an election's ballots are verified under, so
\* every ballot is of a holder of that key's credentials.
ElectorateFixed ==
    /\ \A e \in Elections : elections[e] # None =>
           templates[elections[e].template].key = keyAt[e]
    /\ \A b \in DOMAIN ballots : b[2] \in Holds[keyAt[b[1]]]

=============================================================================
