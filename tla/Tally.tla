------------------------------- MODULE Tally -------------------------------
(***************************************************************************)
(* The running tally of x/governance and its pruning, as functions on the  *)
(* stored records: per proposal, the option counted for each voter, a      *)
(* counter per option, the turnout and the eligibility basis.              *)
(***************************************************************************)
EXTENDS Integers, FiniteSets

Options == {"YES", "NO", "VETO", "ABSTAIN"}
Uncast == "-"
Absent == -1
NoBasis == [denominator |-> 0, cutoff |-> 0, frozenAt |-> 0]

\* dominantOption: the single heaviest option of a weighted ballot, a tie
\* counting as an abstention.
DominantOption(heaviest) ==
    IF \E o \in heaviest : heaviest = {o} THEN CHOOSE o \in heaviest : TRUE
    ELSE "ABSTAIN"

\* An option without a stored counter reads as zero.
Reads(cs, o) == IF cs[o] = Absent THEN 0 ELSE cs[o]

\* addOptionCount with applyDelta's floor at zero.
Bump(cs, o, delta) ==
    LET new == Reads(cs, o) + delta
    IN  [cs EXCEPT ![o] = IF new < 0 THEN 0 ELSE new]

\* RecordVote's counters: retract the previous option, add the new one.
Recount(cs, prev, o) ==
    IF prev = o THEN cs
    ELSE IF prev = Uncast THEN Bump(cs, o, 1)
    ELSE Bump(Bump(cs, prev, -1), o, 1)

\* One iteration of PruneStep's loop over the queued ids.  Per-voter records
\* go first, and the aggregates only in a pass that finds none left.
PruneOne(s, p, budget) ==
    LET cast   == s.counted[p]
        voters == {a \in DOMAIN cast : cast[a] # Uncast}
        room   == budget - s.deleted
        size   == IF Cardinality(voters) < room THEN Cardinality(voters) ELSE room
        batch  == CHOOSE b \in SUBSET voters : Cardinality(b) = size
        keys   == {o \in Options : s.counts[p][o] # Absent}
    IN  CASE p \notin s.queue \/ s.deleted >= budget -> s
          [] p \in s.queue /\ s.deleted < budget /\ voters # {} ->
               [counted |-> [s.counted EXCEPT ![p] = [a \in DOMAIN cast |->
                                IF a \in batch THEN Uncast ELSE cast[a]]],
                counts  |-> s.counts,
                turnout |-> s.turnout,
                basis   |-> s.basis,
                queue   |-> s.queue,
                deleted |-> s.deleted + size]
          [] OTHER ->
               [counted |-> s.counted,
                counts  |-> [s.counts EXCEPT ![p] = [o \in Options |-> Absent]],
                turnout |-> [s.turnout EXCEPT ![p] = 0],
                basis   |-> [s.basis EXCEPT ![p] = NoBasis],
                queue   |-> s.queue \ {p},
                deleted |-> s.deleted + Cardinality(keys) + 1]

\* PruneStep on the records s of proposals 1..n, in ascending id.
Pruned(s, n, budget) ==
    LET pass[i \in 0..n] == IF i = 0 THEN s ELSE PruneOne(pass[i - 1], i, budget)
    IN  pass[n]

=============================================================================
