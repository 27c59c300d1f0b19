---------------------------- MODULE MCRecovery ----------------------------
EXTENDS Recovery, TLC

CONSTANTS d1, d2, d3, a1, a2, a3, s1, s2

\* The guardian at genesis; the subject registers.
GuardianOnly == [d \in Dids |-> IF d = d2 THEN a2 ELSE NoAccount]

\* A replacement that enrols nobody who could guard d1.
ReplacedGuardians ==
    {[commits |-> {<<d2, s1>>}, threshold |-> 1],
     [commits |-> {<<d1, s1>>}, threshold |-> 1]}

OneParam ==
    {[delay |-> 1, ttl |-> 2, maxOpen |-> 2, maxGuardians |-> 3, deposit |-> 1]}

\* Governance moves between a long and a short window, with and without a
\* deposit; the long delay exceeds the short TTL.
TwoParams ==
    OneParam \cup
    {[delay |-> 3, ttl |-> 4, maxOpen |-> 1, maxGuardians |-> 3, deposit |-> 0]}

NonceSymmetry == Permutations(Nonces)
=============================================================================
