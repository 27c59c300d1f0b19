---------------------------- MODULE MCElections ----------------------------
(* Two DIDs, accounts and keys; one hash, template and election. *)
EXTENDS Elections, TLC

CONSTANTS d1, d2, a1, a2, k1, k2, v1, v2, v3

Sym == Permutations(Dids) \cup Permutations({v1, v2})
Policy(count, indices) == [count |-> count, indices |-> indices]
TwoPolicies == {Policy(2, {0}), Policy(2, {0, 1})}
AllActive == [d \in Dids |-> [status |-> "ACTIVE", controller |-> a1, key |-> k1]]
TwoHolders == [key \in BbsKeys |-> IF key = "b1" THEN {v1, v2} ELSE {v3}]
NowOrLater == {<<0, 1>>, <<0, 2>>, <<1, 2>>, <<1, 3>>}
TwoParams == {[maxOptions |-> 2, minPeriod |-> 0, maxPeriod |-> 0],
              [maxOptions |-> 3, minPeriod |-> 2, maxPeriod |-> 2]}
=============================================================================
