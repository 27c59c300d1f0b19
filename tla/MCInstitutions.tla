--------------------------- MODULE MCInstitutions ---------------------------
(* Small instances of module Institutions. *)
EXTENDS Institutions

CONSTANTS a1, a2, a3, none

TwoRoot == <<a1, none>>
OneRoot == <<a1>>
TwoAdmins ==
    [i \in Ids |-> [a \in Accounts |-> IF i = 1 /\ a = a2 THEN "ADMIN" ELSE NoRole]]
NoTiers == [i \in Ids |-> {}]
OneTier == [i \in Ids |-> IF i = 1 THEN {<<a3, 1>>} ELSE {}]

NoCaps == [threshold |-> 0, latency |-> 0, redTx |-> 0, redDay |-> 0, redUser |-> 0,
           kyc |-> <<0>>]
ThreeToSign == [NoCaps EXCEPT !.threshold = 3]
TwoParams == {NoCaps, ThreeToSign}
OneParam == {ThreeToSign}
NoInputs == {}
DefaultParams == {[floor |-> 2, stale |-> 1]}

EitherA2 == {<<a2, "FINANCIAL">>, <<a2, "FX">>}
OnlyA2 == {a2}
=============================================================================
