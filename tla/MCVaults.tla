------------------------------ MODULE MCVaults ------------------------------
(* Small instances of module Vaults. *)
EXTENDS Vaults

CONSTANTS a1, a2, a3, none, d1, r1, r2

OneRoot == <<a1>>
A2Admin == [i \in Ids |-> [a \in Accounts |-> IF a = a2 THEN "ADMIN" ELSE NoRole]]
BothAdmins == [i \in Ids |-> [a \in Accounts |-> IF a = a1 THEN NoRole ELSE "ADMIN"]]
NoTiers == [i \in Ids |-> {}]
Reserve3 == [i \in Ids |-> 3]
NoInputs == {}

NoCaps == [threshold |-> 0, latency |-> 0, mintTx |-> 0, mintDay |-> 0, mintUser |-> 0,
           redTx |-> 0, redDay |-> 0, redUser |-> 0, kyc |-> <<0>>]
RedeemCaps == {[NoCaps EXCEPT !.redDay = 1, !.kyc = <<1>>]}

Base == [rate |-> 2, feeBps |-> 0, floor |-> 1, didCap |-> 0,
         mintTx |-> 0, mintDay |-> 0, large |-> 0, stale |-> 0]
RatesAndFloors == {[Base EXCEPT !.feeBps = 1], [Base EXCEPT !.rate = 1],
                   [Base EXCEPT !.feeBps = 1, !.floor = 2, !.didCap = 4]}
LargeTwo == {[Base EXCEPT !.large = 2]}

Off == [active |-> FALSE, started |-> 0, cap0 |-> Unset, cap30 |-> Unset, cap60 |-> Unset]
Step == [Off EXCEPT !.cap0 = 0]
OnlyStep == {Step}

Mint(a, t, r) == [to |-> a, toman |-> t, ref |-> r, tier |-> 1]
By(a, t, r) == [by |-> a, toman |-> t, ref |-> r]
CapMints == {Mint(a1, 3, r1)}
CapRedeems == {By(a1, 1, r1), By(a2, 1, r2)}
RefMints == {Mint(a1, 1, r1), Mint(a1, 2, r1)}
RefRedeems == {By(a1, 1, r1)}
RegisterA1 == {<<a1, "FINANCIAL">>}
EitherA3 == {<<a3, "ADMIN">>, <<a3, "COMPLIANCE">>}
=============================================================================
