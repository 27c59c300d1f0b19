------------------------------- MODULE MCFees -------------------------------
(* Two humans and a sponsor; fees that no split divides evenly. *)
EXTENDS Fees

CONSTANTS a1, a2, a3

Msg(type, from, to, amount, signers) ==
    [type |-> type, from |-> from, to |-> to, amount |-> amount, signers |-> signers]
Tx(payer, granter, msgs) == [payer |-> payer, granter |-> granter, msgs |-> msgs]

Small(from, to) == Tx(from, NoAccount, <<Msg("transfer", from, to, 1, 0)>>)
\* A transfer above the threshold paid by another signer.
CoPaid == Tx(a3, NoAccount, <<Msg("transfer", a1, a2, 2, 0)>>)
\* Two messages of one sender, charged to the sponsor a3, whom the second
\* pays back a part when the sender has it.
Sponsored == Tx(a1, a3, <<Msg("agreement", a1, a1, 0, 2), Msg("transfer", a1, a3, 1, 0)>>)
LessTxs == {Small(a1, a2), CoPaid, Sponsored}

P(quota, payout) ==
    [quota |-> quota, threshold |-> 2, payout |-> payout, defaultFee |-> 1, extra |-> 1,
     freeSigners |-> 1, fees |-> [t \in {"transfer"} |-> 3],
     split |-> [t \in {"transfer"} |-> [validator |-> 6, company |-> 4]]]
MixedParams == {P(1, NoAccount), P(2, a2)}
OneParam == {P(2, NoAccount)}

Funds == [a \in Accounts |-> IF a = a3 THEN 6 ELSE 3]
OwnHolder == [d \in Dids |-> IF d = 1 THEN a1 ELSE a2]
SponsorGrants == [p \in Accounts \X Accounts |-> IF p = <<a3, a1>> THEN 6 ELSE 0]
=============================================================================
