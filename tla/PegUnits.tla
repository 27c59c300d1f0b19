----------------------------- MODULE PegUnits -------------------------------
(***************************************************************************)
(* The units of x/institutions and the integer arithmetic between them:    *)
(* uphi, phi, toman and basis points.                                      *)
(***************************************************************************)
EXTENDS Integers

CONSTANTS
    UphiPerPhi,     \* uphi in one phi (one million)
    BpsDenominator, \* basis points in one (ten thousand)
    Tomans,         \* the toman amounts messages carry
    Carves,         \* the fees and penalties, in uphi, of a redemption
    MaxBacking      \* bound on what the vaults hold

ASSUME Units ==
    /\ UphiPerPhi \in Nat \ {0} /\ BpsDenominator \in Nat \ {0}
    /\ Tomans \subseteq Nat /\ Carves \subseteq Nat /\ MaxBacking \in Nat

MinInt(a, b) == IF a <= b THEN a ELSE b

\* Params.Validate: a rate, in toman per phi, divides UphiPerPhi.
Rates == {r \in 1..UphiPerPhi : UphiPerPhi % r = 0}

\* MintedUphiForToman, and whether it is integral.
MintedUphi(toman, rate) == (toman * UphiPerPhi) \div rate
Integral(toman, rate) == (toman * UphiPerPhi) % rate = 0

UphiPerToman(rate) == UphiPerPhi \div rate

ProtocolFee(uphi, bps) == (uphi * bps) \div BpsDenominator

\* The largest multiple of k up to x.
RoundDown(x, k) == x - (x % k)

\* ComputeRedeemSplit of x uphi surrendered: at most x is carved out; the rest
\* is burned in whole toman; a carve-out that leaves less than one toman gives
\* way, the penalty first.
ComputeRedeemSplit(x, fee, penalty, rate) ==
    LET k == UphiPerToman(rate)
        carve == MinInt(fee + penalty, x)
        fee0 == MinInt(fee, carve)
        pen0 == carve - fee0
        burnable == x - carve
        rounded == RoundDown(burnable, k)
        short == IF rounded <= 0 /\ x >= k THEN k - burnable ELSE 0
        fromPen == MinInt(short, pen0)
        burned == IF rounded <= 0 /\ x >= k THEN k ELSE rounded
        fee1 == fee0 - MinInt(short - fromPen, fee0)
        pen1 == pen0 - fromPen
    IN  [burned |-> burned, fee |-> fee1, penalty |-> pen1,
         dust |-> x - burned - fee1 - pen1, tomanOut |-> burned \div k]
=============================================================================
