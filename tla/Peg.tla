-------------------------------- MODULE Peg ---------------------------------
(***************************************************************************)
(* What x/institutions promises about money: the supply of uphi is at all  *)
(* times worth exactly what the vaults hold, at the governed rate.  Module *)
(* Vaults implements this specification.                                   *)
(***************************************************************************)
EXTENDS PegUnits

VARIABLES supply, backing, rate
pegVars == <<supply, backing, rate>>

\* SolvencyInvariant: the supply, at the rate, is worth the vaults' total.
Solvent == supply * rate = backing * UphiPerPhi

\* InitGenesis refuses a genesis that is not solvent.
PegInit ==
    /\ rate \in Rates
    /\ supply \in Nat /\ backing \in Nat
    /\ Solvent

\* Toman deposited and the uphi it is worth enter together.
Mint(toman) ==
    /\ toman > 0 /\ Integral(toman, rate)
    /\ backing + toman <= MaxBacking
    /\ supply' = supply + MintedUphi(toman, rate)
    /\ backing' = backing + toman
    /\ rate' = rate

\* The burned uphi and the toman it is worth leave together, whatever part of
\* the surrendered coin is carved out.
Redeem(toman, fee, penalty) ==
    LET x == MintedUphi(toman, rate)
        split == ComputeRedeemSplit(x, fee, penalty, rate)
    IN  /\ toman > 0 /\ toman <= backing /\ Integral(toman, rate)
        /\ x >= UphiPerToman(rate)
        /\ split.burned > 0
        /\ supply' = supply - split.burned
        /\ backing' = backing - split.tomanOut
        /\ rate' = rate

\* SetParams: the rate moves only while the vaults are empty.
SetRate(r) ==
    /\ r = rate \/ backing = 0
    /\ rate' = r
    /\ UNCHANGED <<supply, backing>>

PegNext ==
    \/ \E t \in Tomans : Mint(t)
    \/ \E t \in Tomans, fee, pen \in Carves : Redeem(t, fee, pen)
    \/ \E r \in Rates : SetRate(r)

PegSpec == PegInit /\ [][PegNext]_pegVars

PegTypeOK == supply \in Nat /\ backing \in Nat /\ rate \in Rates
=============================================================================
