---------------------------- MODULE VaultProofs ----------------------------
(***************************************************************************)
(* Proofs about x/institutions, for any institutions, accounts, messages,  *)
(* parameters, rates and fees.  The vaults implement the peg, so that the  *)
(* supply is always worth what they hold; references are used once, the    *)
(* caps count what was really moved, and the floor can be redeemed.  The   *)
(* registry leaves no record without an owner, a role needs a quorum that  *)
(* signed since the admins last changed, and whoever attests the reserve   *)
(* never counts among the approvers of a large mint.                       *)
(***************************************************************************)
EXTENDS InstitutionProofs, CountingProofs

\* Zenon by default, SMT where a step names it; the seconds each may take.
USE ZenonT(30)

-----------------------------------------------------------------------------
(* The peg *)

\* The peg converts as the vaults do.
LEMMA SameUnits ==
    /\ PegOf!Rates = Rates
    /\ \A t, r : /\ PegOf!MintedUphi(t, r) = MintedUphi(t, r)
                 /\ PegOf!Integral(t, r) <=> Integral(t, r)
                 /\ PegOf!UphiPerToman(r) = UphiPerToman(r)
    /\ \A x, fee, pen, r :
          PegOf!ComputeRedeemSplit(x, fee, pen, r) = ComputeRedeemSplit(x, fee, pen, r)
<1>1. PegOf!Rates = Rates
    BY DEF PegOf!Rates, Rates
<1>2. ASSUME NEW t, NEW r
      PROVE  /\ PegOf!MintedUphi(t, r) = MintedUphi(t, r)
             /\ PegOf!Integral(t, r) <=> Integral(t, r)
             /\ PegOf!UphiPerToman(r) = UphiPerToman(r)
    BY DEF PegOf!MintedUphi, MintedUphi, PegOf!Integral, Integral,
           PegOf!UphiPerToman, UphiPerToman
<1>3. ASSUME NEW x, NEW fee, NEW pen, NEW r
      PROVE  PegOf!ComputeRedeemSplit(x, fee, pen, r) = ComputeRedeemSplit(x, fee, pen, r)
    BY DEF PegOf!ComputeRedeemSplit, ComputeRedeemSplit, PegOf!UphiPerToman, UphiPerToman,
           PegOf!MinInt, MinInt, PegOf!RoundDown, RoundDown
<1> QED
    BY <1>1, <1>2, <1>3

\* The inductive invariant of the peg: at a valid rate the supply is the
\* vaults' total times the uphi per toman.
PegInv ==
    /\ supply \in Nat /\ SumVault \in Nat /\ params.rate \in Rates
    /\ supply = SumVault * UphiPerToman(params.rate)

\* The cross-multiplied form the code checks says the same.
LEMMA SolventForm ==
    ASSUME supply \in Nat, SumVault \in Nat, params.rate \in Rates
    PROVE  PegOf!Solvent <=> supply = SumVault * UphiPerToman(params.rate)
<1>1. PICK b, r, k : b = SumVault /\ r = params.rate /\ k = UphiPerToman(params.rate)
    OBVIOUS
<1>2. k \in Nat \ {0} /\ r \in Nat \ {0} /\ UphiPerPhi = r * k /\ b \in Nat
    BY <1>1, RateExact
<1>3. b * UphiPerPhi = r * (b * k) /\ b * k \in Nat
    BY <1>2, SMTT(30)
<1>4. ASSUME NEW n \in Nat PROVE supply * r = r * n <=> supply = n
    BY <1>2, SMTT(30)
<1> QED
    BY <1>1, <1>3, <1>4 DEF PegOf!Solvent

\* InitGenesis establishes the invariant.
LEMMA PegInitInv == PegOf!PegInit => PegInv
BY SolventForm, SameUnits DEF PegOf!PegInit, PegInv

\* A mint, a redemption and a change of parameters preserve it.
LEMMA PegStepInv == PegInv /\ [PegOf!PegNext]_PegOf!pegVars => PegInv'
<1> SUFFICES ASSUME PegInv, [PegOf!PegNext]_PegOf!pegVars PROVE PegInv'
    OBVIOUS
<1>1. PICK b, b1, r, r1, k : /\ b = SumVault /\ b1 = SumVault' /\ r = params.rate /\ r1 = params.rate'
                             /\ k = UphiPerToman(r)
    OBVIOUS
<1>2. k \in Nat \ {0} /\ supply \in Nat /\ b \in Nat /\ r \in Rates /\ supply = b * k
    BY <1>1, RateExact DEF PegInv
<1>3. SUFFICES supply' \in Nat /\ b1 \in Nat /\ r1 \in Rates /\ supply' = b1 * UphiPerToman(r1)
    BY <1>1 DEF PegInv
<1>4. ASSUME NEW t \in Nat, PegOf!Mint(t) PROVE <1>3!1
    <2>1. supply' = supply + t * k /\ b1 = b + t /\ r1 = r
        BY <1>1, <1>2, <1>4, MintExact, SameUnits DEF PegOf!Mint
    <2> QED
        BY <1>1, <1>2, <2>1, SMTT(30)
<1>5. ASSUME NEW t \in Nat, NEW fee \in Nat, NEW pen \in Nat, PegOf!Redeem(t, fee, pen)
      PROVE  <1>3!1
    <2>1. PICK s : s = PegOf!ComputeRedeemSplit(PegOf!MintedUphi(t, r), fee, pen, r)
        OBVIOUS
    <2>2. /\ t > 0 /\ supply' = supply - s.burned /\ b1 = b - s.tomanOut /\ r1 = r
          /\ t <= b
        BY <1>1, <1>5, <2>1 DEF PegOf!Redeem
    <2>3. s.tomanOut \in Nat /\ s.burned = s.tomanOut * k /\ s.tomanOut <= t
        <3>1. s = ComputeRedeemSplit(MintedUphi(t, r), fee, pen, r)
            BY <2>1, SameUnits
        <3>2. s.burned = s.tomanOut * UphiPerToman(r) /\ s.tomanOut \in Nat /\ s.tomanOut <= t
            BY <1>2, <2>2, <3>1, RedeemPays
        <3> QED
            BY <1>1, <3>2
    <2>4. b1 \in Nat /\ supply' = b1 * k
        BY <1>2, <2>2, <2>3, SMTT(30)
    <2>5. b1 * k \in Nat
        BY <1>2, <2>4, SMTT(30)
    <2> QED
        BY <1>1, <1>2, <2>2, <2>4, <2>5
<1>6. ASSUME NEW q \in Rates, PegOf!SetRate(q) PROVE <1>3!1
    <2>1. (q = r \/ b = 0) /\ r1 = q /\ supply' = supply /\ b1 = b
        BY <1>1, <1>6 DEF PegOf!SetRate
    <2>2. UphiPerToman(q) \in Nat
        BY RateExact
    <2> QED
        BY <1>1, <1>2, <2>1, <2>2, SMTT(30)
<1>7. CASE UNCHANGED PegOf!pegVars
    BY <1>1, <1>2, <1>7 DEF PegOf!pegVars
<1> QED
    BY <1>4, <1>5, <1>6, <1>7, Units, SameUnits DEF PegOf!PegNext

\* SolvencyInvariant holds in every state of the peg, for every unit, valid
\* rate, amount, fee and penalty: no mint, redemption with any carve-out, or
\* change of rate makes the supply worth more or less than the vaults hold.
THEOREM PegSolvent == PegOf!PegSpec => []PegOf!Solvent
<1>1. PegInv => PegOf!Solvent
    BY SolventForm DEF PegInv
<1> QED
    BY <1>1, PegInitInv, PegStepInv, PTL DEF PegOf!PegSpec

-----------------------------------------------------------------------------
(* The money *)

\* The invariant of the peg, with the types of what it is read from.
MoneyTyped == params \in Params /\ vault \in [Ids -> Nat]
MoneyInv == MoneyTyped /\ PegInv

LEMMA VaultTotal ==
    ASSUME vault \in [Ids -> Nat]
    PROVE  /\ IsFiniteSet(Ids) /\ SumVault \in Nat
           /\ \A i \in Ids : vault[i] <= SumVault
<1>1. IsFiniteSet(Ids)
    BY IdCount, FS_Interval, SMTT(30) DEF Ids
<1>2. ASSUME NEW S \in SUBSET Ids PROVE IsFiniteSet(S) /\ SumFunctionOnSet(vault, S) \in Nat
    <2>1. IsFiniteSet(S) /\ \A i \in S : vault[i] \in Nat
        BY <1>1, FS_Subset
    <2> QED
        BY <2>1, SumNat
<1>3. ASSUME NEW i \in Ids PROVE SumVault = vault[i] + SumFunctionOnSet(vault, Ids \ {i})
    BY <1>1, SumRemove, SMTT(30) DEF SumVault
<1>4. ASSUME NEW i \in Ids PROVE vault[i] <= SumVault
    <2>1. PICK n \in Nat : n = SumFunctionOnSet(vault, Ids \ {i})
        BY <1>2
    <2>2. SumVault = vault[i] + n /\ vault[i] \in Nat
        BY <1>3, <2>1
    <2> QED
        BY <2>2, SMTT(30)
<1> QED
    BY <1>1, <1>2, <1>4 DEF SumVault

\* What one vault gains or loses, the total does.
LEMMA VaultMoves ==
    ASSUME vault \in [Ids -> Nat], NEW i \in Ids, NEW n \in Nat, vault' = [vault EXCEPT ![i] = n]
    PROVE  vault' \in [Ids -> Nat] /\ SumVault' = SumVault + (n - vault[i])
<1>1. vault' \in [Ids -> Nat] /\ vault'[i] = n /\ \A j \in Ids : j # i => vault'[j] = vault[j]
    OBVIOUS
<1>2. \A j \in Ids : vault[j] \in Int /\ vault'[j] \in Int
    BY <1>1, SMTT(30)
<1>3. SumFunctionOnSet(vault', Ids) = SumFunctionOnSet(vault, Ids) + (vault'[i] - vault[i])
    <2>1. PICK f, g : f = vault /\ g = vault'
        OBVIOUS
    <2>2. IsFiniteSet(Ids)
        BY VaultTotal
    <2>3. /\ \A j \in Ids : f[j] \in Int /\ g[j] \in Int
          /\ \A j \in Ids : j # i => g[j] = f[j]
        BY <1>1, <1>2, <2>1
    <2>4. SumFunctionOnSet(g, Ids) = SumFunctionOnSet(f, Ids) + (g[i] - f[i])
        BY <2>2, <2>3, SumChange
    <2> QED
        BY <2>1, <2>4
<1> QED
    BY <1>1, <1>3 DEF SumVault

\* What becomes of the money in a step: as much as the peg allows.
MoneyStep == MoneyTyped' /\ [PegOf!PegNext]_PegOf!pegVars

LEMMA MoneyStays ==
    ASSUME MoneyInv, UNCHANGED <<params, supply, vault>>
    PROVE  MoneyStep
BY DEF MoneyInv, MoneyTyped, MoneyStep, PegOf!pegVars, SumVault

\* InstitutionMint's writes are a mint of the peg.
LEMMA MintStep ==
    ASSUME MoneyInv, NEW i \in Ids, NEW m \in Mints, Minted(i, m),
           Integral(m.toman, params.rate), params' = params
    PROVE  MoneyStep
<1>1. m.toman \in Tomans /\ m.toman \in Nat /\ m.toman > 0
    BY MessageToman
<1>2. vault \in [Ids -> Nat] /\ vault[i] + m.toman \in Nat
    BY <1>1, SMTT(30) DEF MoneyInv, MoneyTyped
<1>3. vault' \in [Ids -> Nat] /\ SumVault' = SumVault + ((vault[i] + m.toman) - vault[i])
    BY <1>2, VaultMoves DEF Minted
<1>4. SumVault' = SumVault + m.toman
    BY <1>1, <1>2, <1>3, VaultTotal, SMTT(30)
<1>5. PegOf!Mint(m.toman)
    BY <1>1, <1>4, SameUnits DEF PegOf!Mint, Minted
<1> QED
    BY <1>1, <1>3, <1>5 DEF MoneyStep, MoneyInv, MoneyTyped, PegOf!PegNext

\* InstitutionRedeem is a redemption of the peg: the institution pays what is
\* burned, which is no more than was surrendered, which its vault covers.
LEMMA RedeemStep ==
    ASSUME MoneyInv, NEW i \in Ids, NEW m \in Redeems, NEW p \in Carves, InstitutionRedeem(i, m, p)
    PROVE  MoneyStep
<1>1. PICK x, fee, s : /\ x = MintedUphi(m.toman, params.rate)
                       /\ fee = ProtocolFee(x, params.feeBps)
                       /\ s = ComputeRedeemSplit(x, fee, p, params.rate)
    OBVIOUS
<1>2. m.toman \in Tomans /\ m.toman \in Nat \ {0} /\ fee \in Carves /\ fee \in Nat /\ p \in Nat
    <2>1. m.toman \in Tomans /\ m.toman \in Nat /\ m.toman > 0 /\ params \in Params
        BY MessageToman DEF MoneyInv, MoneyTyped
    <2>2. fee \in Carves
        BY <1>1, <2>1, MessageAmounts
    <2> QED
        BY <2>1, <2>2, Units, SMTT(30)
<1>3. s.tomanOut \in Nat /\ s.tomanOut <= m.toman
    BY <1>1, <1>2, RedeemSplitSound DEF MoneyInv, PegInv
<1>4. /\ m.toman <= vault[i] /\ Integral(m.toman, params.rate)
      /\ x >= UphiPerToman(params.rate) /\ s.burned > 0
      /\ supply' = supply - s.burned
      /\ vault' = [vault EXCEPT ![i] = vault[i] - s.tomanOut]
      /\ params' = params
    BY <1>1 DEF InstitutionRedeem, Split, instVars, regVars
<1>5. vault \in [Ids -> Nat] /\ vault[i] \in Nat
    BY DEF MoneyInv, MoneyTyped
<1>6. vault[i] - s.tomanOut \in Nat
    BY <1>2, <1>3, <1>4, <1>5, SMTT(30)
<1>7. vault' \in [Ids -> Nat] /\ SumVault' = SumVault + ((vault[i] - s.tomanOut) - vault[i])
    BY <1>4, <1>5, <1>6, VaultMoves
<1>8. SumVault' = SumVault - s.tomanOut /\ m.toman <= SumVault
    BY <1>2, <1>3, <1>4, <1>5, <1>7, VaultTotal, SMTT(30)
<1>9. PegOf!Redeem(m.toman, fee, p)
    BY <1>1, <1>2, <1>4, <1>8, SameUnits, SMTT(30) DEF PegOf!Redeem
<1> QED
    BY <1>2, <1>4, <1>7, <1>9 DEF MoneyStep, MoneyInv, MoneyTyped, PegOf!PegNext

\* SetParams moves the rate only as the peg does.
LEMMA ParamStep ==
    ASSUME MoneyInv, NEW p \in Params, NEW e, SetParams(p, e), UNCHANGED <<supply, vault>>
    PROVE  MoneyStep
<1>1. PegOf!SetRate(p.rate) /\ p.rate \in PegOf!Rates
    BY SameUnits DEF SetParams, ValidParams, PegOf!SetRate, SumVault
<1> QED
    BY <1>1 DEF MoneyStep, MoneyInv, MoneyTyped, PegOf!PegNext, SetParams

\* slashCompensator.compensate mints back what was burned.
LEMMA SlashStays ==
    ASSUME MoneyInv, NEW b \in Carves, Slash(b)
    PROVE  UNCHANGED <<params, supply, vault>>
<1>1. b \in Nat /\ supply \in Nat
    BY Units DEF MoneyInv, PegInv
<1>2. supply - (supply - b) = b
    BY <1>1, SMTT(30)
<1>3. Max({0, b}) = b
    BY <1>1, SMTT(30) DEF Max
<1> QED
    BY <1>1, <1>2, <1>3, SMTT(30) DEF Slash, instVars, regVars

\* govBurnGuard.BurnCoins burns only when no vault holds balance; then there is
\* no supply to burn.
LEMMA GovBurnStays ==
    ASSUME MoneyInv, NEW b \in Carves, GovBurn(b)
    PROVE  UNCHANGED <<params, supply, vault>>
<1>1. b \in Nat /\ supply \in Nat /\ SumVault \in Nat /\ UphiPerToman(params.rate) \in Nat
    BY Units, RateExact DEF MoneyInv, PegInv
<1>2. SumVault = 0 => supply = 0
    BY <1>1, SMTT(30) DEF MoneyInv, PegInv
<1>3. CASE SumVault > 0
    BY <1>3 DEF GovBurn, instVars, regVars
<1>4. CASE ~(SumVault > 0)
    <2>1. supply = 0
        BY <1>1, <1>2, <1>4, NoneAbove
    <2>2. supply' = supply - b /\ b <= supply
        BY <1>4 DEF GovBurn
    <2> QED
        BY <1>1, <2>1, <2>2, NoneToBurn DEF GovBurn, instVars, regVars
<1> QED
    BY <1>3, <1>4

\* What a step of the vaults is to the money and to the registry.
LEMMA VaultMoneyStep ==
    ASSUME MoneyInv, [VaultNext]_vaultVars
    PROVE  MoneyStep
<1>1. ASSUME NEW i \in Ids, NEW s \in Accounts, NEW m \in Mints, InstitutionMint(i, s, m)
      PROVE  MoneyStep
    <2>1. Minted(i, m) /\ Integral(m.toman, params.rate) /\ params' = params
        BY <1>1 DEF InstitutionMint, MayMint, instVars, regVars
    <2> QED
        BY <2>1, MintStep
<1>2. ASSUME NEW i \in Ids, NEW s \in Accounts, NEW m \in Mints, InstitutionMintLarge(i, s, m)
      PROVE  MoneyStep
    <2>1. /\ Minted(i, m) \/ UNCHANGED <<supply, vault>>
          /\ Integral(m.toman, params.rate) /\ params' = params
        BY <1>2 DEF InstitutionMintLarge, MayMint, regVars
    <2> QED
        BY <2>1, MintStep, MoneyStays
<1>3. ASSUME NEW p \in Params, NEW e \in Brakes, UpdateParams(p, e) PROVE MoneyStep
    BY <1>3, ParamStep DEF UpdateParams, moneyVars
<1>4. ASSUME NEW e \in Brakes, NEW b \in BOOLEAN, SetEmergencyRedemption(b, e) PROVE MoneyStep
    <2>1. UNCHANGED <<params, supply, vault>>
        BY <1>4 DEF SetEmergencyRedemption, SetParams, moneyVars
    <2> QED
        BY <2>1, MoneyStays
<1>5. ASSUME \/ \E i \in Ids, s \in Accounts, r \in Reserves : PublishInstitutionAttestation(i, s, r)
             \/ \E a \in Accounts, d \in DIDs \cup {Unidentified} : SubjectChanges(a, d)
             \/ \E i \in Ids, e \in Registrants : RegisterVault(i, e)
             \/ \E i \in Ids : RemoveVault(i)
             \/ ExportImportVaults
             \/ BeginBlock
             \/ UNCHANGED vaultVars
      PROVE  UNCHANGED <<params, supply, vault>>
    BY <1>5 DEF PublishInstitutionAttestation, SubjectChanges, RegisterVault, RegisterInstitution,
                RemoveVault, RemoveInstitution, ExportImportVaults, ExportImport, BeginBlock,
                SweepRemovals, vaultVars, instVars, regVars, moneyVars
<1>6. ASSUME Registry, UNCHANGED <<now, moneyVars, capVars, em, subject>>
      PROVE  UNCHANGED <<params, supply, vault>>
    <2>1. UNCHANGED <<supply, vault>>
        BY <1>6 DEF moneyVars
    <2>2. ASSUME NEW i \in Ids, NEW s \in Accounts, Sensitive(i, s) PROVE params' = params
        BY <2>2 DEF Sensitive, GrantInstitutionRole, RevokeInstitutionRole,
                    UpdateInstitutionParams, UpdateInstitutionAppConfig, SetInstitutionDepositKey,
                    regVars
    <2>3. ASSUME NEW i \in Freezable, NEW b \in BOOLEAN, FreezeInstitution(i, b)
          PROVE  params' = params
        BY <2>3 DEF FreezeInstitution, regVars
    <2> QED
        BY <1>6, <2>1, <2>2, <2>3 DEF Registry
<1> QED
    BY <1>1, <1>2, <1>3, <1>4, <1>5, <1>6, RedeemStep, SlashStays, GovBurnStays, MoneyStays
       DEF VaultNext

LEMMA VaultMoneyInv == MoneyInv /\ [VaultNext]_vaultVars => MoneyInv' /\ [PegOf!PegNext]_PegOf!pegVars
BY VaultMoneyStep, PegStepInv DEF MoneyInv, MoneyStep

LEMMA VaultMoneyInit == VaultInit => MoneyInv /\ PegOf!PegInit
<1> SUFFICES ASSUME VaultInit PROVE MoneyInv /\ PegOf!PegInit
    OBVIOUS
<1>1. vault \in [Ids -> Nat] /\ params \in Params /\ params.rate \in Rates /\ supply = 0
    BY DEF VaultInit, InstInit, ValidParams
<1>2. IsFiniteSet(Ids) /\ \A i \in Ids : vault[i] = 0
    BY <1>1, VaultTotal DEF VaultInit
<1>3. SumVault = 0
    BY <1>2, SumZero DEF SumVault
<1>4. UphiPerToman(params.rate) \in Nat
    BY <1>1, RateExact
<1>5. PegInv
    <2>1. SumVault \in Nat /\ SumVault * UphiPerToman(params.rate) = 0
        BY <1>3, <1>4, WorthNothing
    <2>2. supply \in Nat
        BY <1>1, WorthNothing
    <2> QED
        BY <1>1, <2>1, <2>2 DEF PegInv
<1> QED
    BY <1>1, <1>3, <1>5, SolventForm, SameUnits DEF MoneyInv, MoneyTyped, PegInv, PegOf!PegInit

-----------------------------------------------------------------------------
(* The redeem floor *)

\* AtLeastFloor leaves room for any amount up to the floor.
LEMMA FloorFits ==
    ASSUME NEW cap \in Nat, NEW floor \in Nat, NEW n \in Nat, n <= floor
    PROVE  Within(n, AtLeastFloor(cap, floor))
BY SMTT(30) DEF Within, AtLeastFloor

LEMMA KycLimitNat ==
    ASSUME ParamInv, NEW i \in Ids, NEW h
    PROVE  RedeemKycLimit(i, h) \in Nat
<1>1. PICK p : p = iparams[i] /\ p \in InstParams \cup {NoInstParams}
    BY DEF ParamInv
<1>2. p.kyc \in [Tiers -> Nat]
    BY <1>1, CapTypes
<1>3. PICK rec, lim : /\ rec = {p.kyc[t] : t \in RecordedTier(i, h)} \ {0}
                      /\ lim = Range(p.kyc) \ {0}
    OBVIOUS
<1>4. rec \in SUBSET Nat /\ lim \in SUBSET Nat
    BY <1>2, <1>3 DEF RecordedTier, Range
<1>5. (rec # {} => Min(rec) \in Nat) /\ (lim # {} => Min(lim) \in Nat)
    BY <1>4, MinIsLeast
<1>6. RedeemKycLimit(i, h) = IF rec # {} THEN Min(rec) ELSE IF lim = {} THEN 0 ELSE Min(lim)
    BY <1>1, <1>3 DEF RedeemKycLimit, StrictestLimit
<1> QED
    BY <1>5, <1>6, SMTT(30)

LEMMA FloorHolds == ParamInv /\ MoneyInv => FloorRedeemable
<1> SUFFICES ASSUME ParamInv, MoneyInv, NEW i \in Ids, NEW h \in Accounts, NEW t \in Tomans,
                    Capping => Counter(i, "er", em.started, h) + t <= EmergencyCap,
                    t <= params.floor,
                    Total(Today, subject[h]) = 0, Counter(i, "ru", Today, h) = 0
             PROVE  RedeemCapsOk(i, h, t, MintedUphi(t, params.rate))
    BY DEF FloorRedeemable
<1>1. PICK f, x, fx1, k : /\ f = params.floor /\ x = MintedUphi(t, params.rate)
                          /\ fx1 = FloorUphi(params) /\ k = UphiPerToman(params.rate)
    OBVIOUS
<1>2. t \in Nat /\ f \in Nat /\ params.didCap \in Nat /\ params.rate \in Rates
    BY <1>1, CapTypes, Units DEF MoneyInv, MoneyTyped, PegInv
<1>3. x = t * k /\ fx1 = f * k /\ k \in Nat
    BY <1>1, <1>2, MintExact, RateExact DEF FloorUphi
<1>4. x \in Nat /\ fx1 \in Nat /\ x <= fx1 /\ t <= f
    BY <1>1, <1>2, <1>3, SMTT(30)
<1>5. PICK p : p = iparams[i] /\ p \in InstParams \cup {NoInstParams}
    BY DEF ParamInv
<1>6. p.redTx \in Nat /\ p.redDay \in Nat /\ p.redUser \in Nat /\ RedeemKycLimit(i, h) \in Nat
    BY <1>5, CapTypes, KycLimitNat
<1>7. /\ Within(t, AtLeastFloor(p.redTx, f)) /\ Within(t, AtLeastFloor(p.redUser, f))
      /\ Within(t, AtLeastFloor(RedeemKycLimit(i, h), f))
      /\ Within(x, AtLeastFloor(params.didCap, fx1))
    BY <1>2, <1>4, <1>6, FloorFits
<1>8. Counter(i, "ru", Today, h) + t = t /\ Total(Today, subject[h]) + x = x
    BY <1>2, <1>4, SMTT(30)
<1>9. WithinFloor(h, x)
    BY <1>1, <1>4, <1>8 DEF WithinFloor
<1> QED
    BY <1>1, <1>5, <1>7, <1>8, <1>9 DEF RedeemCapsOk

-----------------------------------------------------------------------------
(* Newcomers and quorums *)

\* The newcomer's id is clean, in the sense of CleanStart.
Arrives(i) ==
    ~HasInstitution(i) /\ HasInstitution(i)' =>
       Ranged(i)' = 0 /\ epoch'[i] = 0 /\ consent'[i] = {}

LEMMA NoRecords ==
    ASSUME NEW i \in Ids, approvals[i] = {}, tiers[i] = {},
           \A a \in Accounts : roles[i][a] = NoRole
    PROVE  Ranged(i) = 0
<1>1. Holders(i) = {}
    BY DEF Holders
<1>2. Cardinality({}) = 0
    BY FS_EmptySet
<1>3. Cardinality(Holders(i)) = 0 /\ Cardinality(approvals[i]) = 0 /\ Cardinality(tiers[i]) = 0
    BY <1>1, <1>2
<1>4. Ranged(i) = Cardinality(Holders(i)) + Cardinality(approvals[i]) + Cardinality(tiers[i])
    BY DEF Ranged
<1> QED
    BY <1>3, <1>4, NoRows

LEMMA RegistryArrives ==
    ASSUME InstInv, RegistryStep, NEW i \in Ids
    PROVE  Arrives(i)
<1> SUFFICES ASSUME ~HasInstitution(i), HasInstitution(i)'
             PROVE  Ranged(i)' = 0 /\ epoch'[i] = 0 /\ consent'[i] = {}
    BY DEF Arrives
<1>0. admin'[i] # admin[i]
    BY DEF HasInstitution
<1>1. IdFree(i) /\ UNCHANGED rbacVars
    <2>1. ASSUME NEW j \in Ids, NEW s \in Accounts, Sensitive(j, s) PROVE admin' = admin
        BY <2>1
           DEF Sensitive, GrantInstitutionRole, RevokeInstitutionRole, UpdateInstitutionParams,
                    UpdateInstitutionAppConfig, SetInstitutionDepositKey, regVars
    <2>2. ASSUME NEW j \in Ids, RemoveInstitution(j) PROVE FALSE
        BY <1>0, <2>2 DEF RemoveInstitution, WriteInstitution, InstInv, InstTyped, HasInstitution
    <2>3. ASSUME NEW j \in Ids, NEW a, NEW t, IdFree(j), WriteInstitution(j, a, t) PROVE j = i
        BY <1>0, <2>3 DEF WriteInstitution, InstInv, InstTyped
    <2>4. ~Shrunk /\ \A j \in Ids, s \in Accounts : \A ch : ~Signs(j, s, ch)
        BY <1>0 DEF Shrunk, Signs
    <2> QED
        BY <1>0, <2>1, <2>2, <2>3, <2>4 DEF RegistryStep
<1>2. /\ approvals'[i] = {} /\ tiers'[i] = {} /\ epoch'[i] = 0 /\ consent'[i] = {}
      /\ \A a \in Accounts : roles'[i][a] = NoRole
    BY <1>1 DEF InstInv, Owned, rbacVars
<1>3. Holders(i)' = {} /\ Cardinality({}) = 0
    BY <1>2, FS_EmptySet DEF Holders
<1>4. Cardinality(Holders(i))' = 0 /\ Cardinality(approvals'[i]) = 0 /\ Cardinality(tiers'[i]) = 0
    BY <1>2, <1>3
<1>5. Ranged(i)' = Cardinality(Holders(i))' + Cardinality(approvals'[i]) + Cardinality(tiers'[i])
    BY DEF Ranged
<1>6. Ranged(i)' = 0
    BY <1>4, <1>5, NoRows
<1> QED
    BY <1>2, <1>6

\* Behind a role gained are the signatures RolesByFreshQuorum asks for.
Signers(i, ch) == {c[2] : c \in {d \in consent[i] : d[1] = ch}}

GainsByQuorum(i, a) ==
    roles'[i][a] # roles[i][a] /\ roles'[i][a] # NoRole =>
       Cardinality(Signers(i, <<"grant", a, roles'[i][a]>>) \cap Admins(i)) + 1 >= EffectiveThreshold(i)

LEMMA ThresholdInt ==
    ASSUME ParamInv, NEW i \in Ids
    PROVE  EffectiveThreshold(i) \in Nat
<1>1. IsFiniteSet(Admins(i))
    BY IdCount, FS_Subset DEF Admins
<1>2. Cardinality(Admins(i)) \in Nat
    BY <1>1, FS_CardinalityType
<1>3. PICK t \in Nat : EffectiveThreshold(i) = Min({t, Cardinality(Admins(i))})
    BY InputBounds, BudgetPositive DEF ParamInv, EffectiveThreshold
<1>4. {t, Cardinality(Admins(i))} \in SUBSET Nat
    BY <1>2
<1> HIDE DEF EffectiveThreshold
<1> QED
    BY <1>3, <1>4, MinIsLeast

\* An approval that executes had the threshold's worth of consents before it.
LEMMA ExecutesByQuorum ==
    ASSUME InstInv, ParamInv, NEW i \in Ids, HasInstitution(i), NEW s \in Accounts, NEW ch,
           Executes(i, s, ch)
    PROVE  Cardinality(Signers(i, ch) \cap Admins(i)) + 1 >= EffectiveThreshold(i)
<1>1. PICK A, B : /\ A = CountApprovals(i, ch, Signed(i, s, ch))
                  /\ B = Signers(i, ch) \cap Admins(i)
    OBVIOUS
<1>2. ASSUME NEW a \in A, a # s PROVE a \in B
    <2>1. a \in Admins(i) /\ <<ch, a, epoch[i]>> \in approvals[i]
        BY <1>1, <1>2 DEF CountApprovals, Signed
    <2>2. PICK c \in consent[i] : c[1] = ch /\ c[2] = a
        BY <2>1 DEF InstInv, Fresh
    <2> QED
        BY <1>1, <2>1, <2>2 DEF Signers
<1>3. IsFiniteSet(B) /\ IsFiniteSet(A)
    BY <1>1, IdCount, FS_Subset DEF Admins, CountApprovals
<1>4. IsFiniteSet(B \cup {s}) /\ Cardinality(B \cup {s}) <= Cardinality(B) + 1
    <2>1. Cardinality(B) \in Nat
        BY <1>3, FS_CardinalityType
    <2>2. /\ IsFiniteSet(B \cup {s})
          /\ Cardinality(B \cup {s}) = IF s \in B THEN Cardinality(B) ELSE Cardinality(B) + 1
        BY <1>3, FS_AddElement
    <2> QED
        BY <2>1, <2>2, SMTT(30)
<1>5. Cardinality(A) <= Cardinality(B \cup {s})
    BY <1>2, <1>4, FS_Subset
<1>6. Cardinality(A) \in Nat /\ Cardinality(B) \in Nat /\ Cardinality(B \cup {s}) \in Nat
    BY <1>3, <1>4, FS_CardinalityType
<1>7. Cardinality(A) >= EffectiveThreshold(i) /\ EffectiveThreshold(i) \in Nat
    BY <1>1, ThresholdInt DEF Executes
<1> HIDE DEF EffectiveThreshold
<1> QED
    BY <1>1, <1>4, <1>5, <1>6, <1>7, QuorumLessOne

LEMMA RegistryQuorum ==
    ASSUME InstInv, ParamInv, RegistryStep, NEW i \in Ids, NEW a \in Accounts
    PROVE  GainsByQuorum(i, a)
<1> SUFFICES ASSUME roles'[i][a] # roles[i][a], roles'[i][a] # NoRole
             PROVE  Cardinality(Signers(i, <<"grant", a, roles'[i][a]>>) \cap Admins(i)) + 1
                      >= EffectiveThreshold(i)
    BY DEF GainsByQuorum
<1>0. roles \in [Ids -> [Accounts -> Roles \cup {NoRole}]]
    BY DEF InstInv, InstTyped
<1>1. PICK j \in Ids, s \in Accounts : Sensitive(j, s)
    <2>1. roles' # roles /\ ~Shrunk
        BY DEF Shrunk
    <2> QED
        BY <2>1 DEF RegistryStep, Signs, RemoveInstitution, rbacVars
<1>2. PICK e \in Grants : GrantInstitutionRole(j, s, e[1], e[2])
    <2>1. ASSUME NEW g, RevokeInstitutionRole(j, s, g) PROVE FALSE
        BY <1>0, <2>1 DEF RevokeInstitutionRole
    <2> QED
        BY <1>1, <2>1 DEF Sensitive, UpdateInstitutionParams, UpdateInstitutionAppConfig,
                          SetInstitutionDepositKey
<1>3. /\ j = i /\ e[1] = a /\ e[2] = roles'[i][a] /\ HasInstitution(i)
      /\ Executes(i, s, <<"grant", a, roles'[i][a]>>)
    BY <1>0, <1>2 DEF GrantInstitutionRole, Approve
<1> QED
    BY <1>3, ExecutesByQuorum

-----------------------------------------------------------------------------
(* Theorems about the registry *)

\* The step that RolesByFreshQuorum asks of the registry.
QuorumStep ==
    [\A i \in Ids, a \in Accounts :
        roles'[i][a] # roles[i][a] /\ roles'[i][a] # NoRole =>
           LET signers == {c[2] : c \in {d \in consent[i] : d[1] = <<"grant", a, roles'[i][a]>>}}
           IN  Cardinality(signers \cap Admins(i)) + 1 >= EffectiveThreshold(i)]_instVars

LEMMA RegistryGains ==
    ASSUME InstInv, ParamInv, RegistryStep
    PROVE  QuorumStep
    BY RegistryQuorum DEF QuorumStep, GainsByQuorum, Signers

RegistryInv == InstInv /\ ParamInv

LEMMA OwnedRecords == InstInv => RecordsOwned
<1> SUFFICES ASSUME InstInv, NEW i \in Ids
             PROVE  /\ ~(HasInstitution(i) /\ i \in queue)
                    /\ Ranged(i) > 0 => HasInstitution(i) \/ i \in queue
    BY DEF RecordsOwned
<1>1. Owned(i)
    BY DEF InstInv
<1>2. IdFree(i) => ~(Ranged(i) > 0)
    BY <1>1, NoRecords, SMTT(30) DEF Owned
<1> QED
    BY <1>1, <1>2 DEF Owned, IdFree

\* The registry alone, with the onboarding of exchanges.
LEMMA InstInvariance == InstSpec => [](RegistryInv /\ FxInv)
<1>1. InstInit => RegistryInv /\ FxInv
    BY InstInitInv DEF RegistryInv
<1>2. RegistryInv /\ FxInv /\ [InstNext]_instVars => (RegistryInv /\ FxInv)'
    BY InstNextSteps, RegistryStepInv DEF RegistryInv
<1> QED
    BY <1>1, <1>2, PTL DEF InstSpec

\* Every role, approval and tier record is that of a registered institution
\* or of one whose removal is queued, never both (RemoveInstitution,
\* SweepRemovals): for any number of ids, budget and admin sets.
THEOREM RecordsAlwaysOwned == InstSpec => []RecordsOwned
<1>1. RegistryInv => RecordsOwned
    BY OwnedRecords DEF RegistryInv
<1> QED
    BY <1>1, InstInvariance, PTL

\* A newly registered or onboarded institution inherits nothing from an
\* earlier holder of its id (RegisterInstitution, FinalizeFxEntry).
THEOREM StartsClean == InstSpec => CleanStart
<1>1. ASSUME RegistryInv, FxInv, [InstNext]_instVars
      PROVE  [\A i \in Ids : ~HasInstitution(i) /\ HasInstitution(i)' =>
                 Ranged(i)' = 0 /\ epoch'[i] = 0 /\ consent'[i] = {}]_instVars
    BY <1>1, InstNextSteps, RegistryArrives DEF RegistryInv, Arrives
<1> QED
    BY <1>1, InstInvariance, PTL DEF InstSpec, CleanStart

\* An account gains a role only by a quorum of the admins, the last signer
\* included, that signed this very grant since ADMIN last changed in this
\* institution (GrantInstitutionRole): for every threshold and admin set.
THEOREM RolesNeedFreshQuorum == InstSpec => RolesByFreshQuorum
<1>1. ASSUME RegistryInv, FxInv, [InstNext]_instVars PROVE QuorumStep
    BY <1>1, InstNextSteps, RegistryGains DEF RegistryInv
<1> QED
    BY <1>1, InstInvariance, PTL DEF InstSpec, RolesByFreshQuorum, QuorumStep

-----------------------------------------------------------------------------
(* The theorems of the vaults *)

VaultInv == RegistryInv /\ MoneyInv /\ RefsInv /\ DayInv /\ SepInv

LEMMA VaultInvInit == VaultInit => VaultInv
<1> SUFFICES ASSUME VaultInit PROVE VaultInv
    OBVIOUS
<1>1. InstInit /\ attestor = RootAdmin
    BY DEF VaultInit
<1>2. RegistryInv
    BY <1>1, InstInitInv DEF RegistryInv
<1>3. SepInv
    <2>1. attestor \in [Ids -> Accounts \cup {NoAccount}] /\ \A i \in Ids : approvals[i] = {}
        BY <1>1, GenesisFile DEF InstInit
    <2> QED
        BY <2>1 DEF SepInv, Separated
<1> QED
    BY <1>2, <1>3, VaultMoneyInit, VaultCountInit DEF VaultInv

LEMMA VaultInvStep == VaultInv /\ [VaultNext]_vaultVars => VaultInv'
<1> SUFFICES ASSUME VaultInv, [VaultNext]_vaultVars PROVE VaultInv'
    OBVIOUS
<1>1. InstInv /\ ParamInv /\ MoneyInv /\ RefsInv /\ DayInv /\ SepInv
    BY DEF VaultInv, RegistryInv
<1>2. RegistryStep /\ ParamInv'
    BY <1>1, VaultRegistryStep
<1>3. InstInv' /\ MoneyInv' /\ RefsInv' /\ DayInv' /\ SepInv'
    BY <1>1, <1>2, RegistryStepInv, VaultMoneyInv, VaultCounted, VaultSeparated
<1> QED
    BY <1>2, <1>3 DEF VaultInv, RegistryInv

LEMMA VaultInvariance == VaultSpec => []VaultInv
    BY VaultInvInit, VaultInvStep, PTL DEF VaultSpec

\* Every transaction, block, slash and burn of the vaults is a step of the peg
\* or leaves it alone (MintPHI, RedeemPHI, UpdateParams), for any number of
\* institutions, any rates, amounts, caps and carve-outs.
THEOREM VaultImplementsPeg == VaultSpec => ImplementsPeg
<1>1. VaultInit => PegOf!PegInit
    BY VaultMoneyInit
<1>2. VaultInv /\ [VaultNext]_vaultVars => [PegOf!PegNext]_PegOf!pegVars
    BY VaultMoneyInv DEF VaultInv
<1> QED
    BY <1>1, <1>2, VaultInvariance, PTL DEF VaultSpec, ImplementsPeg, PegOf!PegSpec

\* SolvencyInvariant holds of the vaults: the supply is worth exactly what the
\* vaults hold after every mint, redemption, slash, burn and change of rate.
THEOREM VaultSolvent == VaultSpec => []PegOf!Solvent
    BY VaultImplementsPeg, PegSolvent, PTL DEF ImplementsPeg

\* A deposit or redemption reference is executed at most once (depositSeen).
THEOREM RefsNeverReused == VaultSpec => []RefsUsedOnce
<1>1. VaultInv => RefsUsedOnce
    BY DEF VaultInv, RefsInv, RefsUsedOnce
<1> QED
    BY <1>1, VaultInvariance, PTL

\* The daily counters are what was minted and redeemed today: pruning,
\* removal and export lose nothing of today (PruneStaleCounters).
THEOREM CountersExact == VaultSpec => []TodayCounted
<1>1. VaultInv => TodayCounted
    BY DEF VaultInv, DayInv, TodayCounted
<1> QED
    BY <1>1, VaultInvariance, PTL

\* The redeem floor stands against every stored cap and every use of it by
\* others (enforceRedeemCaps, withinFloorReservation).
THEOREM FloorAlwaysRedeemable == VaultSpec => []FloorRedeemable
<1>1. VaultInv => FloorRedeemable
    BY FloorHolds DEF VaultInv, RegistryInv
<1> QED
    BY <1>1, VaultInvariance, PTL

\* The attestor is never among the approvals that count towards a large mint
\* (requireMintSeparation), whatever order approvals, role changes,
\* attestations and removals come in.
THEOREM MintAndAttestSeparated == VaultSpec => []ApproverIsNotAttestor
<1>1. VaultInv => ApproverIsNotAttestor
    <2> SUFFICES ASSUME SepInv, NEW i \in Ids, NEW m \in Mints, HasInstitution(i),
                        attestor[i] \in CountApprovals(i, MintContent(m), approvals[i])
                 PROVE  FALSE
        BY DEF VaultInv, ApproverIsNotAttestor
    <2>1. PICK e : e = <<MintContent(m), attestor[i], epoch[i]>>
        OBVIOUS
    <2>2. /\ e \in approvals[i] /\ attestor[i] \in Admins(i)
          /\ e[1] = MintContent(m) /\ e[2] = attestor[i] /\ e[3] = epoch[i]
        BY <2>1 DEF CountApprovals
    <2> QED
        BY <2>2 DEF SepInv, Separated
<1> QED
    BY <1>1, VaultInvariance, PTL

\* An account gains a role only by a quorum that signed since ADMIN last
\* changed (GrantInstitutionRole), also where mints collect approvals, and
\* vaults are exported, swept and removed.
THEOREM VaultRolesByQuorum == VaultSpec => RolesByFreshQuorum
<1>1. ASSUME VaultInv, [VaultNext]_vaultVars PROVE QuorumStep
    <2>1. InstInv /\ ParamInv
        BY <1>1 DEF VaultInv, RegistryInv
    <2>2. RegistryStep
        BY <1>1, <2>1, VaultRegistryStep
    <2> QED
        BY <2>1, <2>2, RegistryGains
<1> QED
    BY <1>1, VaultInvariance, PTL DEF VaultSpec, RolesByFreshQuorum, QuorumStep

\* Every record belongs to a registered vault or to one whose removal is
\* queued, never both (RemoveInstitution, SweepRemovals).
THEOREM VaultRecordsOwned == VaultSpec => []RecordsOwned
<1>1. VaultInv => RecordsOwned
    BY OwnedRecords DEF VaultInv, RegistryInv
<1> QED
    BY <1>1, VaultInvariance, PTL

\* A registered vault inherits nothing from an earlier holder of its id.
THEOREM VaultStartsClean == VaultSpec => CleanStart
<1>1. ASSUME VaultInv, [VaultNext]_vaultVars
      PROVE  [\A i \in Ids : ~HasInstitution(i) /\ HasInstitution(i)' =>
                 Ranged(i)' = 0 /\ epoch'[i] = 0 /\ consent'[i] = {}]_instVars
    <2>1. InstInv /\ ParamInv
        BY <1>1 DEF VaultInv, RegistryInv
    <2>2. RegistryStep
        BY <1>1, <2>1, VaultRegistryStep
    <2> QED
        BY <2>1, <2>2, RegistryArrives DEF Arrives
<1> QED
    BY <1>1, VaultInvariance, PTL DEF VaultSpec, CleanStart

=============================================================================
