------------------------------- MODULE Vaults -------------------------------
(***************************************************************************)
(* The money of x/institutions: mint against an attested reserve, redeem   *)
(* with its caps, counters, floor reservation and emergency brake, the     *)
(* attestation, the module parameters, and what keeps the supply equal to  *)
(* the vaults elsewhere in the application (slash compensation, governance *)
(* deposit burns).  Registry, roles and approvals are module Institutions; *)
(* holders' balances and coin ages are inputs here.                        *)
(***************************************************************************)
EXTENDS Institutions, PegUnits

CONSTANTS
    MaxProtocolFeeBps,
    Tiers,          \* KYC tiers an institution may limit
    DIDs,           \* identities redemptions are counted by
    Unidentified,   \* the subject shared by all holders without one
    Mints,          \* bound: [to, toman, ref, tier] of mint messages
    Redeems,        \* bound: [by, toman, ref] of redeem messages
    Reserves,       \* bound: reserves attested
    GenesisReserve, \* the attested reserves of the genesis file
    Brakes,         \* bound: emergency parameters messages carry
    NoBrake,        \* the emergency parameters of a new chain
    DefaultCap30, DefaultCap60,  \* default stepped caps
    Unset,          \* an empty cap string
    DayLen,         \* seconds in a day
    Day30, Day60, Day90,
    RetentionDays,  \* CounterRetentionDays
    MinAdmins,      \* MinAdminsForMint
    MaxNow          \* bound on time

\* ValidateBasic: a message moves a positive amount.  Carves has every fee
\* that the parameters can charge.
ASSUME MessageAmounts ==
    /\ \A m \in Mints \cup Redeems : m.toman \in Tomans \ {0}
    /\ \A t \in Tomans, p \in Params : ProtocolFee(MintedUphi(t, p.rate), p.feeBps) \in Carves
\* Caps are parsed as non-negative integers, 0 for none (CapInt).
ASSUME CapTypes ==
    /\ \A p \in Params : p.floor \in Nat /\ p.didCap \in Nat
    /\ \A p \in InstParams \cup {NoInstParams} :
          p.redTx \in Nat /\ p.redDay \in Nat /\ p.redUser \in Nat /\ p.kyc \in [Tiers -> Nat]
ASSUME Days == DayLen \in Nat \ {0} /\ RetentionDays \in Nat

VARIABLES
    now, supply,
    vault, reserve, attestedAt, attestor,  \* per institution
    em,         \* Params.EmergencyRedemption
    subject,    \* the DID each account acts for (x/identity SubjectDID)
    counters,   \* cap counters: key -> amount, keys <<id, kind, day, account>>
    totals,     \* redeem totals per <<day, subject>>, in uphi
    used,       \* idempotency markers <<id, direction, ref>>
    spent       \* history: what was minted and redeemed today, and how often
                \* each reference was executed

moneyVars == <<supply, vault, reserve, attestedAt, attestor>>
capVars == <<counters, totals, used, spent>>
vaultVars == <<instVars, now, moneyVars, capVars, em, subject>>

SumVault == SumFunctionOnSet(vault, Ids)

PegOf == INSTANCE Peg WITH backing <- SumVault, rate <- params.rate

Today == now \div DayLen
Nobody == NoAccount  \* the account of an institution-wide counter

-----------------------------------------------------------------------------
(* Parameters *)

\* RedeemFloorUphi.
FloorUphi(p) == MintedUphi(p.floor, p.rate)

\* Params.Validate.
ValidParams(p, e) ==
    /\ p.rate \in Rates
    /\ p.floor > 0
    /\ p.didCap = 0 \/ p.didCap >= FloorUphi(p)
    /\ p.feeBps <= MaxProtocolFeeBps
    /\ \A c \in {e.cap0, e.cap30, e.cap60} \ {Unset, 0} : c >= p.floor

\* Faulty SetParams: the rate may move whatever the vaults hold.
SetParamsAnyRate(p, e) == ValidParams(p, e) /\ params' = p /\ em' = e

\* SetParams: the rate is immutable while any vault holds balance.
SetParams(p, e) ==
    /\ ValidParams(p, e)
    /\ p.rate = params.rate \/ SumVault = 0
    /\ params' = p /\ em' = e

\* UpdateParams (governance).
UpdateParams(p, e) ==
    /\ SetParams(p, e)
    /\ UNCHANGED <<admin, itype, istatus, iparams, appConfig, depositKey, rbacVars, fxVars,
                   now, moneyVars, capVars, subject>>

\* SetEmergencyRedemption (governance): a start date is stamped only for a
\* first emergency, or one after an earlier brake ran its 90 days and was lifted.
SetEmergencyRedemption(active, e) ==
    LET fresh == em.started = 0 \/ (~em.active /\ now - em.started >= Day90)
        on == [active |-> TRUE, started |-> IF fresh THEN now ELSE em.started,
               cap0 |-> e.cap0,
               cap30 |-> IF e.cap30 = Unset THEN DefaultCap30 ELSE e.cap30,
               cap60 |-> IF e.cap60 = Unset THEN DefaultCap60 ELSE e.cap60]
    IN  /\ SetParams(params, IF active THEN on ELSE [em EXCEPT !.active = FALSE])
        /\ UNCHANGED <<admin, itype, istatus, iparams, appConfig, depositKey, rbacVars, fxVars,
                       now, moneyVars, capVars, subject>>

-----------------------------------------------------------------------------
(* Counters and caps *)

Counter(i, kind, day, a) ==
    LET k == <<i, kind, day, a>> IN IF k \in DOMAIN counters THEN counters[k] ELSE 0

Total(day, s) == IF <<day, s>> \in DOMAIN totals THEN totals[<<day, s>>] ELSE 0

\* Increment of the counters under keys ks of the store f.
Added(f, ks, amount) ==
    [k \in DOMAIN f \cup ks |->
        (IF k \in DOMAIN f THEN f[k] ELSE 0) + (IF k \in ks THEN amount ELSE 0)]

\* AtLeastFloor: a stored cap below today's floor counts as the floor.
AtLeastFloor(cap, floor) == IF cap > 0 /\ cap < floor THEN floor ELSE cap

Within(amount, cap) == cap = 0 \/ amount <= cap

\* strictestKycLimit, 0 when no tier is limited.
StrictestLimit(p) ==
    LET limits == Range(p.kyc) \ {0} IN IF limits = {} THEN 0 ELSE Min(limits)

RecordedTier(i, a) == {t \in Tiers : <<a, t>> \in tiers[i]}

\* effectiveMintKycDailyLimit: the asserted tier's limit, or the strictest,
\* never looser than that of the recorded tier.
MintKycLimit(i, a, asserted) ==
    LET p == iparams[i]
        lim == IF p.kyc[asserted] > 0 THEN p.kyc[asserted] ELSE StrictestLimit(p)
        rec == {p.kyc[t] : t \in RecordedTier(i, a)} \ {0}
    IN  IF lim = 0 THEN 0 ELSE Min({lim} \cup rec)

\* effectiveKycDailyLimit: the recorded tier's limit, or the strictest.
RedeemKycLimit(i, a) ==
    LET p == iparams[i]
        rec == {p.kyc[t] : t \in RecordedTier(i, a)} \ {0}
    IN  IF rec # {} THEN Min(rec) ELSE StrictestLimit(p)

\* enforceMintCaps.
MintCapsOk(i, a, toman, tier) ==
    LET p == iparams[i]
        day == Counter(i, "md", Today, Nobody) + toman
        user == Counter(i, "mu", Today, a) + toman
    IN  /\ Within(toman, params.mintTx) /\ Within(day, params.mintDay)
        /\ Within(toman, p.mintTx) /\ Within(day, p.mintDay) /\ Within(user, p.mintUser)
        /\ Within(user, MintKycLimit(i, a, tier))

\* withinFloorReservation: the subject's redemptions today stay in the floor.
WithinFloor(h, uphi) == Total(Today, subject[h]) + uphi <= FloorUphi(params)

\* emergencyCapForElapsed: the cap in force, if the brake still caps.
Capping == em.active /\ now - em.started < Day90
EmergencyCap ==
    LET elapsed == now - em.started
        c == IF elapsed < Day30 THEN em.cap0 ELSE IF elapsed < Day60 THEN em.cap30 ELSE em.cap60
        def == IF elapsed < Day30 THEN 0 ELSE IF elapsed < Day60 THEN DefaultCap30 ELSE DefaultCap60
    IN  IF c = Unset THEN def ELSE c

\* Faulty RedeemCapsOk: the institution's daily cap knows no reservation.
RedeemCapsUnreserved(i, h, toman, uphi) ==
    LET p == iparams[i]
        f == params.floor
        user == Counter(i, "ru", Today, h) + toman
    IN  /\ Within(toman, AtLeastFloor(p.redTx, f))
        /\ Within(Counter(i, "rd", Today, Nobody) + toman, AtLeastFloor(p.redDay, f))
        /\ Within(user, AtLeastFloor(p.redUser, f))
        /\ Within(user, AtLeastFloor(RedeemKycLimit(i, h), f))
        /\ Within(Total(Today, subject[h]) + uphi, AtLeastFloor(params.didCap, FloorUphi(params)))
        /\ Capping => Counter(i, "er", em.started, h) + toman <= EmergencyCap

\* enforceRedeemCaps.
RedeemCapsOk(i, h, toman, uphi) ==
    LET p == iparams[i]
        f == params.floor
        user == Counter(i, "ru", Today, h) + toman
    IN  /\ Within(toman, AtLeastFloor(p.redTx, f))
        /\ \/ Within(Counter(i, "rd", Today, Nobody) + toman, AtLeastFloor(p.redDay, f))
           \/ WithinFloor(h, uphi)
        /\ Within(user, AtLeastFloor(p.redUser, f))
        /\ Within(user, AtLeastFloor(RedeemKycLimit(i, h), f))
        /\ Within(Total(Today, subject[h]) + uphi, AtLeastFloor(params.didCap, FloorUphi(params)))
        /\ Capping => Counter(i, "er", em.started, h) + toman <= EmergencyCap

-----------------------------------------------------------------------------
(* Minting *)

\* EffectiveStaleness: the stricter of the protocol's and the institution's
\* limit, 0 for none.
StalenessLimit(i) ==
    LET own == iparams[i].latency
    IN  IF own = 0 THEN params.stale
        ELSE IF params.stale = 0 THEN own ELSE Min({own, params.stale})

\* IsStaleAt.
IsStale(i) == StalenessLimit(i) > 0 /\ now > attestedAt[i] + StalenessLimit(i)

\* Faulty MintSeparation: two admins, but the attestor may mint.
MintSeparationAnyKey(i, s) ==
    Cardinality(Admins(i)) >= MinAdmins /\ attestor[i] # NoAccount

\* requireMintSeparation: two admins, and the minter is not the attestor.
MintSeparation(i, s) ==
    /\ Cardinality(Admins(i)) >= MinAdmins
    /\ attestor[i] # NoAccount /\ attestor[i] # s

\* LargeMintThresholdToman.
IsLarge(toman) == params.large > 0 /\ toman >= params.large

MintContent(m) == <<"mint", <<m.to, m.toman, m.ref>>, NoRole>>

\* The checks of InstitutionMint before anything is written.  The deposit
\* signature and the fx metadata are inputs that verify or fail the message.
MayMint(i, s, m) ==
    /\ HasInstitution(i)
    /\ EffectiveRole(i, s) \in {"OPERATOR", "ADMIN"}
    /\ <<i, "mint", m.ref>> \notin used
    /\ istatus[i] # "FROZEN"
    /\ ~IsStale(i)
    /\ MintSeparation(i, s)
    /\ Integral(m.toman, params.rate)
    /\ vault[i] + m.toman <= reserve[i]
    /\ MintCapsOk(i, m.to, m.toman, m.tier)

\* The writes of InstitutionMint: coins, vault, counters, marker.
Minted(i, m) ==
    /\ SumVault + m.toman <= MaxBacking
    /\ supply' = supply + MintedUphi(m.toman, params.rate)
    /\ vault' = [vault EXCEPT ![i] = @ + m.toman]
    /\ counters' = Added(counters, {<<i, "md", Today, Nobody>>, <<i, "mu", Today, m.to>>}, m.toman)
    /\ used' = used \cup {<<i, "mint", m.ref>>}
    /\ spent' = [spent EXCEPT !.minted[i] = @ + m.toman, !.times[<<i, "mint", m.ref>>] = @ + 1]

\* InstitutionMint below the large-mint threshold.
InstitutionMint(i, s, m) ==
    /\ MayMint(i, s, m)
    /\ ~IsLarge(m.toman)
    /\ Minted(i, m)
    /\ UNCHANGED <<instVars, now, reserve, attestedAt, attestor, totals, em, subject>>

\* InstitutionMint at or above it: an ADMIN's approval, and the mint itself
\* once the approvals reach the institution's threshold.
InstitutionMintLarge(i, s, m) ==
    LET ch == MintContent(m)
    IN  /\ MayMint(i, s, m)
        /\ IsLarge(m.toman)
        /\ Approve(i, s, ch)
        /\ NewAdminSet(i, s, ch, FALSE)
        /\ IF Executes(i, s, ch) THEN Minted(i, m)
           ELSE UNCHANGED <<supply, vault, counters, used, spent>>
        /\ UNCHANGED <<regVars, roles, tiers, queue, fxVars, now, reserve, attestedAt,
                       attestor, totals, em, subject>>

\* PublishInstitutionAttestation.
PublishInstitutionAttestation(i, s, r) ==
    /\ HasInstitution(i)
    /\ EffectiveRole(i, s) = "COMPLIANCE"
    /\ attestor' = [attestor EXCEPT ![i] = s]
    /\ reserve' = [reserve EXCEPT ![i] = r]
    /\ attestedAt' = [attestedAt EXCEPT ![i] = now]
    /\ istatus' = [istatus EXCEPT ![i] = IF @ = "FROZEN" THEN @
                                         ELSE IF r < vault[i] THEN "LOW_LIQ" ELSE "HEALTHY"]
    /\ UNCHANGED <<params, admin, itype, iparams, appConfig, depositKey, rbacVars, fxVars,
                   now, supply, vault, capVars, em, subject>>

-----------------------------------------------------------------------------
(* Redeeming *)

\* ComputeRedeemSplit at the governed fee.
Split(uphi, penalty) ==
    ComputeRedeemSplit(uphi, ProtocolFee(uphi, params.feeBps), penalty, params.rate)

\* addRedeemCounters.
RedeemKeys(i, h) ==
    {<<i, "rd", Today, Nobody>>, <<i, "ru", Today, h>>}
    \cup (IF Capping THEN {<<i, "er", em.started, h>>} ELSE {})

\* InstitutionRedeem, signed by the holder, whatever the institution's status;
\* the penalty is the coin module's.
InstitutionRedeem(i, m, penalty) ==
    LET uphi == MintedUphi(m.toman, params.rate)
        split == Split(uphi, penalty)
    IN  /\ HasInstitution(i)
        /\ <<i, "redeem", m.ref>> \notin used
        /\ m.toman <= vault[i]
        /\ Integral(m.toman, params.rate)
        /\ RedeemCapsOk(i, m.by, m.toman, uphi)
        /\ uphi >= UphiPerToman(params.rate)
        /\ split.burned > 0
        /\ supply' = supply - split.burned
        /\ vault' = [vault EXCEPT ![i] = @ - split.tomanOut]
        /\ counters' = Added(counters, RedeemKeys(i, m.by), m.toman)
        /\ totals' = Added(totals, {<<Today, subject[m.by]>>}, uphi)
        /\ used' = used \cup {<<i, "redeem", m.ref>>}
        /\ spent' = [spent EXCEPT !.redeemed[i] = @ + m.toman,
                                  !.times[<<i, "redeem", m.ref>>] = @ + 1]
        /\ UNCHANGED <<instVars, now, reserve, attestedAt, attestor, em, subject>>

-----------------------------------------------------------------------------
(* Elsewhere in the application *)

\* slashCompensator.compensate: what a slash burned is minted again for the
\* penalty destination (RedirectSlashedToPenalty).
Slash(burned) ==
    LET after == supply - burned
    IN  /\ burned <= supply
        /\ supply' = after + Max({0, supply - after})
        /\ UNCHANGED <<instVars, now, vault, reserve, attestedAt, attestor, capVars, em, subject>>

\* govBurnGuard.BurnCoins: a burned deposit goes to the fee collector while
\* any vault holds balance.
GovBurn(amount) ==
    /\ amount <= supply
    /\ supply' = IF SumVault > 0 THEN supply ELSE supply - amount
    /\ UNCHANGED <<instVars, now, vault, reserve, attestedAt, attestor, capVars, em, subject>>

\* x/identity: the DID an account acts for changes.
SubjectChanges(a, d) ==
    /\ subject' = [subject EXCEPT ![a] = d]
    /\ UNCHANGED <<instVars, now, moneyVars, capVars, em>>

\* Faulty Stale: today's counters are pruned.
StaleToday(day, today) == today >= RetentionDays /\ day <= today

\* PruneStaleCounters: daily counters older than the retention go.
Stale(day, today) == today > RetentionDays /\ day < today - RetentionDays

\* BeginBlock: time moves, counters are pruned (fewer than the block's budget
\* here, see module CounterPrune), queued removals are drained.
BeginBlock ==
    LET today == (now + 1) \div DayLen
        kept == {k \in DOMAIN counters : k[2] = "er" \/ ~Stale(k[3], today)}
        keptTotals == {k \in DOMAIN totals : ~Stale(k[1], today)}
    IN  /\ now < MaxNow
        /\ now' = now + 1
        /\ counters' = [k \in kept |-> counters[k]]
        /\ totals' = [k \in keptTotals |-> totals[k]]
        /\ spent' = IF today = Today THEN spent
                    ELSE [spent EXCEPT !.minted = [i \in Ids |-> 0], !.redeemed = [i \in Ids |-> 0]]
        /\ SweepRemovals
        /\ UNCHANGED <<moneyVars, used, em, subject>>

-----------------------------------------------------------------------------
(* The registry's actions, with what they do to the vaults *)

\* RegisterInstitution: an empty vault whose attestation clock starts now.
\* (FinalizeFxEntry, in module Institutions, starts one the same way.)
RegisterVault(i, e) ==
    /\ RegisterInstitution(i, e[1], e[2])
    /\ attestedAt' = [attestedAt EXCEPT ![i] = now]
    /\ UNCHANGED <<now, supply, vault, reserve, attestor, capVars, em, subject>>

\* Faulty RemoveVault: the reference markers of the id go with it.
RemoveVaultForgets(i) ==
    /\ vault[i] = 0
    /\ RemoveInstitution(i)
    /\ reserve' = [reserve EXCEPT ![i] = 0]
    /\ attestedAt' = [attestedAt EXCEPT ![i] = 0]
    /\ attestor' = [attestor EXCEPT ![i] = NoAccount]
    /\ used' = {k \in used : k[1] # i}
    /\ UNCHANGED <<now, supply, vault, counters, totals, spent, em, subject>>

\* RemoveInstitution: only an empty vault is removed; markers and counters
\* of the id stay.
RemoveVault(i) ==
    /\ vault[i] = 0
    /\ RemoveInstitution(i)
    /\ reserve' = [reserve EXCEPT ![i] = 0]
    /\ attestedAt' = [attestedAt EXCEPT ![i] = 0]
    /\ attestor' = [attestor EXCEPT ![i] = NoAccount]
    /\ UNCHANGED <<now, supply, vault, capVars, em, subject>>

\* Export and import: an institution that never attested counts its root
\* admin as the attestor of its (zero) reserve.
ExportImportVaults ==
    /\ ExportImport
    /\ attestor' = [i \in Ids |-> IF HasInstitution(i) /\ attestor[i] = NoAccount
                                  THEN admin[i] ELSE attestor[i]]
    /\ UNCHANGED <<now, supply, vault, reserve, attestedAt, capVars, em, subject>>

Refs == {m.ref : m \in Mints} \cup {m.ref : m \in Redeems}

VaultInit ==
    /\ InstInit
    /\ ValidParams(params, NoBrake)
    /\ now = DayLen
    /\ supply = 0
    /\ vault = [i \in Ids |-> 0]
    /\ reserve = GenesisReserve
    /\ attestedAt = [i \in Ids |-> IF RootAdmin[i] = NoAccount THEN 0 ELSE now]
    /\ attestor = RootAdmin
    /\ em = NoBrake
    /\ subject = [a \in Accounts |-> Unidentified]
    /\ counters = [k \in {} |-> 0]
    /\ totals = [k \in {} |-> 0]
    /\ used = {}
    /\ spent = [minted |-> [i \in Ids |-> 0], redeemed |-> [i \in Ids |-> 0],
                times |-> [k \in Ids \X {"mint", "redeem"} \X Refs |-> 0]]

Registry ==
    \/ \E i \in Ids, s \in Accounts : Sensitive(i, s)
    \/ \E i \in Freezable, b \in BOOLEAN : FreezeInstitution(i, b)

VaultNext ==
    \/ \E i \in Ids, s \in Accounts, m \in Mints : InstitutionMint(i, s, m)
    \/ \E i \in Ids, s \in Accounts, m \in Mints : InstitutionMintLarge(i, s, m)
    \/ \E i \in Ids, m \in Redeems, p \in Carves : InstitutionRedeem(i, m, p)
    \/ \E i \in Ids, s \in Accounts, r \in Reserves : PublishInstitutionAttestation(i, s, r)
    \/ \E p \in Params, e \in Brakes : UpdateParams(p, e)
    \/ \E e \in Brakes, b \in BOOLEAN : SetEmergencyRedemption(b, e)
    \/ \E b \in Carves : Slash(b) \/ GovBurn(b)
    \/ \E a \in Accounts, d \in DIDs \cup {Unidentified} : SubjectChanges(a, d)
    \/ \E i \in Ids, e \in Registrants : RegisterVault(i, e)
    \/ \E i \in Ids : RemoveVault(i)
    \/ Registry /\ UNCHANGED <<now, moneyVars, capVars, em, subject>>
    \/ ExportImportVaults
    \/ BeginBlock

VaultSpec == VaultInit /\ [][VaultNext]_vaultVars

-----------------------------------------------------------------------------
(* Properties *)

\* Every transaction and block of the module, and every slash and governance
\* burn, is a step of the peg: the supply and the vaults' total move together.
ImplementsPeg == PegOf!PegSpec

\* A deposit or redemption reference is executed at most once per institution
\* id, whatever happens to the institution in between (depositSeen): retries,
\* collected approvals, removal and re-registration, export and import.
RefsUsedOnce == \A k \in DOMAIN spent.times : spent.times[k] <= 1

\* The counters the caps read are what was really minted and redeemed today:
\* neither pruning nor removal nor an export loses today's amounts
\* (PruneStaleCounters, addMintCounters, addRedeemCounters).
TodayCounted ==
    \A i \in Ids : /\ Counter(i, "md", Today, Nobody) = spent.minted[i]
                   /\ Counter(i, "rd", Today, Nobody) = spent.redeemed[i]

\* The redeem floor: a holder with an identity that has not redeemed today
\* can redeem up to the floor from any vault that holds it, whatever caps the
\* institution stored and others used up (enforceRedeemCaps, AtLeastFloor,
\* withinFloorReservation), except for a brake that halts redemption.
FloorRedeemable ==
    \A i \in Ids, h \in Accounts, t \in Tomans :
       LET uphi == MintedUphi(t, params.rate)
           braked == Capping /\ ~(Counter(i, "er", em.started, h) + t <= EmergencyCap)
       IN  (/\ HasInstitution(i) /\ ~braked
            /\ t <= params.floor /\ t <= vault[i]
            /\ subject[h] \in DIDs
            /\ Total(Today, subject[h]) = 0 /\ Counter(i, "ru", Today, h) = 0)
              => RedeemCapsOk(i, h, t, uphi)

\* No approval of a pending large mint that would count today is that of the
\* account that attested the reserve (requireMintSeparation checks only the
\* signer of the moment): roles and attestors change while approvals wait.
ApproverIsNotAttestor ==
    \A i \in Ids, m \in Mints :
       HasInstitution(i) => attestor[i] \notin CountApprovals(i, MintContent(m), approvals[i])
=============================================================================
