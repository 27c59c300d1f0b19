------------------------- MODULE InstitutionProofs -------------------------
(***************************************************************************)
(* Proofs about x/institutions, for any institutions, accounts, messages,  *)
(* parameters, rates and fees.  Here are the arithmetic of the units, what *)
(* every step keeps of the counters and the references, of the registry    *)
(* and its approvals, and of the separation between minting and attesting. *)
(* VaultProofs adds the money and draws the conclusions.                   *)
(***************************************************************************)
EXTENDS Vaults, TLAPS

\* Zenon by default, SMT where a step names it; the seconds each may take.
USE ZenonT(30)

\* What is read from an approval: its content, its signer and its epoch.
LEMMA Triple ==
    ASSUME NEW a, NEW b, NEW c, NEW e, e = <<a, b, c>>
    PROVE  e[1] = a /\ e[2] = b /\ e[3] = c
BY SMTT(30)

\* A later epoch is another epoch.
LEMMA Later ==
    ASSUME NEW m \in Nat, NEW n \in Nat, NEW k, m <= n, k = n + 1
    PROVE  m # k /\ m <= k
BY SMTT(30)

LEMMA Current ==
    ASSUME NEW m, NEW n \in Nat, m = n
    PROVE  m \in Nat /\ m <= n
BY SMTT(30)

-----------------------------------------------------------------------------
(* The units *)

\* A rate that divides UphiPerPhi converts exactly: UphiPerPhi is the rate
\* times the uphi per toman (Params.Validate, UphiPerToman).
LEMMA RateExact ==
    ASSUME NEW r \in Rates
    PROVE  /\ UphiPerToman(r) \in Nat \ {0}
           /\ r \in Nat \ {0}
           /\ UphiPerPhi = r * UphiPerToman(r)
<1>1. r \in Nat \ {0} /\ r <= UphiPerPhi /\ UphiPerPhi % r = 0
  BY Units, SMTT(30) DEF Rates
<1>2. UphiPerPhi = r * (UphiPerPhi \div r) + (UphiPerPhi % r)
  BY <1>1, Units, SMTT(30)
<1>3. UphiPerPhi \div r \in Nat
  BY <1>1, Units, SMTT(30)
<1>4. UphiPerPhi = r * (UphiPerPhi \div r)
  BY <1>1, <1>2, <1>3, SMTT(30)
<1>5. UphiPerPhi \div r # 0
  BY <1>1, <1>4, Units, SMTT(30)
<1> QED BY <1>1, <1>3, <1>4, <1>5 DEF UphiPerToman

\* MintedUphiForToman is exact at a valid rate: so many uphi per toman, and
\* never a remainder.
LEMMA MintExact ==
    ASSUME NEW r \in Rates, NEW t \in Nat
    PROVE  Integral(t, r) /\ MintedUphi(t, r) = t * UphiPerToman(r)
<1> DEFINE k == UphiPerToman(r)
<1>1. k \in Nat \ {0} /\ r \in Nat \ {0} /\ UphiPerPhi = r * k
  BY RateExact
<1> HIDE DEF k
<1>2. t * UphiPerPhi = r * (t * k)
  BY <1>1, SMTT(30)
<1>3. t * k \in Nat
  BY <1>1, SMTT(30)
<1>4. ASSUME NEW q \in Nat PROVE (r * q) \div r = q /\ (r * q) % r = 0
  BY <1>1, SMTT(30)
<1>5. MintedUphi(t, r) = t * k
  BY <1>2, <1>3, <1>4 DEF MintedUphi
<1>6. Integral(t, r)
  BY <1>2, <1>3, <1>4 DEF Integral
<1> QED BY <1>5, <1>6 DEF k

\* RoundDown stays within a toman below its argument, on a whole toman.
LEMMA RoundDownWhole ==
    ASSUME NEW k \in Nat \ {0}, NEW x \in Nat
    PROVE  /\ RoundDown(x, k) \in Nat
           /\ RoundDown(x, k) <= x
           /\ x - RoundDown(x, k) < k
           /\ RoundDown(x, k) = k * (RoundDown(x, k) \div k)
<1>1. x = k * (x \div k) + (x % k) /\ x % k \in 0..(k - 1) /\ x \div k \in Nat
  BY SMTT(30)
<1>2. RoundDown(x, k) = k * (x \div k)
  BY <1>1, SMTT(30) DEF RoundDown
<1>3. k * (x \div k) \in Nat
  BY <1>1, SMTT(30)
<1>4. ASSUME NEW q \in Nat PROVE (k * q) \div k = q
  BY SMTT(30)
<1>5. (k * (x \div k)) \div k = x \div k
  BY <1>1, <1>4
<1>6. RoundDown(x, k) = k * (RoundDown(x, k) \div k)
  BY <1>2, <1>5
<1> QED BY <1>1, <1>2, <1>3, <1>6, SMTT(30) DEF RoundDown

\* ComputeRedeemSplit, for every fee and penalty: of x uphi worth t whole toman
\* a positive whole number of toman is burned and paid out, the parts are
\* non-negative and add up to x, and the dust is below one toman.
THEOREM RedeemSplitSound ==
    ASSUME NEW r \in Rates, NEW t \in Nat \ {0}, NEW fee \in Nat, NEW penalty \in Nat
    PROVE  LET x == MintedUphi(t, r)
               s == ComputeRedeemSplit(x, fee, penalty, r)
               k == UphiPerToman(r)
           IN  /\ s.burned \in Nat \ {0} /\ s.burned <= x
               /\ s.tomanOut \in Nat \ {0} /\ s.burned = s.tomanOut * k
               /\ s.tomanOut <= t
               /\ s.fee \in Nat /\ s.penalty \in Nat /\ s.dust \in Nat /\ s.dust < k
               /\ s.fee <= fee /\ s.penalty <= penalty
               /\ x = s.burned + s.fee + s.penalty + s.dust
<1> DEFINE k == UphiPerToman(r)
           x == MintedUphi(t, r)
           carve == MinInt(fee + penalty, x)
           fee0 == MinInt(fee, carve)
           pen0 == carve - fee0
           burnable == x - carve
           rounded == RoundDown(burnable, k)
           short == IF rounded <= 0 /\ x >= k THEN k - burnable ELSE 0
           fromPen == MinInt(short, pen0)
           burned == IF rounded <= 0 /\ x >= k THEN k ELSE rounded
           fee1 == fee0 - MinInt(short - fromPen, fee0)
           pen1 == pen0 - fromPen
<1>1. k \in Nat \ {0}
  BY RateExact
<1>2. x = t * k
  BY MintExact
<1>3. x \in Nat /\ x >= k
  <2> HIDE DEF k, x
  <2>1. t * k \in Nat /\ t * k >= k
    BY <1>1, SMTT(30)
  <2> QED BY <2>1, <1>2
<1>4. /\ carve \in 0..x /\ fee0 \in 0..carve /\ fee0 <= fee
      /\ pen0 \in Nat /\ pen0 <= penalty /\ carve = fee0 + pen0 /\ burnable \in 0..x
  <2> HIDE DEF x
  <2> QED BY <1>3, SMTT(30) DEF MinInt
<1>5. /\ rounded \in Nat /\ rounded <= burnable
      /\ burnable - rounded < k /\ rounded = k * (rounded \div k)
  <2> HIDE DEF k, x, carve, burnable
  <2>1. burnable \in Nat
    BY <1>4, SMTT(30)
  <2> QED BY <2>1, <1>1, RoundDownWhole
<1> HIDE DEF k, x, carve, fee0, pen0, rounded
<1> DEFINE Sound == /\ burned \in Nat \ {0} /\ burned <= x
                    /\ burned = k * (burned \div k) /\ burned \div k \in Nat
                    /\ fee1 \in Nat /\ fee1 <= fee /\ pen1 \in Nat /\ pen1 <= penalty
                    /\ x - burned - fee1 - pen1 \in Nat
                    /\ x - burned - fee1 - pen1 < k
<1>6. ASSUME rounded > 0 PROVE Sound
  <2>1. burned = rounded /\ fee1 = fee0 /\ pen1 = pen0
    BY <1>1, <1>3, <1>4, <1>5, <1>6, SMTT(30) DEF MinInt
  <2>2. rounded \div k \in Nat
    BY <1>1, <1>5, SMTT(30)
  <2> QED BY <2>1, <2>2, <1>1, <1>3, <1>4, <1>5, <1>6, SMTT(30)
<1>7. ASSUME rounded = 0 PROVE Sound
  <2>1. burned = k /\ short = k - burnable /\ short \in 1..k /\ short <= carve
    BY <1>1, <1>3, <1>4, <1>5, <1>7, SMTT(30)
  <2> HIDE DEF burned, short
  <2>2. fromPen \in Nat /\ fromPen <= short /\ fromPen <= pen0 /\ short - fromPen <= fee0
    BY <2>1, <1>1, <1>4, SMTT(30) DEF MinInt
  <2> HIDE DEF fromPen
  <2>3. fee1 = fee0 - (short - fromPen)
    BY <2>1, <2>2, <1>1, <1>4 DEF MinInt
  <2>4. k \div k = 1
    BY <1>1, SMTT(30)
  <2> HIDE DEF fee1
  <2>5. x - k - fee1 - pen1 = 0
    BY <2>1, <2>2, <2>3, <1>1, <1>3, <1>4, SMTT(30)
  <2>6. fee1 \in Nat /\ fee1 <= fee /\ pen1 \in Nat /\ pen1 <= penalty
    BY <2>1, <2>2, <2>3, <1>1, <1>4, SMTT(30)
  <2> QED BY <2>1, <2>4, <2>5, <2>6, <1>1, <1>3, SMTT(30)
<1>8. Sound
  BY <1>5, <1>6, <1>7, SMTT(30)
<1>9. ComputeRedeemSplit(x, fee, penalty, r) =
        [burned |-> burned, fee |-> fee1, penalty |-> pen1,
         dust |-> x - burned - fee1 - pen1, tomanOut |-> burned \div k]
  BY DEF ComputeRedeemSplit, k, carve, fee0, pen0, rounded
<1> DEFINE m == burned \div k
<1> HIDE DEF burned, fee1, pen1
<1>10. m # 0 /\ m <= t
  <2>1. m \in Nat /\ burned = k * m /\ burned <= t * k /\ burned # 0
    BY <1>2, <1>8
  <2> HIDE DEF m
  <2>2. m # 0
    BY <2>1, <1>1, SMTT(30)
  <2>3. CASE m > t
    <3>1. k * m >= k * (t + 1)
      BY <2>3, <2>1, <1>1, SMTT(30)
    <3> QED BY <3>1, <2>1, <1>1, SMTT(30)
  <2> QED BY <2>1, <2>2, <2>3, SMTT(30)
<1>11. m \in Nat /\ burned = m * k
  <2>1. m \in Nat /\ burned = k * m
    BY <1>8
  <2> HIDE DEF m
  <2> QED BY <2>1, <1>1, SMTT(30)
<1>12. x = burned + fee1 + pen1 + (x - burned - fee1 - pen1)
  BY <1>3, <1>8, SMTT(30)
<1> HIDE DEF m
<1> QED BY <1>8, <1>9, <1>10, <1>11, <1>12, SMTT(30) DEF k, x, m

\* The part of it that the money is about: what a vault pays is what is burned.
LEMMA RedeemPays ==
    ASSUME NEW r \in Rates, NEW t \in Nat, t > 0, NEW fee \in Nat, NEW pen \in Nat, NEW s,
           s = ComputeRedeemSplit(MintedUphi(t, r), fee, pen, r)
    PROVE  s.tomanOut \in Nat /\ s.burned = s.tomanOut * UphiPerToman(r) /\ s.tomanOut <= t
<1>1. t \in Nat \ {0}
    BY SMTT(30)
<1> QED
    BY <1>1, RedeemSplitSound, SMTT(30)

\* An empty total is worth nothing, and nothing is all that can be burned of it.
LEMMA WorthNothing ==
    ASSUME NEW k \in Nat, NEW n, n = 0
    PROVE  n \in Nat /\ n * k = 0
BY SMTT(30)

LEMMA NoneAbove ==
    ASSUME NEW n \in Nat, ~(n > 0)
    PROVE  n = 0
BY SMTT(30)

LEMMA NoneToBurn ==
    ASSUME NEW n \in Nat, NEW b \in Nat, n = 0, b <= n
    PROVE  n - b = n
BY SMTT(30)

\* Nothing held, nothing approved and no tier: no row.
LEMMA NoRows ==
    ASSUME NEW a, NEW b, NEW c, NEW n, n = a + b + c, a = 0, b = 0, c = 0
    PROVE  n = 0
BY SMTT(30)

\* A quorum with the new signer is a quorum but one without.
LEMMA QuorumLessOne ==
    ASSUME NEW a \in Nat, NEW b \in Nat, NEW c \in Nat, NEW t \in Nat,
           a >= t, a <= c, c <= b + 1
    PROVE  b + 1 >= t
BY SMTT(30)

LEMMA MessageToman ==
    ASSUME NEW m \in Mints \cup Redeems
    PROVE  m.toman \in Tomans /\ m.toman \in Nat /\ m.toman > 0
<1>1. PICK t : t = m.toman
    OBVIOUS
<1>2. t \in Tomans \ {0}
    BY <1>1, MessageAmounts
<1>3. t \in Tomans /\ t \in Nat /\ t > 0
    BY <1>2, Units, SMTT(30)
<1> QED
    BY <1>1, <1>3

-----------------------------------------------------------------------------
(* References and counters *)

\* A reference that is not marked was never executed.
SpentTyped ==
    spent \in [minted : [Ids -> Nat], redeemed : [Ids -> Nat],
               times : [Ids \X {"mint", "redeem"} \X Refs -> Nat]]
RefsInv ==
    /\ SpentTyped
    /\ RefsUsedOnce
    /\ \A k \in DOMAIN spent.times \ used : spent.times[k] = 0

\* Only an emergency counter is dated after today.
DayInv ==
    /\ now \in Nat
    /\ TodayCounted
    /\ \A k \in DOMAIN counters : k[2] # "er" => k[3] \in Nat /\ k[3] <= Today

\* A mint or redemption of n toman under a new reference, to the history.
Spends(i, dir, ref, n) ==
    LET k == <<i, dir, ref>>
    IN  /\ k \notin used /\ used' = used \cup {k}
        /\ spent' = [minted   |-> IF dir = "mint" THEN [spent.minted EXCEPT ![i] = @ + n]
                                  ELSE spent.minted,
                     redeemed |-> IF dir = "redeem" THEN [spent.redeemed EXCEPT ![i] = @ + n]
                                  ELSE spent.redeemed,
                     times    |-> [spent.times EXCEPT ![k] = @ + 1]]

LEMMA MintSpends ==
    ASSUME SpentTyped, NEW i \in Ids, NEW m \in Mints, Minted(i, m), <<i, "mint", m.ref>> \notin used
    PROVE  Spends(i, "mint", m.ref, m.toman) /\ m.ref \in Refs
<1>1. m.ref \in Refs
    BY DEF Refs
<1>2. PICK k : k = <<i, "mint", m.ref>>
    OBVIOUS
<1>3. spent' = [spent EXCEPT !.minted[i] = @ + m.toman, !.times[k] = @ + 1]
    BY <1>2 DEF Minted
<1>4. PICK M, R, T : spent = [minted |-> M, redeemed |-> R, times |-> T]
    BY DEF SpentTyped
<1>5. spent' = [minted |-> [M EXCEPT ![i] = @ + m.toman], redeemed |-> R, times |-> [T EXCEPT ![k] = @ + 1]]
    BY <1>3, <1>4
<1>6. spent.minted = M /\ spent.redeemed = R /\ spent.times = T
    BY <1>4
<1> QED
    BY <1>1, <1>2, <1>5, <1>6 DEF Spends, Minted

LEMMA RedeemSpends ==
    ASSUME SpentTyped, NEW i \in Ids, NEW m \in Redeems, NEW p \in Carves, InstitutionRedeem(i, m, p)
    PROVE  Spends(i, "redeem", m.ref, m.toman) /\ m.ref \in Refs
<1>1. m.ref \in Refs
    BY DEF Refs
<1>2. PICK k : k = <<i, "redeem", m.ref>>
    OBVIOUS
<1>3. /\ spent' = [spent EXCEPT !.redeemed[i] = @ + m.toman, !.times[k] = @ + 1]
      /\ k \notin used /\ used' = used \cup {k}
    BY <1>2 DEF InstitutionRedeem
<1>4. PICK M, R, T : spent = [minted |-> M, redeemed |-> R, times |-> T]
    BY DEF SpentTyped
<1>5. spent' = [minted |-> M, redeemed |-> [R EXCEPT ![i] = @ + m.toman], times |-> [T EXCEPT ![k] = @ + 1]]
    BY <1>3, <1>4
<1>6. spent.minted = M /\ spent.redeemed = R /\ spent.times = T
    BY <1>4
<1> QED
    BY <1>1, <1>2, <1>3, <1>5, <1>6 DEF Spends

\* depositSeen: the marker is set with the first execution and never taken off.
LEMMA SpendsOnce ==
    ASSUME RefsInv, NEW i \in Ids, NEW dir \in {"mint", "redeem"}, NEW ref \in Refs, NEW n \in Nat,
           Spends(i, dir, ref, n)
    PROVE  RefsInv'
<1>1. PICK k : k = <<i, dir, ref>>
    OBVIOUS
<1>2. PICK T : T = spent.times
    OBVIOUS
<1>3. T \in [Ids \X {"mint", "redeem"} \X Refs -> Nat] /\ k \in Ids \X {"mint", "redeem"} \X Refs
    BY <1>1, <1>2 DEF RefsInv, SpentTyped
<1>4. k \notin used /\ used' = used \cup {k} /\ spent.times' = [T EXCEPT ![k] = @ + 1]
    BY <1>1, <1>2 DEF Spends
<1>5. T[k] = 0
    BY <1>2, <1>3, <1>4 DEF RefsInv
<1>6. /\ spent.times' \in [Ids \X {"mint", "redeem"} \X Refs -> Nat]
      /\ spent.times'[k] = 1 /\ \A j \in DOMAIN T : j # k => spent.times'[j] = T[j]
    BY <1>3, <1>4, <1>5, SMTT(30)
<1>7. SpentTyped'
    <2>1. spent.minted \in [Ids -> Nat] /\ spent.redeemed \in [Ids -> Nat]
        BY DEF RefsInv, SpentTyped
    <2> QED
        BY <1>6, <2>1, SMTT(30) DEF Spends, SpentTyped
<1>8. DOMAIN spent.times' = DOMAIN T
    BY <1>3, <1>6
<1>9. RefsUsedOnce'
    BY <1>2, <1>3, <1>6, <1>8, SMTT(30) DEF RefsInv, RefsUsedOnce
<1>10. \A j \in DOMAIN spent.times' \ used' : spent.times'[j] = 0
    BY <1>2, <1>4, <1>6, <1>8 DEF RefsInv
<1> QED
    BY <1>7, <1>9, <1>10 DEF RefsInv

\* addMintCounters and addRedeemCounters: what a key reads afterwards.
Reading(f, k) == IF k \in DOMAIN f THEN f[k] ELSE 0

LEMMA AddedReads ==
    ASSUME NEW f, NEW ks, NEW n \in Nat, NEW k, Reading(f, k) \in Nat
    PROVE  Reading(Added(f, ks, n), k) = Reading(f, k) + (IF k \in ks THEN n ELSE 0)
<1>1. DOMAIN Added(f, ks, n) = DOMAIN f \cup ks
    BY DEF Added
<1>2. k \in DOMAIN f \cup ks =>
         Added(f, ks, n)[k] = Reading(f, k) + (IF k \in ks THEN n ELSE 0)
    BY DEF Added, Reading
<1> QED
    BY <1>1, <1>2, SMTT(30) DEF Reading

\* Where the counter of a key of today says what the history says.
LEMMA CountersAgree ==
    ASSUME SpentTyped, TodayCounted, NEW i \in Ids
    PROVE  /\ Counter(i, "md", Today, Nobody) = spent.minted[i] /\ spent.minted[i] \in Nat
           /\ Counter(i, "rd", Today, Nobody) = spent.redeemed[i] /\ spent.redeemed[i] \in Nat
<1>1. spent.minted \in [Ids -> Nat] /\ spent.redeemed \in [Ids -> Nat]
    BY DEF SpentTyped
<1> QED
    BY <1>1 DEF TodayCounted

\* A mint or redemption adds the same to the counter of its institution and
\* to the history.
LEMMA SpendsCounted ==
    ASSUME RefsInv, DayInv, NEW i \in Ids, NEW dir \in {"mint", "redeem"}, NEW ref, NEW n \in Nat,
           Spends(i, dir, ref, n), NEW ks, counters' = Added(counters, ks, n), now' = now,
           \A j \in Ids : /\ <<j, "md", Today, Nobody>> \in ks <=> j = i /\ dir = "mint"
                          /\ <<j, "rd", Today, Nobody>> \in ks <=> j = i /\ dir = "redeem",
           \A k \in ks : k[2] # "er" => k[3] = Today
    PROVE  DayInv'
<1>0. Today' = Today /\ Today \in Nat /\ now' \in Nat
    BY Days, SMTT(30) DEF Today, DayInv
<1>1. spent.minted \in [Ids -> Nat] /\ spent.redeemed \in [Ids -> Nat]
    BY DEF RefsInv, SpentTyped
<1>2. ASSUME NEW j \in Ids
      PROVE  /\ Counter(j, "md", Today, Nobody)' = spent.minted'[j]
             /\ Counter(j, "rd", Today, Nobody)' = spent.redeemed'[j]
    <2>1. /\ Counter(j, "md", Today, Nobody) = spent.minted[j] /\ spent.minted[j] \in Nat
          /\ Counter(j, "rd", Today, Nobody) = spent.redeemed[j] /\ spent.redeemed[j] \in Nat
        BY CountersAgree DEF RefsInv, DayInv
    <2>2. ASSUME NEW kind \in {"md", "rd"}, NEW k, k = <<j, kind, Today, Nobody>>
          PROVE  /\ Counter(j, kind, Today, Nobody) = Reading(counters, k)
                 /\ Counter(j, kind, Today, Nobody)' = Reading(counters', k)
        BY <1>0, <2>2 DEF Counter, Reading, Nobody
    <2>3. /\ Counter(j, "md", Today, Nobody)' = spent.minted[j] + (IF j = i /\ dir = "mint" THEN n ELSE 0)
          /\ Counter(j, "rd", Today, Nobody)' = spent.redeemed[j] + (IF j = i /\ dir = "redeem" THEN n ELSE 0)
        <3>1. PICK a, b : a = <<j, "md", Today, Nobody>> /\ b = <<j, "rd", Today, Nobody>>
            OBVIOUS
        <3>2. Reading(counters, a) = spent.minted[j] /\ Reading(counters, b) = spent.redeemed[j]
            BY <2>1, <2>2, <3>1
        <3>3. /\ Reading(counters', a) = spent.minted[j] + (IF a \in ks THEN n ELSE 0)
              /\ Reading(counters', b) = spent.redeemed[j] + (IF b \in ks THEN n ELSE 0)
            <4>1. ASSUME NEW k, Reading(counters, k) \in Nat
                  PROVE  Reading(counters', k) = Reading(counters, k) + (IF k \in ks THEN n ELSE 0)
                <5>1. Reading(Added(counters, ks, n), k) = Reading(counters, k) + (IF k \in ks THEN n ELSE 0)
                    BY <4>1, AddedReads, SMTT(30)
                <5> QED
                    BY <5>1
            <4> QED
                BY <2>1, <3>2, <4>1
        <3> QED
            BY <2>2, <3>1, <3>3
    <2>4. /\ spent.minted' = IF dir = "mint" THEN [spent.minted EXCEPT ![i] = @ + n] ELSE spent.minted
          /\ spent.redeemed' = IF dir = "redeem" THEN [spent.redeemed EXCEPT ![i] = @ + n] ELSE spent.redeemed
        BY DEF Spends
    <2>5. /\ spent.minted'[j] = spent.minted[j] + (IF j = i /\ dir = "mint" THEN n ELSE 0)
          /\ spent.redeemed'[j] = spent.redeemed[j] + (IF j = i /\ dir = "redeem" THEN n ELSE 0)
        BY <1>1, <2>1, <2>4, SMTT(30)
    <2> QED
        BY <2>3, <2>5
<1>3. DOMAIN counters' = DOMAIN counters \cup ks
    BY DEF Added
<1>4. \A k \in DOMAIN counters' : k[2] # "er" => k[3] \in Nat /\ k[3] <= Today
    BY <1>0, <1>3, SMTT(30) DEF DayInv
<1> QED
    BY <1>0, <1>2, <1>4 DEF DayInv, TodayCounted

\* PruneStaleCounters at the turn of a day: today's keys are never stale, and
\* a new day has none.
LEMMA BlockCounted ==
    ASSUME RefsInv, DayInv, BeginBlock
    PROVE  RefsInv' /\ DayInv'
<1>1. PICK today : today = (now + 1) \div DayLen
    OBVIOUS
<1>2. /\ today \in Nat /\ Today \in Nat /\ Today <= today /\ now + 1 \in Nat
      /\ Today' = today /\ now' = now + 1 /\ used' = used
    <2>1. now \in Nat /\ DayLen \in Nat \ {0}
        BY Days DEF DayInv
    <2>2. ASSUME NEW d \in Nat \ {0}, NEW t \in Nat
          PROVE  t \div d \in Nat /\ (t + 1) \div d \in Nat /\ t \div d <= (t + 1) \div d
        BY SMTT(30)
    <2> QED
        BY <1>1, <2>1, <2>2, SMTT(30) DEF BeginBlock, Today
<1>3. /\ spent' = IF today = Today THEN spent
                  ELSE [spent EXCEPT !.minted = [i \in Ids |-> 0], !.redeemed = [i \in Ids |-> 0]]
      /\ DOMAIN counters' = {k \in DOMAIN counters : k[2] = "er" \/ ~Stale(k[3], today)}
      /\ \A k \in DOMAIN counters' : counters'[k] = counters[k]
    BY <1>1 DEF BeginBlock
<1>4. /\ SpentTyped' /\ spent.times' = spent.times
      /\ today = Today => spent.minted' = spent.minted /\ spent.redeemed' = spent.redeemed
      /\ today # Today => \A i \in Ids : spent.minted'[i] = 0 /\ spent.redeemed'[i] = 0
    <2>1. PICK M, R, T : /\ spent = [minted |-> M, redeemed |-> R, times |-> T]
                         /\ M \in [Ids -> Nat] /\ R \in [Ids -> Nat]
                         /\ T \in [Ids \X {"mint", "redeem"} \X Refs -> Nat]
        BY DEF RefsInv, SpentTyped
    <2>2. PICK Z : Z = [i \in Ids |-> 0]
        OBVIOUS
    <2>3. \/ today = Today /\ spent' = spent
          \/ today # Today /\ spent' = [minted |-> Z, redeemed |-> Z, times |-> T]
        BY <1>3, <2>1, <2>2
    <2> QED
        BY <2>1, <2>2, <2>3, SMTT(30) DEF SpentTyped
<1>5. RefsInv'
    BY <1>2, <1>4 DEF RefsInv, RefsUsedOnce
<1>6. ~Stale(today, today)
    BY <1>2, Days, SMTT(30) DEF Stale
<1>7. ASSUME NEW i \in Ids, NEW kind \in {"md", "rd"}, NEW k, k = <<i, kind, today, Nobody>>
      PROVE  /\ Counter(i, kind, Today, Nobody)' = IF k \in DOMAIN counters THEN counters[k] ELSE 0
             /\ today # Today => k \notin DOMAIN counters
    <2>1. k[2] = kind /\ k[3] = today
        BY <1>7
    <2>2. k \in DOMAIN counters' <=> k \in DOMAIN counters
        BY <1>3, <1>6, <2>1
    <2>3. Counter(i, kind, Today, Nobody)' = IF k \in DOMAIN counters' THEN counters'[k] ELSE 0
        BY <1>2, <1>7 DEF Counter, Nobody
    <2>4. today # Today => k \notin DOMAIN counters
        BY <1>2, <2>1, SMTT(30) DEF DayInv
    <2> QED
        BY <1>3, <2>2, <2>3, <2>4
<1>8. ASSUME NEW i \in Ids
      PROVE  /\ Counter(i, "md", Today, Nobody)' = spent.minted'[i]
             /\ Counter(i, "rd", Today, Nobody)' = spent.redeemed'[i]
    <2>1. CASE today = Today
        <3>1. /\ Counter(i, "md", Today, Nobody)' = Counter(i, "md", Today, Nobody)
              /\ Counter(i, "rd", Today, Nobody)' = Counter(i, "rd", Today, Nobody)
            BY <1>7, <2>1 DEF Counter
        <3> QED
            BY <1>4, <2>1, <3>1 DEF DayInv, TodayCounted
    <2>2. CASE today # Today
        BY <1>4, <1>7, <2>2
    <2> QED
        BY <2>1, <2>2
<1>9. \A k \in DOMAIN counters' : k[2] # "er" => k[3] \in Nat /\ k[3] <= Today'
    BY <1>2, <1>3, SMTT(30) DEF DayInv
<1> QED
    BY <1>2, <1>5, <1>8, <1>9 DEF DayInv, TodayCounted

LEMMA SpentStays ==
    ASSUME RefsInv, DayInv, UNCHANGED <<now, counters, used, spent>>
    PROVE  RefsInv' /\ DayInv'
BY DEF RefsInv, DayInv, SpentTyped, RefsUsedOnce, TodayCounted, Counter, Today

LEMMA MintCounted ==
    ASSUME RefsInv, DayInv, NEW i \in Ids, NEW m \in Mints, Minted(i, m),
           <<i, "mint", m.ref>> \notin used, now' = now
    PROVE  RefsInv' /\ DayInv'
<1>1. SpentTyped /\ m.toman \in Nat
    BY MessageToman DEF RefsInv
<1>2. Spends(i, "mint", m.ref, m.toman) /\ m.ref \in Refs
    BY <1>1, MintSpends
<1>3. PICK ks : /\ ks = {<<i, "md", Today, Nobody>>, <<i, "mu", Today, m.to>>}
                /\ counters' = Added(counters, ks, m.toman)
    BY DEF Minted
<1>4. /\ \A j \in Ids : /\ <<j, "md", Today, Nobody>> \in ks <=> j = i
                        /\ <<j, "rd", Today, Nobody>> \notin ks
      /\ \A k \in ks : k[3] = Today
    BY <1>3, SMTT(30)
<1>5. RefsInv'
    BY <1>1, <1>2, SpendsOnce
<1>6. DayInv'
    BY <1>1, <1>2, <1>3, <1>4, SpendsCounted, SMTT(30)
<1> QED
    BY <1>5, <1>6

LEMMA RedeemCounted ==
    ASSUME RefsInv, DayInv, NEW i \in Ids, NEW m \in Redeems, NEW p \in Carves,
           InstitutionRedeem(i, m, p)
    PROVE  RefsInv' /\ DayInv'
<1>1. SpentTyped /\ m.toman \in Nat
    BY MessageToman DEF RefsInv
<1>2. Spends(i, "redeem", m.ref, m.toman) /\ m.ref \in Refs
    BY <1>1, RedeemSpends
<1>3. PICK ks : /\ ks = RedeemKeys(i, m.by) /\ now' = now
                /\ counters' = Added(counters, ks, m.toman)
    BY DEF InstitutionRedeem
<1>4. /\ \A j \in Ids : /\ <<j, "md", Today, Nobody>> \notin ks
                        /\ <<j, "rd", Today, Nobody>> \in ks <=> j = i
      /\ \A k \in ks : k[2] # "er" => k[3] = Today
    BY <1>3, SMTT(30) DEF RedeemKeys
<1>5. RefsInv'
    BY <1>1, <1>2, SpendsOnce
<1>6. DayInv'
    BY <1>1, <1>2, <1>3, <1>4, SpendsCounted
<1> QED
    BY <1>5, <1>6

LEMMA VaultCounted ==
    ASSUME RefsInv, DayInv, [VaultNext]_vaultVars
    PROVE  RefsInv' /\ DayInv'
<1>1. ASSUME NEW i \in Ids, NEW s \in Accounts, NEW m \in Mints,
             InstitutionMint(i, s, m) \/ InstitutionMintLarge(i, s, m)
      PROVE  RefsInv' /\ DayInv'
    <2>1. /\ Minted(i, m) \/ UNCHANGED <<counters, used, spent>>
          /\ <<i, "mint", m.ref>> \notin used /\ now' = now
        BY <1>1 DEF InstitutionMint, InstitutionMintLarge, MayMint
    <2> QED
        BY <2>1, MintCounted, SpentStays
<1>2. ASSUME \/ \E i \in Ids, s \in Accounts, r \in Reserves : PublishInstitutionAttestation(i, s, r)
             \/ \E p \in Params, e \in Brakes : UpdateParams(p, e)
             \/ \E e \in Brakes, b \in BOOLEAN : SetEmergencyRedemption(b, e)
             \/ \E b \in Carves : Slash(b) \/ GovBurn(b)
             \/ \E a \in Accounts, d \in DIDs \cup {Unidentified} : SubjectChanges(a, d)
             \/ \E i \in Ids, e \in Registrants : RegisterVault(i, e)
             \/ \E i \in Ids : RemoveVault(i)
             \/ Registry /\ UNCHANGED <<now, moneyVars, capVars, em, subject>>
             \/ ExportImportVaults
             \/ UNCHANGED vaultVars
      PROVE  UNCHANGED <<now, counters, used, spent>>
    BY <1>2
       DEF PublishInstitutionAttestation, UpdateParams, SetEmergencyRedemption, Slash, GovBurn,
           SubjectChanges, RegisterVault, RemoveVault, ExportImportVaults, vaultVars, capVars
<1> QED
    BY <1>1, <1>2, SpentStays, RedeemCounted, BlockCounted DEF VaultNext

LEMMA VaultCountInit == VaultInit => RefsInv /\ DayInv
<1> SUFFICES ASSUME VaultInit PROVE RefsInv /\ DayInv
    OBVIOUS
<1>1. spent = [minted |-> [i \in Ids |-> 0], redeemed |-> [i \in Ids |-> 0],
               times |-> [k \in Ids \X {"mint", "redeem"} \X Refs |-> 0]]
    BY DEF VaultInit
<1>2. DOMAIN counters = {} /\ now \in Nat
    BY Days DEF VaultInit
<1> QED
    BY <1>1, <1>2, SMTT(30) DEF RefsInv, SpentTyped, RefsUsedOnce, DayInv, TodayCounted, Counter

-----------------------------------------------------------------------------
(* The registry *)

InstTyped ==
    /\ admin \in [Ids -> Accounts \cup {NoAccount}]
    /\ roles \in [Ids -> [Accounts -> Roles \cup {NoRole}]]
    /\ epoch \in [Ids -> Nat]
    /\ DOMAIN approvals = Ids /\ DOMAIN consent = Ids

\* An id in the queue is not registered, one without institution has no epoch
\* and no consent, and a free one has no records at all.
Owned(i) ==
    /\ HasInstitution(i) => i \notin queue
    /\ ~HasInstitution(i) => epoch[i] = 0 /\ consent[i] = {}
    /\ IdFree(i) =>
          /\ approvals[i] = {} /\ tiers[i] = {}
          /\ \A a \in Accounts : roles[i][a] = NoRole

\* No approval is dated after the epoch, and behind each one of today's epoch
\* is a consent given since the admin set last changed.
Fresh(i) ==
    HasInstitution(i) =>
       \A e \in approvals[i] :
          /\ e[3] \in Nat /\ e[3] <= epoch[i]
          /\ e[3] = epoch[i] => \E c \in consent[i] : c[1] = e[1] /\ c[2] = e[2]

ParamInv == iparams \in [Ids -> InstParams \cup {NoInstParams}]

InstInv == InstTyped /\ \A i \in Ids : Owned(i) /\ Fresh(i)

\* What an action does not touch of an id keeps its part of the invariant.
LEMMA IdKept ==
    ASSUME NEW i \in Ids, Owned(i), Fresh(i),
           admin'[i] = admin[i], roles'[i] = roles[i], tiers'[i] = tiers[i],
           approvals'[i] = approvals[i], epoch'[i] = epoch[i], consent'[i] = consent[i],
           i \in queue' <=> i \in queue
    PROVE  Owned(i)' /\ Fresh(i)'
BY DEF Owned, Fresh, HasInstitution, IdFree

LEMMA InstFrame ==
    ASSUME InstInv, UNCHANGED <<admin, roles, approvals, tiers, epoch, queue, consent>>
    PROVE  InstInv'
<1>1. InstTyped'
    BY DEF InstInv, InstTyped
<1>2. ASSUME NEW i \in Ids PROVE Owned(i)' /\ Fresh(i)'
    BY IdKept DEF InstInv
<1> QED
    BY <1>1, <1>2 DEF InstInv

\* What a signature leaves in the stores: an executed content leaves nothing,
\* and a change of the admin set outdates every approval.
LEMMA SignatureFresh ==
    ASSUME InstTyped, NEW i \in Ids, HasInstitution(i), Fresh(i), NEW s \in Accounts, NEW ch,
           NEW changed \in BOOLEAN, Approve(i, s, ch), NewAdminSet(i, s, ch, changed),
           admin' = admin
    PROVE  Fresh(i)'
<1>1. /\ approvals'[i] \subseteq approvals[i] \cup {<<ch, s, epoch[i]>>}
      /\ Executes(i, s, ch) => \A e \in approvals'[i] : e \in approvals[i] /\ e[1] # ch
      /\ ~Executes(i, s, ch) => approvals'[i] = Signed(i, s, ch)
    BY DEF Approve, Signed, Cleared, InstTyped
<1>2. \A e \in approvals[i] :
          /\ e[3] \in Nat /\ e[3] <= epoch[i]
          /\ e[3] = epoch[i] => \E c \in consent[i] : c[1] = e[1] /\ c[2] = e[2]
    BY DEF Fresh
<1>3. epoch[i] \in Nat
    BY DEF InstTyped
<1>4. CASE changed
    <2>1. epoch'[i] = epoch[i] + 1
        BY <1>4 DEF NewAdminSet, InstTyped
    <2>2. \A e \in approvals'[i] : e[3] \in Nat /\ e[3] <= epoch[i]
        <3>1. ASSUME NEW e \in approvals'[i], e = <<ch, s, epoch[i]>>
              PROVE  e[3] \in Nat /\ e[3] <= epoch[i]
            <4>1. e[3] = epoch[i]
                BY <3>1, Triple
            <4> QED
                BY <1>3, <4>1, Current
        <3> QED
            BY <1>1, <1>2, <3>1
    <2>3. \A e \in approvals'[i] : e[3] <= epoch'[i] /\ e[3] # epoch'[i]
        BY <1>3, <2>1, <2>2, Later
    <2> QED
        BY <2>2, <2>3 DEF Fresh
<1>5. CASE ~changed
    <2>1. epoch'[i] = epoch[i] /\ consent'[i] = Consented(i, s, ch)
        BY <1>5 DEF NewAdminSet, InstTyped
    <2>2. CASE Executes(i, s, ch)
        <3>1. \A c \in consent[i] : c[1] # ch => c \in consent'[i]
            BY <2>1, <2>2 DEF Consented
        <3>2. \A e \in approvals'[i] : e \in approvals[i] /\ e[1] # ch
            BY <1>1, <2>2
        <3> QED
            BY <1>2, <2>1, <3>1, <3>2 DEF Fresh
    <2>3. CASE ~Executes(i, s, ch)
        <3>1. /\ \A c \in consent[i] : c[1] # ch \/ c[2] # s => c \in consent'[i]
              /\ <<ch, s, Cardinality(Admins(i))>> \in consent'[i]
            BY <2>1, <2>3 DEF Consented
        <3>2. \A e \in approvals'[i] : \/ e = <<ch, s, epoch[i]>>
                                       \/ e \in approvals[i] /\ (e[1] # ch \/ e[2] # s)
            <4>1. approvals'[i] = Signed(i, s, ch)
                BY <1>1, <2>3
            <4> QED
                BY <4>1 DEF Signed
        <3>3. \E c \in consent'[i] : c[1] = ch /\ c[2] = s
            <4>1. PICK c \in consent'[i] : c = <<ch, s, Cardinality(Admins(i))>>
                BY <3>1
            <4>2. c[1] = ch /\ c[2] = s
                BY <4>1, Triple
            <4> QED
                BY <4>2
        <3>4. ASSUME NEW e \in approvals'[i], e = <<ch, s, epoch[i]>>
              PROVE  e[1] = ch /\ e[2] = s /\ e[3] \in Nat /\ e[3] <= epoch[i]
            <4>1. e[1] = ch /\ e[2] = s /\ e[3] = epoch[i]
                BY <3>4, Triple
            <4> QED
                BY <1>3, <4>1, Current
        <3>5. ASSUME NEW e \in approvals[i], e[1] # ch \/ e[2] # s, e[3] = epoch[i]
              PROVE  \E c \in consent'[i] : c[1] = e[1] /\ c[2] = e[2]
            BY <1>2, <3>1, <3>5
        <3> QED
            BY <1>2, <2>1, <3>2, <3>3, <3>4, <3>5 DEF Fresh
    <2> QED
        BY <2>2, <2>3
<1> QED
    BY <1>4, <1>5

\* Every sensitive action, whatever its content and effect.
LEMMA SignatureStep ==
    ASSUME InstInv, NEW i \in Ids, NEW s \in Accounts, NEW ch,
           NEW changed \in BOOLEAN, Approve(i, s, ch), NewAdminSet(i, s, ch, changed),
           UNCHANGED <<admin, tiers, queue>>,
           roles' \in [Ids -> [Accounts -> Roles \cup {NoRole}]],
           \A j \in Ids \ {i} : roles'[j] = roles[j]
    PROVE  InstInv'
<1>1. HasInstitution(i) /\ HasInstitution(i)'
    BY DEF Approve, HasInstitution
<1>2. Owned(i)' /\ Fresh(i)'
    BY <1>1, SignatureFresh DEF InstInv, Owned, IdFree
<1>3. InstTyped'
    <2>1. epoch' \in [Ids -> Nat]
        BY SMTT(30) DEF InstInv, InstTyped, NewAdminSet
    <2>2. DOMAIN approvals' = Ids /\ DOMAIN consent' = Ids
        BY DEF InstInv, InstTyped, Approve, NewAdminSet
    <2> QED
        BY <2>1, <2>2 DEF InstInv, InstTyped
<1>4. ASSUME NEW j \in Ids, j # i PROVE Owned(j)' /\ Fresh(j)'
    <2>1. approvals'[j] = approvals[j] /\ epoch'[j] = epoch[j] /\ consent'[j] = consent[j]
        BY <1>4 DEF InstInv, InstTyped, Approve, NewAdminSet
    <2> QED
        BY <1>4, <2>1, IdKept DEF InstInv
<1> QED
    BY <1>2, <1>3, <1>4 DEF InstInv

\* GrantInstitutionRole, RevokeInstitutionRole, UpdateInstitutionParams,
\* UpdateInstitutionAppConfig and SetInstitutionDepositKey.
LEMMA SensitiveStep ==
    ASSUME InstInv, NEW i \in Ids, NEW s \in Accounts, Sensitive(i, s)
    PROVE  InstInv'
<1>0. roles \in [Ids -> [Accounts -> Roles \cup {NoRole}]]
    BY DEF InstInv, InstTyped
<1>1. CASE \/ \E e \in Grants : GrantInstitutionRole(i, s, e[1], e[2])
           \/ \E g \in {e[1] : e \in Grants} : RevokeInstitutionRole(i, s, g)
    <2>1. PICK g, r, ch, ok, changed :
             /\ g \in Accounts /\ r \in Roles \cup {NoRole} /\ changed \in BOOLEAN
             /\ Approve(i, s, ch) /\ NewAdminSet(i, s, ch, changed)
             /\ roles' = IF ok THEN [roles EXCEPT ![i][g] = r] ELSE roles
             /\ UNCHANGED <<admin, tiers, queue>>
        BY <1>1, InputBounds DEF GrantInstitutionRole, RevokeInstitutionRole, regVars
    <2>2. /\ roles' \in [Ids -> [Accounts -> Roles \cup {NoRole}]]
          /\ \A j \in Ids \ {i} : roles'[j] = roles[j]
        BY <1>0, <2>1
    <2> QED
        BY <2>1, <2>2, SignatureStep
<1>2. CASE \/ \E p \in InstParams : UpdateInstitutionParams(i, s, p)
           \/ \E v \in AppConfigs : UpdateInstitutionAppConfig(i, s, v)
           \/ \E k \in DepositKeys : SetInstitutionDepositKey(i, s, k)
    <2>1. PICK ch : /\ Approve(i, s, ch) /\ NewAdminSet(i, s, ch, FALSE)
                    /\ UNCHANGED <<admin, roles, tiers, queue>>
        BY <1>2 DEF UpdateInstitutionParams, UpdateInstitutionAppConfig, SetInstitutionDepositKey
    <2> QED
        BY <1>0, <2>1, SignatureStep
<1> QED
    BY <1>1, <1>2 DEF Sensitive

\* RegisterInstitution and FinalizeFxEntry: a free id gets an institution.
LEMMA RegistrationStep ==
    ASSUME InstInv, NEW i \in Ids, IdFree(i), NEW a \in Accounts, NEW t,
           WriteInstitution(i, a, t), UNCHANGED rbacVars
    PROVE  InstInv'
<1>1. /\ admin' = [admin EXCEPT ![i] = a]
      /\ UNCHANGED <<roles, approvals, tiers, epoch, queue, consent>>
    BY DEF WriteInstitution, rbacVars
<1>2. InstTyped'
    BY <1>1 DEF InstInv, InstTyped
<1>3. Owned(i)' /\ Fresh(i)'
    <2>1. HasInstitution(i)' /\ i \notin queue' /\ approvals'[i] = {}
        BY <1>1, GenesisFile DEF InstInv, InstTyped, Owned, IdFree, HasInstitution
    <2> QED
        BY <2>1 DEF Owned, Fresh, IdFree
<1>4. ASSUME NEW j \in Ids, j # i PROVE Owned(j)' /\ Fresh(j)'
    <2>1. admin'[j] = admin[j]
        BY <1>1, <1>4 DEF InstInv, InstTyped
    <2> QED
        BY <1>1, <2>1, IdKept DEF InstInv
<1> QED
    BY <1>2, <1>3, <1>4 DEF InstInv

\* RemoveInstitution queues what it leaves behind.
LEMMA RemovalStep ==
    ASSUME InstInv, NEW i \in Ids, RemoveInstitution(i)
    PROVE  InstInv'
<1>1. /\ admin' = [admin EXCEPT ![i] = NoAccount] /\ queue' = queue \cup {i}
      /\ epoch' = [epoch EXCEPT ![i] = 0] /\ consent' = [consent EXCEPT ![i] = {}]
      /\ UNCHANGED <<roles, approvals, tiers>>
    BY DEF RemoveInstitution, WriteInstitution
<1>2. InstTyped'
    BY <1>1 DEF InstInv, InstTyped
<1>3. Owned(i)' /\ Fresh(i)'
    <2>1. ~HasInstitution(i)' /\ i \in queue' /\ epoch'[i] = 0 /\ consent'[i] = {}
        BY <1>1 DEF InstInv, InstTyped, HasInstitution
    <2> QED
        BY <2>1 DEF Owned, Fresh, IdFree
<1>4. ASSUME NEW j \in Ids, j # i PROVE Owned(j)' /\ Fresh(j)'
    <2>1. /\ admin'[j] = admin[j] /\ epoch'[j] = epoch[j] /\ consent'[j] = consent[j]
          /\ j \in queue' <=> j \in queue
        BY <1>1, <1>4 DEF InstInv, InstTyped
    <2> QED
        BY <1>1, <2>1, IdKept DEF InstInv
<1> QED
    BY <1>2, <1>3, <1>4 DEF InstInv

\* Records only go: what a sweep and an export have in common.  An id leaves
\* the queue without any.
Shrunk ==
    /\ UNCHANGED <<admin, epoch, consent>> /\ queue' \subseteq queue
    /\ roles' \in [Ids -> [Accounts -> Roles \cup {NoRole}]] /\ DOMAIN approvals' = Ids
    /\ \A i \in Ids : /\ approvals'[i] \subseteq approvals[i] /\ tiers'[i] \subseteq tiers[i]
                      /\ \A a \in Accounts : roles'[i][a] \in {roles[i][a], NoRole}
    /\ \A i \in Ids \cap queue : i \notin queue' =>
          /\ approvals'[i] = {} /\ tiers'[i] = {}
          /\ \A a \in Accounts : roles'[i][a] = NoRole

LEMMA ShrunkStep ==
    ASSUME InstInv, Shrunk
    PROVE  InstInv'
<1>1. InstTyped'
    BY DEF InstInv, InstTyped, Shrunk
<1>2. ASSUME NEW i \in Ids PROVE Owned(i)' /\ Fresh(i)'
    <2>1. /\ admin'[i] = admin[i] /\ epoch'[i] = epoch[i] /\ consent'[i] = consent[i]
          /\ i \in queue' => i \in queue
          /\ approvals'[i] \subseteq approvals[i] /\ tiers'[i] \subseteq tiers[i]
          /\ \A a \in Accounts : roles'[i][a] \in {roles[i][a], NoRole}
        BY DEF Shrunk
    <2>2. Owned(i) /\ Fresh(i)
        BY DEF InstInv
    <2>3. IdFree(i)' => /\ approvals'[i] = {} /\ tiers'[i] = {}
                        /\ \A a \in Accounts : roles'[i][a] = NoRole
        <3>1. CASE i \in queue
            BY <3>1 DEF Shrunk, IdFree
        <3>2. CASE i \notin queue
            BY <2>1, <2>2, <3>2 DEF Owned, IdFree, HasInstitution
        <3> QED
            BY <3>1, <3>2
    <2>4. Owned(i)'
        BY <2>1, <2>2, <2>3 DEF Owned, HasInstitution
    <2> QED
        BY <2>1, <2>2, <2>4 DEF Fresh, HasInstitution
<1> QED
    BY <1>1, <1>2 DEF InstInv

\* What a sweep may leave of an institution's rows.
Leavings(i, o) ==
    /\ o.roles \in [Accounts -> Roles \cup {NoRole}]
    /\ o.approvals \subseteq approvals[i] /\ o.tiers \subseteq tiers[i]
    /\ \A a \in Accounts : o.roles[a] \in {roles[i][a], NoRole}
    /\ RangedEmpty(o) => /\ o.approvals = {} /\ o.tiers = {}
                         /\ \A a \in Accounts : o.roles[a] = NoRole

\* drainInstitutionRanged, within any budget.
LEMMA DrainedFacts ==
    ASSUME InstTyped, NEW i \in Ids, NEW o \in Drained(i)
    PROVE  Leavings(i, o)
<1>1. ASSUME NEW n, NEW S, NEW T \in Drop(n, S) PROVE T \subseteq S
    BY DEF Drop
<1> DEFINE n == IF i \in queue THEN BudgetAt[i] ELSE 0
           h == Cardinality(Holders(i))
<1>2. PICK held, appr, tier :
        /\ appr \in Drop(n - h, approvals[i]) /\ tier \in Drop(n - h - Cardinality(approvals[i]), tiers[i])
        /\ held \in Drop(n, Holders(i))
        /\ o = [roles |-> [a \in Accounts |-> IF a \in held THEN roles[i][a] ELSE NoRole],
                approvals |-> appr, tiers |-> tier]
    BY SMTT(30) DEF Drained
<1>3. /\ o.roles = [a \in Accounts |-> IF a \in held THEN roles[i][a] ELSE NoRole]
      /\ o.approvals = appr /\ o.tiers = tier
    BY <1>2
<1>4. o.approvals \subseteq approvals[i] /\ o.tiers \subseteq tiers[i]
    BY <1>1, <1>2, <1>3, SMTT(30)
<1>5. /\ o.roles \in [Accounts -> Roles \cup {NoRole}]
      /\ \A a \in Accounts : o.roles[a] \in {roles[i][a], NoRole}
    BY <1>3, SMTT(30) DEF InstTyped
<1>6. RangedEmpty(o) => \A a \in Accounts : o.roles[a] = NoRole
    BY <1>5 DEF RangedEmpty, Range
<1> QED
    BY <1>4, <1>5, <1>6 DEF RangedEmpty, Leavings

LEMMA SweepShrinks ==
    ASSUME InstTyped, SweepRemovals
    PROVE  Shrunk
<1>1. PICK out :
        /\ \A i \in Ids : out[i] \in Drained(i)
        /\ roles' = [i \in Ids |-> out[i].roles]
        /\ approvals' = [i \in Ids |-> out[i].approvals]
        /\ tiers' = [i \in Ids |-> out[i].tiers]
        /\ queue' = {i \in queue : BudgetAt[i] <= 0 \/ ~RangedEmpty(out[i])}
        /\ UNCHANGED <<admin, epoch, consent>>
    BY DEF SweepRemovals, regVars
<1>2. ASSUME NEW i \in Ids
      PROVE  /\ roles'[i] \in [Accounts -> Roles \cup {NoRole}]
             /\ approvals'[i] \subseteq approvals[i] /\ tiers'[i] \subseteq tiers[i]
             /\ \A a \in Accounts : roles'[i][a] \in {roles[i][a], NoRole}
             /\ RangedEmpty(out[i]) => /\ approvals'[i] = {} /\ tiers'[i] = {}
                                       /\ \A a \in Accounts : roles'[i][a] = NoRole
    <2>1. roles'[i] = out[i].roles /\ approvals'[i] = out[i].approvals /\ tiers'[i] = out[i].tiers
        BY <1>1
    <2>2. PICK o \in Drained(i) : o = out[i]
        BY <1>1
    <2>3. Leavings(i, o)
        BY DrainedFacts
    <2> QED
        BY <2>1, <2>2, <2>3 DEF Leavings
<1>3. roles' \in [Ids -> [Accounts -> Roles \cup {NoRole}]] /\ DOMAIN approvals' = Ids
    BY <1>1, <1>2
<1> QED
    BY <1>1, <1>2, <1>3 DEF Shrunk

LEMMA ExportShrinks ==
    ASSUME InstTyped, ExportImport
    PROVE  Shrunk
<1>1. /\ queue' = {}
      /\ roles' = [i \in Ids |-> IF i \in queue THEN [a \in Accounts |-> NoRole] ELSE roles[i]]
      /\ approvals' = [i \in Ids |-> IF i \in queue THEN {} ELSE approvals[i]]
      /\ tiers' = [i \in Ids |-> IF i \in queue THEN {} ELSE tiers[i]]
      /\ UNCHANGED <<admin, epoch, consent>>
    BY DEF ExportImport, regVars
<1>2. roles' \in [Ids -> [Accounts -> Roles \cup {NoRole}]] /\ DOMAIN approvals' = Ids
    BY <1>1 DEF InstTyped
<1> QED
    BY <1>1, <1>2 DEF Shrunk

\* trySensitive of what is no change of a role, such as a large mint.
Signs(i, s, ch) ==
    /\ Approve(i, s, ch) /\ NewAdminSet(i, s, ch, FALSE)
    /\ UNCHANGED <<admin, roles, tiers, queue>>

\* Whatever the module does to the records of its registry.
RegistryStep ==
    \/ \E i \in Ids, s \in Accounts : Sensitive(i, s)
    \/ \E i \in Ids, s \in Accounts : \E ch : Signs(i, s, ch)
    \/ \E i \in Ids, a \in Accounts, t \in {"FINANCIAL", "FX"} :
          IdFree(i) /\ WriteInstitution(i, a, t) /\ UNCHANGED rbacVars
    \/ \E i \in Ids : RemoveInstitution(i)
    \/ Shrunk
    \/ UNCHANGED <<admin, roles, approvals, tiers, epoch, queue, consent>>

LEMMA RegistryStepInv ==
    ASSUME InstInv, RegistryStep
    PROVE  InstInv'
<1>1. ASSUME NEW i \in Ids, NEW s \in Accounts, NEW ch, Signs(i, s, ch)
      PROVE  InstInv'
    <2>1. /\ Approve(i, s, ch) /\ NewAdminSet(i, s, ch, FALSE)
          /\ UNCHANGED <<admin, roles, tiers, queue>>
        BY <1>1 DEF Signs
    <2>2. roles' \in [Ids -> [Accounts -> Roles \cup {NoRole}]]
        BY <2>1 DEF InstInv, InstTyped
    <2> QED
        BY <2>1, <2>2, SignatureStep
<1> QED
    BY <1>1, SensitiveStep, RegistrationStep, RemovalStep, ShrunkStep, InstFrame DEF RegistryStep

\* The registry without money makes no other steps, as long as a request
\* names an account.
FxRequests == [status : {"REQUESTED", "GUARANTEED"}, applicant : Accounts, guarantor : Ids]
FxInv == fx \in [Ids -> FxRequests \cup {NoRequest}]

LEMMA InstNextSteps ==
    ASSUME InstInv, ParamInv, FxInv, [InstNext]_instVars
    PROVE  RegistryStep /\ ParamInv' /\ FxInv'
<1>1. ASSUME NEW i \in Ids, NEW s \in Accounts, Sensitive(i, s)
      PROVE  RegistryStep /\ ParamInv' /\ UNCHANGED fxVars
    <2>1. UNCHANGED fxVars /\ iparams' \in {iparams} \cup {[iparams EXCEPT ![i] = p] : p \in InstParams}
        BY <1>1
           DEF Sensitive, GrantInstitutionRole, RevokeInstitutionRole, UpdateInstitutionParams,
                    UpdateInstitutionAppConfig, SetInstitutionDepositKey, regVars
    <2> QED
        BY <1>1, <2>1 DEF RegistryStep, ParamInv
<1>2. ASSUME NEW i \in Ids, NEW a, NEW t, WriteInstitution(i, a, t)
      PROVE  ParamInv'
    BY <1>2 DEF WriteInstitution, ParamInv
<1>3. ASSUME NEW i \in Ids, NEW e \in Registrants, RegisterInstitution(i, e[1], e[2])
      PROVE  RegistryStep /\ ParamInv' /\ UNCHANGED fxVars
    BY <1>2, <1>3, InputBounds DEF RegisterInstitution, RegistryStep
<1>4. ASSUME NEW i \in Ids, RemoveInstitution(i)
      PROVE  RegistryStep /\ ParamInv' /\ UNCHANGED fxVars
    BY <1>2, <1>4 DEF RemoveInstitution, RegistryStep
<1>5. ASSUME ExportImport \/ SweepRemovals
      PROVE  RegistryStep /\ ParamInv' /\ UNCHANGED fxVars
    <2>1. UNCHANGED <<iparams, fxVars>>
        BY <1>5 DEF ExportImport, SweepRemovals, regVars
    <2> QED
        BY <1>5, <2>1, ExportShrinks, SweepShrinks DEF RegistryStep, InstInv, ParamInv
<1>6. ASSUME \/ UNCHANGED instVars
             \/ \E b \in BootstrapChoices : SetBootstrap(b)
             \/ \E i \in Freezable, b \in BOOLEAN : FreezeInstitution(i, b)
      PROVE  RegistryStep /\ ParamInv' /\ fx' = fx
    <2>1. /\ UNCHANGED <<admin, roles, approvals, tiers, epoch, queue, consent>>
          /\ UNCHANGED <<iparams, fx>>
        BY <1>6 DEF SetBootstrap, FreezeInstitution, instVars, regVars, rbacVars, fxVars
    <2> QED
        BY <2>1 DEF RegistryStep, ParamInv
<1>7. ASSUME NEW i \in Ids, Onboarding(i)
      PROVE  RegistryStep /\ ParamInv' /\ FxInv'
    <2>1. ASSUME NEW a \in Applicants, NEW g \in Ids, RequestFxEntry(i, a, g)
          PROVE  FxInv' /\ UNCHANGED <<regVars, rbacVars>>
        BY <2>1, InputBounds DEF RequestFxEntry, FxInv, FxRequests
    <2>2. ASSUME NEW s \in Accounts, NEW b \in BOOLEAN, GuaranteeFxEntry(i, s, b)
          PROVE  FxInv' /\ UNCHANGED <<regVars, rbacVars>>
        <3>1. fx[i] \in FxRequests
            BY <2>2, SMTT(30) DEF GuaranteeFxEntry, FxInv, NoRequest
        <3>2. [fx[i] EXCEPT !.status = "GUARANTEED"] \in FxRequests
            BY <3>1 DEF FxRequests
        <3> QED
            BY <2>2, <3>2 DEF GuaranteeFxEntry, FxInv
    <2>3. ASSUME NEW c \in {"governance", "operator"}, FinalizeFxEntry(i, c)
          PROVE  RegistryStep /\ ParamInv' /\ FxInv'
        <3>1. fx[i].applicant \in Accounts
            <4>1. fx[i] \in FxRequests
                BY <2>3, SMTT(30) DEF FinalizeFxEntry, FxInv, NoRequest
            <4> QED
                BY <4>1 DEF FxRequests
        <3>2. WriteInstitution(i, fx[i].applicant, "FX") /\ IdFree(i) /\ UNCHANGED rbacVars
            BY <2>3 DEF FinalizeFxEntry
        <3>3. FxInv'
            BY <2>3 DEF FinalizeFxEntry, FxInv
        <3> QED
            BY <1>2, <3>1, <3>2, <3>3 DEF RegistryStep
    <2>4. UNCHANGED <<regVars, rbacVars>> => RegistryStep /\ ParamInv'
        BY DEF regVars, rbacVars, RegistryStep, ParamInv
    <2> QED
        BY <1>7, <2>1, <2>2, <2>3, <2>4 DEF Onboarding
<1>8. fx' = fx => FxInv'
    BY DEF FxInv
<1> QED
    BY <1>1, <1>3, <1>4, <1>5, <1>6, <1>7, <1>8 DEF InstNext, fxVars

\* InitGenesis.
LEMMA InstInitInv ==
    ASSUME InstInit
    PROVE  InstInv /\ ParamInv /\ FxInv
<1>1. InstTyped
    BY GenesisFile DEF InstInit, InstTyped
<1>2. ASSUME NEW i \in Ids PROVE Owned(i) /\ Fresh(i)
    BY GenesisFile DEF InstInit, Owned, Fresh, HasInstitution, IdFree
<1> QED
    BY <1>1, <1>2 DEF InstInit, InstInv, ParamInv, FxInv

LEMMA VaultRegistryStep ==
    ASSUME InstInv, ParamInv, [VaultNext]_vaultVars
    PROVE  RegistryStep /\ ParamInv'
<1>0. UNCHANGED instVars => RegistryStep /\ ParamInv'
    BY DEF RegistryStep, ParamInv, instVars, regVars, rbacVars
<1>1. ASSUME NEW i \in Ids, NEW s \in Accounts, NEW m \in Mints, InstitutionMintLarge(i, s, m)
      PROVE  RegistryStep /\ ParamInv'
    <2>1. Signs(i, s, MintContent(m)) /\ iparams' = iparams
        BY <1>1 DEF InstitutionMintLarge, Signs, regVars
    <2> QED
        BY <2>1 DEF RegistryStep, ParamInv
<1>2. ASSUME \/ \E i \in Ids, s \in Accounts, m \in Mints : InstitutionMint(i, s, m)
             \/ \E i \in Ids, m \in Redeems, p \in Carves : InstitutionRedeem(i, m, p)
             \/ \E b \in Carves : Slash(b) \/ GovBurn(b)
             \/ \E a \in Accounts, d \in DIDs \cup {Unidentified} : SubjectChanges(a, d)
             \/ UNCHANGED vaultVars
      PROVE  UNCHANGED instVars
    BY <1>2 DEF InstitutionMint, InstitutionRedeem, Slash, GovBurn, SubjectChanges, vaultVars
<1>3. ASSUME \/ \E i \in Ids, s \in Accounts, r \in Reserves : PublishInstitutionAttestation(i, s, r)
             \/ \E p \in Params, e \in Brakes : UpdateParams(p, e)
             \/ \E e \in Brakes, b \in BOOLEAN : SetEmergencyRedemption(b, e)
             \/ \E i \in Freezable, b \in BOOLEAN : FreezeInstitution(i, b)
      PROVE  RegistryStep /\ ParamInv'
    <2>1. UNCHANGED <<admin, iparams, rbacVars>>
        BY <1>3 DEF PublishInstitutionAttestation, UpdateParams, SetEmergencyRedemption,
                    FreezeInstitution
    <2> QED
        BY <2>1 DEF RegistryStep, ParamInv, rbacVars
<1>4. ASSUME NEW i \in Ids, NEW s \in Accounts, Sensitive(i, s) PROVE RegistryStep /\ ParamInv'
    <2>1. iparams' \in {iparams} \cup {[iparams EXCEPT ![i] = p] : p \in InstParams}
        BY <1>4
           DEF Sensitive, GrantInstitutionRole, RevokeInstitutionRole, UpdateInstitutionParams,
                    UpdateInstitutionAppConfig, SetInstitutionDepositKey, regVars
    <2> QED
        BY <1>4, <2>1 DEF RegistryStep, ParamInv
<1>5. ASSUME NEW i \in Ids, NEW a, NEW t, WriteInstitution(i, a, t) PROVE ParamInv'
    BY <1>5 DEF WriteInstitution, ParamInv
<1>6. ASSUME NEW i \in Ids, NEW e \in Registrants, RegisterVault(i, e)
      PROVE  RegistryStep /\ ParamInv'
    BY <1>5, <1>6, InputBounds DEF RegisterVault, RegisterInstitution, RegistryStep
<1>7. ASSUME NEW i \in Ids, RemoveVault(i) PROVE RegistryStep /\ ParamInv'
    BY <1>5, <1>7 DEF RemoveVault, RemoveInstitution, RegistryStep
<1>8. ASSUME ExportImportVaults \/ BeginBlock PROVE RegistryStep /\ ParamInv'
    <2>1. (ExportImport \/ SweepRemovals) /\ iparams' = iparams
        BY <1>8 DEF ExportImportVaults, BeginBlock, ExportImport, SweepRemovals, regVars
    <2> QED
        BY <2>1, ExportShrinks, SweepShrinks DEF RegistryStep, InstInv, ParamInv
<1> QED
    BY <1>0, <1>1, <1>2, <1>3, <1>4, <1>6, <1>7, <1>8 DEF VaultNext, Registry

-----------------------------------------------------------------------------
(* Minting and attesting *)

\* Approvals of mints wait only where a reserve was attested, and none of
\* today's epoch is that of an admin who attested it.
Separated(i) ==
    HasInstitution(i) =>
       \A e \in approvals[i] : (\E m \in Mints : e[1] = MintContent(m)) =>
          /\ attestor[i] # NoAccount
          /\ ~(e[3] = epoch[i] /\ e[2] = attestor[i] /\ e[2] \in Admins(i))

SepInv == attestor \in [Ids -> Accounts \cup {NoAccount}] /\ \A i \in Ids : Separated(i)

IsMint(ch) == \E m \in Mints : ch = MintContent(m)

\* An action that leaves no new approval of a mint and no new admin under the
\* same epoch keeps them apart.
LEMMA StaysSeparated ==
    ASSUME InstInv, NEW i \in Ids, Separated(i),
           HasInstitution(i)' => HasInstitution(i), attestor'[i] = attestor[i],
           \A e \in approvals'[i] : IsMint(e[1]) => e \in approvals[i],
           \/ epoch'[i] = epoch[i] + 1
           \/ epoch'[i] = epoch[i] /\ Admins(i)' \subseteq Admins(i)
    PROVE  Separated(i)'
<1> SUFFICES ASSUME HasInstitution(i)', NEW e \in approvals'[i], IsMint(e[1])
             PROVE  /\ attestor'[i] # NoAccount
                    /\ ~(e[3] = epoch'[i] /\ e[2] = attestor'[i] /\ e[2] \in Admins(i)')
    BY DEF Separated, IsMint
<1>1. e \in approvals[i] /\ HasInstitution(i)
    OBVIOUS
<1>2. attestor[i] # NoAccount /\ ~(e[3] = epoch[i] /\ e[2] = attestor[i] /\ e[2] \in Admins(i))
    BY <1>1 DEF Separated, IsMint
<1>3. e[3] \in Nat /\ e[3] <= epoch[i] /\ epoch[i] \in Nat
    BY <1>1 DEF InstInv, InstTyped, Fresh
<1>4. epoch'[i] = epoch[i] + 1 => e[3] # epoch'[i]
    BY <1>3, Later
<1> QED
    BY <1>2, <1>4

\* Where nothing of an id changes but what no approval depends on.
LEMMA SepKept ==
    ASSUME InstInv, NEW i \in Ids, Separated(i), admin'[i] = admin[i], roles'[i] = roles[i],
           approvals'[i] = approvals[i], epoch'[i] = epoch[i], attestor'[i] = attestor[i]
    PROVE  Separated(i)'
BY DEF Separated, HasInstitution, Admins, EffectiveRole

\* The sensitive actions: they sign no mint, and who becomes ADMIN does so
\* under a new epoch.
LEMMA SensitiveSeparated ==
    ASSUME InstInv, NEW i \in Ids, Separated(i), NEW j \in Ids, NEW s \in Accounts,
           Sensitive(j, s), attestor' = attestor
    PROVE  Separated(i)'
<1>0. /\ roles \in [Ids -> [Accounts -> Roles \cup {NoRole}]] /\ epoch \in [Ids -> Nat]
      /\ DOMAIN approvals = Ids
    BY DEF InstInv, InstTyped
<1>1. ASSUME NEW ch, ~IsMint(ch), Approve(j, s, ch)
      PROVE  \A e \in approvals'[i] : IsMint(e[1]) => e \in approvals[i]
    <2>1. \A e \in approvals'[i] : e \in approvals[i] \/ e = <<ch, s, epoch[j]>>
        BY <1>0, <1>1 DEF Approve, Signed, Cleared
    <2>2. ASSUME NEW e \in approvals'[i], e = <<ch, s, epoch[j]>> PROVE ~IsMint(e[1])
        <3>1. e[1] = ch
            BY <2>2, Triple
        <3> QED
            BY <1>1, <3>1
    <2> QED
        BY <2>1, <2>2
<1>2. ASSUME NEW kind, kind # "mint", NEW v, NEW w PROVE ~IsMint(<<kind, v, w>>)
    BY <1>2 DEF IsMint, MintContent
<1>3. ASSUME NEW ch, ~IsMint(ch), Approve(j, s, ch), NewAdminSet(j, s, ch, FALSE),
             UNCHANGED <<admin, roles>>
      PROVE  Separated(i)'
    <2>1. epoch'[i] = epoch[i] /\ Admins(i)' = Admins(i)
        BY <1>0, <1>3 DEF NewAdminSet, Admins, EffectiveRole
    <2> QED
        BY <1>1, <1>3, <2>1, StaysSeparated DEF HasInstitution
<1>4. ASSUME NEW e \in Grants, GrantInstitutionRole(j, s, e[1], e[2]) PROVE Separated(i)'
    <2>1. PICK ch, ok :
             /\ ch = <<"grant", e[1], e[2]>> /\ Approve(j, s, ch)
             /\ roles' = IF ok THEN [roles EXCEPT ![j][e[1]] = e[2]] ELSE roles
             /\ NewAdminSet(j, s, ch, ok /\ e[2] = "ADMIN") /\ admin' = admin
        BY <1>4 DEF GrantInstitutionRole, regVars
    <2>2. ~IsMint(ch)
        BY <1>2, <2>1
    <2>3. epoch'[j] = IF ok /\ e[2] = "ADMIN" THEN epoch[j] + 1 ELSE epoch[j]
        BY <1>0, <2>1 DEF NewAdminSet
    <2>4. i # j => epoch'[i] = epoch[i] /\ roles'[i] = roles[i]
        BY <1>0, <2>1 DEF NewAdminSet
    <2>5. e[1] \in Accounts /\ (~(ok /\ e[2] = "ADMIN") => Admins(i)' \subseteq Admins(i))
        BY <1>0, <2>1, InputBounds DEF Admins, EffectiveRole
    <2>6. \/ epoch'[i] = epoch[i] + 1
          \/ epoch'[i] = epoch[i] /\ Admins(i)' \subseteq Admins(i)
        <3>1. i # j => Admins(i)' = Admins(i)
            BY <2>1, <2>4 DEF Admins, EffectiveRole
        <3> QED
            BY <2>3, <2>4, <2>5, <3>1
    <2> QED
        BY <1>1, <2>1, <2>2, <2>6, StaysSeparated DEF HasInstitution
<1>5. ASSUME NEW g \in {e[1] : e \in Grants}, RevokeInstitutionRole(j, s, g) PROVE Separated(i)'
    <2>1. PICK ch, ok :
             /\ ch = <<"revoke", g, NoRole>> /\ Approve(j, s, ch)
             /\ roles' = IF ok THEN [roles EXCEPT ![j][g] = NoRole] ELSE roles
             /\ NewAdminSet(j, s, ch, ok /\ roles[j][g] = "ADMIN") /\ admin' = admin
        BY <1>5 DEF RevokeInstitutionRole, regVars
    <2>2. ~IsMint(ch)
        BY <1>2, <2>1
    <2>3. epoch'[i] \in {epoch[i], epoch[i] + 1} /\ Admins(i)' \subseteq Admins(i)
        BY <1>0, <2>1 DEF NewAdminSet, Admins, EffectiveRole, NoRole
    <2> QED
        BY <1>1, <2>1, <2>2, <2>3, StaysSeparated DEF HasInstitution
<1>6. ASSUME \/ \E p \in InstParams : UpdateInstitutionParams(j, s, p)
             \/ \E v \in AppConfigs : UpdateInstitutionAppConfig(j, s, v)
             \/ \E k \in DepositKeys : SetInstitutionDepositKey(j, s, k)
      PROVE  Separated(i)'
    <2>1. ASSUME NEW p \in InstParams, UpdateInstitutionParams(j, s, p) PROVE Separated(i)'
        <3>1. ~IsMint(<<"params", p, NoRole>>)
            BY <1>2
        <3> QED
            BY <1>3, <2>1, <3>1 DEF UpdateInstitutionParams
    <2>2. ASSUME NEW v \in AppConfigs, UpdateInstitutionAppConfig(j, s, v) PROVE Separated(i)'
        <3>1. ~IsMint(<<"appconfig", v, NoRole>>)
            BY <1>2
        <3> QED
            BY <1>3, <2>2, <3>1 DEF UpdateInstitutionAppConfig
    <2>3. ASSUME NEW k \in DepositKeys, SetInstitutionDepositKey(j, s, k) PROVE Separated(i)'
        <3>1. ~IsMint(<<"depositkey", k, NoRole>>)
            BY <1>2
        <3> QED
            BY <1>3, <2>3, <3>1 DEF SetInstitutionDepositKey
    <2> QED
        BY <1>6, <2>1, <2>2, <2>3
<1> QED
    BY <1>4, <1>5, <1>6 DEF Sensitive

\* requireMintSeparation: whoever signs is not the attestor of the moment.
LEMMA MintSeparated ==
    ASSUME InstInv, NEW i \in Ids, Separated(i), NEW j \in Ids, NEW s \in Accounts, NEW m \in Mints,
           InstitutionMintLarge(j, s, m)
    PROVE  Separated(i)'
<1>0. epoch \in [Ids -> Nat] /\ DOMAIN approvals = Ids
    BY DEF InstInv, InstTyped
<1>1. PICK ch : /\ ch = MintContent(m) /\ Approve(j, s, ch) /\ NewAdminSet(j, s, ch, FALSE)
                /\ UNCHANGED <<admin, roles, attestor>>
                /\ attestor[j] # NoAccount /\ attestor[j] # s
    BY DEF InstitutionMintLarge, MayMint, MintSeparation, regVars
<1>2. epoch'[i] = epoch[i] /\ Admins(i)' = Admins(i) /\ (HasInstitution(i)' <=> HasInstitution(i))
    BY <1>0, <1>1 DEF NewAdminSet, Admins, EffectiveRole, HasInstitution
<1>3. /\ i # j => approvals'[i] = approvals[i]
      /\ i = j => \A e \in approvals'[i] : e \in approvals[i] \/ e = <<ch, s, epoch[j]>>
    BY <1>0, <1>1 DEF Approve, Signed, Cleared
<1>4. ASSUME NEW e, e = <<ch, s, epoch[j]>> PROVE e[2] # attestor[j]
    <2>1. e[2] = s
        BY <1>4, Triple
    <2> QED
        BY <1>1, <2>1
<1> QED
    BY <1>1, <1>2, <1>3, <1>4 DEF Separated

\* PublishInstitutionAttestation: the attestor is of COMPLIANCE, so no admin.
LEMMA AttestSeparated ==
    ASSUME SepInv, NEW j \in Ids, NEW s \in Accounts, NEW r \in Reserves,
           PublishInstitutionAttestation(j, s, r)
    PROVE  SepInv'
<1>1. /\ attestor' = [attestor EXCEPT ![j] = s] /\ EffectiveRole(j, s) = "COMPLIANCE"
      /\ UNCHANGED <<admin, roles, approvals, epoch>>
    BY DEF PublishInstitutionAttestation, rbacVars
<1>2. ASSUME NEW i \in Ids PROVE Separated(i)'
    <2>1. /\ Admins(i)' = Admins(i) /\ (HasInstitution(i)' <=> HasInstitution(i)) /\ Separated(i)
        BY <1>1 DEF Admins, EffectiveRole, HasInstitution, SepInv
    <2>2. CASE i = j
        <3>1. attestor'[i] = s /\ s \notin Admins(i) /\ s # NoAccount
            BY <1>1, <2>2, GenesisFile DEF SepInv, Admins
        <3> QED
            BY <1>1, <2>1, <3>1 DEF Separated
    <2>3. CASE i # j
        <3>1. attestor'[i] = attestor[i]
            BY <1>1, <2>3 DEF SepInv
        <3> QED
            BY <1>1, <2>1, <3>1 DEF Separated
    <2> QED
        BY <2>2, <2>3
<1> QED
    BY <1>1, <1>2 DEF SepInv

\* A sweep and an export take approvals and roles away and add none.
LEMMA ShrunkSeparated ==
    ASSUME InstInv, NEW i \in Ids, Separated(i), Shrunk,
           HasInstitution(i) => attestor'[i] = attestor[i] \/ attestor[i] = NoAccount
    PROVE  Separated(i)'
<1> SUFFICES ASSUME HasInstitution(i)', NEW e \in approvals'[i], IsMint(e[1])
             PROVE  /\ attestor'[i] # NoAccount
                    /\ ~(e[3] = epoch'[i] /\ e[2] = attestor'[i] /\ e[2] \in Admins(i)')
    BY DEF Separated, IsMint
<1>1. HasInstitution(i) /\ e \in approvals[i] /\ epoch'[i] = epoch[i]
    BY DEF Shrunk, HasInstitution
<1>2. attestor[i] # NoAccount /\ ~(e[3] = epoch[i] /\ e[2] = attestor[i] /\ e[2] \in Admins(i))
    BY <1>1 DEF Separated, IsMint
<1>3. Admins(i)' \subseteq Admins(i)
    BY DEF Shrunk, Admins, EffectiveRole, NoRole
<1> QED
    BY <1>1, <1>2, <1>3

LEMMA VaultSeparated ==
    ASSUME InstInv, SepInv, [VaultNext]_vaultVars
    PROVE  SepInv'
<1>0. attestor \in [Ids -> Accounts \cup {NoAccount}] /\ \A i \in Ids : Separated(i)
    BY DEF SepInv
<1>1. ASSUME UNCHANGED <<admin, roles, approvals, epoch, attestor>> PROVE SepInv'
    BY <1>0, <1>1, SepKept DEF SepInv
<1>2. ASSUME NEW j \in Ids, NEW s \in Accounts, NEW m \in Mints, InstitutionMintLarge(j, s, m)
      PROVE  SepInv'
    <2>1. attestor' = attestor
        BY <1>2 DEF InstitutionMintLarge
    <2> QED
        BY <1>0, <1>2, <2>1, MintSeparated DEF SepInv
<1>3. ASSUME Registry, UNCHANGED <<now, moneyVars, capVars, em, subject>> PROVE SepInv'
    <2>1. attestor' = attestor
        BY <1>3 DEF moneyVars
    <2>2. ASSUME NEW j \in Ids, NEW s \in Accounts, Sensitive(j, s) PROVE SepInv'
        BY <1>0, <2>1, <2>2, SensitiveSeparated DEF SepInv
    <2>3. ASSUME NEW j \in Freezable, NEW b \in BOOLEAN, FreezeInstitution(j, b) PROVE SepInv'
        BY <1>1, <2>1, <2>3 DEF FreezeInstitution, rbacVars
    <2> QED
        BY <1>3, <2>2, <2>3 DEF Registry
<1>4. ASSUME NEW j \in Ids, NEW e \in Registrants, RegisterVault(j, e) PROVE SepInv'
    <2>1. /\ IdFree(j) /\ admin' = [admin EXCEPT ![j] = e[1]]
          /\ UNCHANGED <<roles, approvals, epoch, attestor>>
        BY <1>4 DEF RegisterVault, RegisterInstitution, WriteInstitution, rbacVars
    <2>2. approvals'[j] = {}
        BY <2>1 DEF InstInv, Owned
    <2>3. ASSUME NEW i \in Ids PROVE Separated(i)'
        <3>1. i # j => admin'[i] = admin[i]
            BY <2>1 DEF InstInv, InstTyped
        <3>2. CASE i = j
            BY <2>2, <3>2 DEF Separated
        <3>3. CASE i # j
            BY <1>0, <2>1, <3>1, <3>3, SepKept
        <3> QED
            BY <3>2, <3>3
    <2> QED
        BY <1>0, <2>1, <2>3 DEF SepInv
<1>5. ASSUME NEW j \in Ids, RemoveVault(j) PROVE SepInv'
    <2>1. /\ admin' = [admin EXCEPT ![j] = NoAccount] /\ epoch' = [epoch EXCEPT ![j] = 0]
          /\ attestor' = [attestor EXCEPT ![j] = NoAccount]
          /\ UNCHANGED <<roles, approvals>>
        BY <1>5 DEF RemoveVault, RemoveInstitution, WriteInstitution
    <2>2. ASSUME NEW i \in Ids PROVE Separated(i)'
        <3>1. /\ i = j => admin'[i] = NoAccount
              /\ i # j => /\ admin'[i] = admin[i] /\ epoch'[i] = epoch[i]
                          /\ attestor'[i] = attestor[i]
            BY <1>0, <2>1 DEF InstInv, InstTyped
        <3>2. CASE i = j
            BY <3>1, <3>2 DEF Separated, HasInstitution
        <3>3. CASE i # j
            BY <1>0, <2>1, <3>1, <3>3, SepKept
        <3> QED
            BY <3>2, <3>3
    <2>3. attestor' \in [Ids -> Accounts \cup {NoAccount}]
        BY <1>0, <2>1
    <2> QED
        BY <2>2, <2>3 DEF SepInv
<1>6. ASSUME ExportImportVaults PROVE SepInv'
    <2>1. /\ attestor' = [i \in Ids |-> IF HasInstitution(i) /\ attestor[i] = NoAccount
                                        THEN admin[i] ELSE attestor[i]]
          /\ Shrunk
        BY <1>6, ExportShrinks DEF ExportImportVaults, InstInv
    <2>2. \A i \in Ids : HasInstitution(i) => attestor'[i] = attestor[i] \/ attestor[i] = NoAccount
        BY <2>1
    <2>3. attestor' \in [Ids -> Accounts \cup {NoAccount}]
        BY <1>0, <2>1 DEF InstInv, InstTyped
    <2> QED
        BY <1>0, <2>1, <2>2, <2>3, ShrunkSeparated DEF SepInv
<1>7. ASSUME BeginBlock PROVE SepInv'
    <2>1. attestor' = attestor /\ Shrunk
        BY <1>7, SweepShrinks DEF BeginBlock, moneyVars, InstInv
    <2> QED
        BY <1>0, <2>1, ShrunkSeparated DEF SepInv
<1>8. ASSUME \/ \E i \in Ids, s \in Accounts, m \in Mints : InstitutionMint(i, s, m)
             \/ \E i \in Ids, m \in Redeems, p \in Carves : InstitutionRedeem(i, m, p)
             \/ \E p \in Params, e \in Brakes : UpdateParams(p, e)
             \/ \E e \in Brakes, b \in BOOLEAN : SetEmergencyRedemption(b, e)
             \/ \E b \in Carves : Slash(b) \/ GovBurn(b)
             \/ \E a \in Accounts, d \in DIDs \cup {Unidentified} : SubjectChanges(a, d)
             \/ UNCHANGED vaultVars
      PROVE  UNCHANGED <<admin, roles, approvals, epoch, attestor>>
    <2>1. ASSUME NEW i \in Ids, NEW s \in Accounts, NEW m \in Mints, InstitutionMint(i, s, m)
          PROVE  UNCHANGED <<admin, roles, approvals, epoch, attestor>>
        BY <2>1 DEF InstitutionMint, instVars, regVars, rbacVars
    <2>2. ASSUME NEW i \in Ids, NEW m \in Redeems, NEW p \in Carves, InstitutionRedeem(i, m, p)
          PROVE  UNCHANGED <<admin, roles, approvals, epoch, attestor>>
        BY <2>2 DEF InstitutionRedeem, instVars, regVars, rbacVars
    <2>3. ASSUME NEW p \in Params, NEW e \in Brakes, UpdateParams(p, e)
          PROVE  UNCHANGED <<admin, roles, approvals, epoch, attestor>>
        BY <2>3 DEF UpdateParams, rbacVars, moneyVars
    <2>4. ASSUME NEW e \in Brakes, NEW b \in BOOLEAN, SetEmergencyRedemption(b, e)
          PROVE  UNCHANGED <<admin, roles, approvals, epoch, attestor>>
        BY <2>4 DEF SetEmergencyRedemption, instVars, regVars, rbacVars, moneyVars
    <2>5. ASSUME NEW b \in Carves, Slash(b) \/ GovBurn(b)
          PROVE  UNCHANGED <<admin, roles, approvals, epoch, attestor>>
        BY <2>5 DEF Slash, GovBurn, instVars, regVars, rbacVars
    <2>6. ASSUME NEW a \in Accounts, NEW d \in DIDs \cup {Unidentified}, SubjectChanges(a, d)
          PROVE  UNCHANGED <<admin, roles, approvals, epoch, attestor>>
        BY <2>6 DEF SubjectChanges, instVars, regVars, rbacVars, moneyVars
    <2>7. ASSUME UNCHANGED vaultVars
          PROVE  UNCHANGED <<admin, roles, approvals, epoch, attestor>>
        BY <2>7 DEF vaultVars, instVars, regVars, rbacVars, moneyVars
    <2> QED
        BY <1>8, <2>1, <2>2, <2>3, <2>4, <2>5, <2>6, <2>7
<1> QED
    BY <1>1, <1>2, <1>3, <1>4, <1>5, <1>6, <1>7, <1>8, AttestSeparated DEF VaultNext

=============================================================================
