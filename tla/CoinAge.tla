------------------------------ MODULE CoinAge ------------------------------
(***************************************************************************)
(* The coin-age queues of x/coin: the lots a holder's coin was acquired    *)
(* in, oldest first, that set the penalty of an early redemption.  Coin is *)
(* credited by a mint, spent by a redemption and moved with its age by a   *)
(* transfer; a bank send and the fixed fee move coin and leave the queues  *)
(* alone, so a queue may track more or less than its holder has.           *)
(***************************************************************************)
EXTENDS Integers, FiniteSetsExt, SequencesExt

CONSTANTS
    Holders,
    Amounts,         \* amounts of a mint, a transfer or a redemption
    ParamSets,       \* parameter values governance may set
    Genesis,         \* balances at genesis, held in no lot
    YoungPenaltyBps,
    OldPenaltyBps,
    BpsDenominator,
    StartTime,       \* block time of genesis
    MaxTime,         \* bound on block time
    MaxSupply        \* bound on the coin in circulation and on the coin tracked

MinCoinAgeLots == 2
\* types.Params.Validate, the coin-age part (its penalty and protocol-fee
\* reserve bounds are constants here).
ValidParams(p) == p.threshold >= 0 /\ p.maxLots >= MinCoinAgeLots

ASSUME CoinBounds ==
    /\ Amounts \subseteq Nat \ {0} /\ Genesis \in [Holders -> Nat]
    /\ YoungPenaltyBps + OldPenaltyBps < BpsDenominator
    /\ \A p \in ParamSets : ValidParams(p) /\ p.threshold <= StartTime

VARIABLES
    lots,   \* holder -> its lots, in queue order
    bal,    \* holder -> balance (external, x/bank)
    now,    \* block time
    params  \* MaxCoinAgeLots and CoinAgeThresholdSeconds
vars == <<lots, bal, now, params>>

-----------------------------------------------------------------------------
(* types/coin_age.go: pure functions over a queue *)

Lot(amount, at) == [amount |-> amount, at |-> at]
TotalLots(q) == FoldLeft(LAMBDA s, l : s + l.amount, 0, q)
Tracked(ls) == SumFunction([h \in Holders |-> TotalLots(ls[h])])
IsOld(at) == now - at >= params.threshold
CeilDiv(a, b) == (a + b - 1) \div b

\* Faulty mergedAcquiredAt: the weighted time is rounded down.
MergedFloor(older, newer) ==
    older.at + (newer.amount * (newer.at - older.at)) \div (older.amount + newer.amount)

\* mergedAcquiredAt: the amount-weighted mean, rounded towards the newer.
mergedAcquiredAt(older, newer) ==
    IF newer.at <= older.at THEN older.at
    ELSE older.at + CeilDiv(newer.amount * (newer.at - older.at), older.amount + newer.amount)

Merge(older, newer) == Lot(older.amount + newer.amount, mergedAcquiredAt(older, newer))

\* BoundLots: the oldest lots are merged, two by two, down to the bound.
BoundLots(q, max) ==
    LET k == Len(q) - max + 1
    IN  IF Len(q) <= max THEN q
        ELSE <<FoldLeft(Merge, q[1], SubSeq(q, 2, k))>> \o SubSeq(q, k + 1, Len(q))

\* Faulty InsertLot: the lot goes to the young end.
InsertLotLast(q, lot, max) == BoundLots(Append(q, lot), max)

\* InsertLot: before the first younger lot, then bounded.
InsertLot(q, lot, max) ==
    LET younger == {i \in 1..Len(q) : lot.at < q[i].at}
    IN  BoundLots(InsertAt(q, Min(younger \cup {Len(q) + 1}), lot), max)

\* What a spend of x takes from the i-th lot.
Taken(q, x, i) == Min({q[i].amount, Max({x - TotalLots(SubSeq(q, 1, i - 1)), 0})})
NonEmpty(q) == SelectSeq(q, LAMBDA l : l.amount > 0)

\* SpendOldestFirst: lots from the front, the last one split, and whatever
\* the queue does not track at the old-tier boundary.
SpendOldestFirst(q, x) ==
    [consumed |-> NonEmpty([i \in 1..Len(q) |-> Lot(Taken(q, x, i), q[i].at)]
                           \o <<Lot(Max({x - TotalLots(q), 0}), now - params.threshold)>>),
     remaining |-> NonEmpty([i \in 1..Len(q) |-> Lot(q[i].amount - Taken(q, x, i), q[i].at)])]

\* PenaltyForLots: each lot at its own tier.
PenaltyForLots(q) ==
    FoldLeft(LAMBDA s, l :
                 s + (l.amount * (IF IsOld(l.at) THEN OldPenaltyBps ELSE YoungPenaltyBps))
                         \div BpsDenominator,
             0, q)

-----------------------------------------------------------------------------
(* Steps *)

\* AddCoins.
AddCoins(q, lot) == InsertLot(q, lot, params.maxLots)

\* A mint credits h with coin acquired now.
Mint(h, x) ==
    /\ SumFunction(bal) + x <= MaxSupply /\ Tracked(lots) + x <= MaxSupply
    /\ bal' = [bal EXCEPT ![h] = @ + x]
    /\ lots' = [lots EXCEPT ![h] = AddCoins(@, Lot(x, now))]
    /\ UNCHANGED <<now, params>>

\* EarlyRedeemPenalty, called by a redemption: h's oldest coin is spent.
Redeem(h, x) ==
    /\ bal[h] >= x
    /\ bal' = [bal EXCEPT ![h] = @ - x]
    /\ lots' = [lots EXCEPT ![h] = SpendOldestFirst(@, x).remaining]
    /\ UNCHANGED <<now, params>>

\* Transfer: the coin, then each consumed lot with its own age.
Transfer(from, to, x) ==
    LET spent == SpendOldestFirst(lots[from], x)
        mid == [lots EXCEPT ![from] = spent.remaining]
    IN  /\ bal[from] >= x
        /\ bal' = [[bal EXCEPT ![from] = @ - x] EXCEPT ![to] = @ + x]
        /\ lots' = [mid EXCEPT ![to] = FoldLeft(AddCoins, @, spent.consumed)]
        /\ Tracked(lots') <= MaxSupply
        /\ UNCHANGED <<now, params>>

\* x/bank moves coin and knows nothing of the queues.
BankSend(from, to, x) ==
    /\ from # to /\ bal[from] >= x
    /\ bal' = [bal EXCEPT ![from] = @ - x, ![to] = @ + x]
    /\ UNCHANGED <<lots, now, params>>

\* UpdateParams: the stored queues stay as they are.
UpdateParams(p) ==
    /\ ValidParams(p)
    /\ params' = p
    /\ UNCHANGED <<lots, bal, now>>

Tick ==
    /\ now < MaxTime
    /\ now' = now + 1
    /\ UNCHANGED <<lots, bal, params>>

Init ==
    /\ lots = [h \in Holders |-> <<>>]
    /\ bal = Genesis
    /\ now = StartTime
    /\ params \in ParamSets

Next ==
    \/ \E h \in Holders, x \in Amounts : Mint(h, x) \/ Redeem(h, x)
    \/ \E f, t \in Holders, x \in Amounts : Transfer(f, t, x) \/ BankSend(f, t, x)
    \/ \E p \in ParamSets : UpdateParams(p)
    \/ Tick

Spec == Init /\ [][Next]_vars

-----------------------------------------------------------------------------
(* Properties *)

Ordered(q) == \A i \in 1..Len(q) - 1 : q[i].at <= q[i + 1].at

\* The acquisition time of every tracked unit, in queue order.
Units(q) == FlattenSeq([i \in 1..Len(q) |-> [j \in 1..q[i].amount |-> q[i].at]])
SumSeq(s) == FoldLeft(LAMBDA a, b : a + b, 0, s)

\* A spend takes the oldest units the holder has, exactly as many as it asks
\* for, fills up with units of the old-tier boundary, leaves the others as they
\* were, and is charged each unit's own tier, short of it by less than one uphi
\* per lot: what the queue order, kept by InsertLot and BoundLots over all
\* transfers and merges, is for (SpendOldestFirst, PenaltyForLots).
SpendIsFifo ==
    \A h \in Holders, x \in 1..MaxSupply :
        LET units == SortSeq(Units(lots[h]), LAMBDA a, b : a < b)
            n == Min({x, Len(units)})
            taken == SubSeq(units, 1, n) \o [i \in 1..(x - n) |-> now - params.threshold]
            spent == SpendOldestFirst(lots[h], x)
            exact == SumSeq([i \in 1..x |->
                         IF IsOld(taken[i]) THEN OldPenaltyBps ELSE YoungPenaltyBps])
            charged == PenaltyForLots(spent.consumed) * BpsDenominator
        IN  /\ Units(spent.consumed) = taken
            /\ Units(spent.remaining) = SubSeq(units, n + 1, Len(units))
            /\ charged \in (exact - (BpsDenominator - 1) * Len(spent.consumed))..exact

AgeWeight(ls) == SumFunction([h \in Holders |-> SumSeq(Units(ls[h]))])

\* No step manufactures age: unless tracked coin is redeemed, the amounts
\* weighted by acquisition time fall by nothing, whatever is split, moved,
\* inserted and merged, and coin that enters the queues enters no older than
\* the old-tier boundary.
AgeNeverManufactured ==
    [][LET entered == Tracked(lots') - Tracked(lots)
       IN  entered >= 0 =>
               AgeWeight(lots') >= AgeWeight(lots) + entered * (now - params.threshold)]_vars

\* types.GenesisState.Validate, the coin-age part: what InitGenesis panics on.
ValidGenesis(ls, p) ==
    /\ ValidParams(p)
    /\ \A h \in Holders :
           /\ Len(ls[h]) <= p.maxLots
           /\ \A i \in 1..Len(ls[h]) : ls[h][i].at >= 0
           /\ Ordered(ls[h])

=============================================================================
