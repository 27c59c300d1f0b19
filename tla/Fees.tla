-------------------------------- MODULE Fees --------------------------------
(***************************************************************************)
(* The fixed fee: FixedFeeDecorator of app/ante, the fee and split tables  *)
(* of x/coin, the daily micro-exemption counted per DID, its pruning, and  *)
(* the withdrawal of the company's revenue.  A transaction is charged by   *)
(* the ante handler; when a message then fails, only the messages are      *)
(* rolled back.  One that the ante handler refuses is no step.             *)
(***************************************************************************)
EXTENDS Integers, Sequences, FiniteSetsExt, Functions

CONSTANTS
    Accounts,
    NoAccount,
    Dids,          \* DIDs, numbers in the order of their store keys
    NoDid,
    Txs,           \* transactions that may be delivered
    ParamSets,     \* parameter values governance may set
    GenesisBal,    \* balances at genesis
    GenesisOwner,  \* DID -> controller at genesis
    GenesisGrants, \* <<granter, grantee>> -> fee allowance at genesis
    BpsDenominator,
    Retention,     \* MicroQuotaRetentionDays
    Budget,        \* MicroQuotaPruneBudget
    MaxDay,        \* bound on the day of the block time
    MaxOwed        \* bound on the fees charged

\* types.Params.Validate, the fee part.
ValidParams(p) ==
    /\ p.defaultFee > 0
    /\ p.threshold >= 0
    /\ \A t \in DOMAIN p.fees : p.fees[t] >= 0
    /\ p.extra >= 0
    /\ \A t \in DOMAIN p.split : p.split[t].validator + p.split[t].company <= BpsDenominator

ASSUME FeeBounds ==
    /\ Dids \subseteq Nat \ {0} /\ NoDid = 0
    /\ IsFiniteSet(Accounts) /\ NoAccount \notin Accounts
    /\ GenesisBal \in [Accounts -> Nat]
    /\ GenesisGrants \in [Accounts \X Accounts -> Nat]
    /\ BpsDenominator \in Nat \ {0}
    /\ Retention \in Nat \ {0} /\ Budget \in Nat \ {0}
    /\ MaxDay \in Nat /\ MaxOwed \in Nat

\* What the fields of a transaction and of the parameters can hold: amounts
\* and fees are Ints, quotas, counts and basis points unsigned.
Msgs == [type : STRING, from : Accounts, to : Accounts, amount : Nat, signers : Nat]
ASSUME FeeFields ==
    /\ \A tx \in Txs :
           /\ tx.payer \in Accounts /\ tx.granter \in Accounts \cup {NoAccount}
           /\ tx.msgs \in Seq(Msgs)
    /\ \A p \in ParamSets :
           /\ ValidParams(p)
           /\ p.quota \in Nat /\ p.freeSigners \in Nat
           /\ p.defaultFee \in Int /\ p.extra \in Int
           /\ p.payout \in Accounts \cup {NoAccount}
           /\ \A t \in DOMAIN p.fees : p.fees[t] \in Int
           /\ \A t \in DOMAIN p.split : p.split[t].validator \in Nat /\ p.split[t].company \in Nat

VARIABLES
    bal,         \* account -> balance (external, x/bank)
    collector,   \* balance of the fee collector (external, x/bank)
    revenue,     \* balance of phi_revenue (external, x/bank)
    grants,      \* <<granter, grantee>> -> allowance (external, x/feegrant)
    owner,       \* DID -> controller (external, x/identity)
    used,        \* <<day, did>> -> exemptions used, on the keys in the store
    day,         \* day of the block time
    params,
    owed,        \* history: fees of the transactions charged
    withdrawn,   \* history: revenue paid out
    exempted,    \* history: transactions exempted today, per DID
    quotaPeak    \* history: the largest quota in force today
bankVars == <<bal, collector, revenue, grants>>
history == <<owed, withdrawn, exempted, quotaPeak>>
vars == <<bankVars, owner, used, day, params, history>>

-----------------------------------------------------------------------------
(* The fee of a transaction *)

\* FeeFor and agreementSurcharge.
FeeForMsg(m) ==
    LET base == IF m.type \in DOMAIN params.fees THEN params.fees[m.type] ELSE params.defaultFee
        extraSigners == Max({m.signers - params.freeSigners, 0})
    IN  IF m.type = "agreement" THEN base + params.extra * extraSigners ELSE base

SplitFor(type) ==
    IF type \in DOMAIN params.split THEN params.split[type]
    ELSE [validator |-> BpsDenominator, company |-> 0]

\* Faulty CompanyShare: both cuts are rounded down.
CompanyShareFloors(entry, fee) ==
    [company |-> (fee * entry.company) \div BpsDenominator,
     validator |-> (fee * entry.validator) \div BpsDenominator]

\* CompanyShare: the validator's cut is the remainder.
CompanyShare(entry, fee) ==
    LET c == (fee * entry.company) \div BpsDenominator
    IN  [company |-> c, validator |-> fee - c]

\* ComputeFeeSplit: message by message.
ComputeFeeSplit(msgs) ==
    LET leg(i) == CompanyShare(SplitFor(msgs[i].type), FeeForMsg(msgs[i]))
    IN  [total |-> SumFunction([i \in DOMAIN msgs |-> FeeForMsg(msgs[i])]),
         company |-> SumFunction([i \in DOMAIN msgs |-> leg(i).company]),
         validator |-> SumFunction([i \in DOMAIN msgs |-> leg(i).validator])]
NoFee == [total |-> 0, company |-> 0, validator |-> 0]

\* SubjectDID: the first DID of the account, whatever its status.
SubjectDID(a) ==
    LET held == {d \in Dids : owner[d] = a} IN IF held = {} THEN NoDid ELSE Min(held)

MicroUsed(d) == IF <<day, d>> \in DOMAIN used THEN used[<<day, d>>] ELSE 0

\* IsMicroExempt: one small transfer from and to an identified human whose
\* payer has quota left today.
IsMicroExempt(tx) ==
    /\ params.quota > 0
    /\ Len(tx.msgs) = 1
    /\ tx.msgs[1].type = "transfer"
    /\ tx.msgs[1].amount < params.threshold
    /\ SubjectDID(tx.payer) # NoDid
    /\ SubjectDID(tx.msgs[1].to) # NoDid
    /\ MicroUsed(SubjectDID(tx.payer)) < params.quota

\* One more use of d today.
Counted(d) ==
    [k \in DOMAIN used \cup {<<day, d>>} |-> IF k = <<day, d>> THEN MicroUsed(d) + 1 ELSE used[k]]

\* Faulty ConsumeMicroExemption: the use is counted to the recipient.
ConsumeForRecipient(tx) == Counted(SubjectDID(tx.msgs[1].to))

\* ConsumeMicroExemption.
ConsumeMicroExemption(tx) == Counted(SubjectDID(tx.payer))

-----------------------------------------------------------------------------
(* Transactions *)

\* The feegrant path: who pays, and whether the allowance covers it.
UsesGrant(tx, fee) == tx.granter # NoAccount /\ fee > 0 /\ tx.granter # tx.payer
DeductFrom(tx, fee) == IF tx.granter # NoAccount /\ fee > 0 THEN tx.granter ELSE tx.payer

\* Faulty GrantCovers: the allowance is not looked at.
GrantNotAsked(tx, fee) == grants' = grants

\* UseGrantedFees (external): the allowance covers the fee and shrinks.
GrantCovers(tx, fee) ==
    IF UsesGrant(tx, fee)
    THEN /\ grants[<<tx.granter, tx.payer>>] >= fee
         /\ grants' = [grants EXCEPT ![<<tx.granter, tx.payer>>] = @ - fee]
    ELSE grants' = grants

\* One message on balances b, or b marked failed.  Only transfers move coin.
Failed == [a \in Accounts |-> -1]
Transfer(b, m) == [[b EXCEPT ![m.from] = @ - m.amount] EXCEPT ![m.to] = @ + m.amount]
Apply(b, m) ==
    IF b = Failed \/ m.type # "transfer" THEN b
    ELSE IF b[m.from] < m.amount THEN Failed
    ELSE Transfer(b, m)

\* The messages in order.
Applied(b, msgs) ==
    LET run[n \in 0..Len(msgs)] == IF n = 0 THEN b ELSE Apply(run[n - 1], msgs[n])
    IN  run[Len(msgs)]

\* FixedFeeDecorator.AnteHandle, then the messages, all or none.
DeliverTx(tx) ==
    LET exempt == IsMicroExempt(tx)
        split == IF exempt THEN NoFee ELSE ComputeFeeSplit(tx.msgs)
        from == DeductFrom(tx, split.total)
        paid == [bal EXCEPT ![from] = @ - split.validator - split.company]
        after == Applied(paid, tx.msgs)
    IN  /\ owed + split.total <= MaxOwed
        /\ GrantCovers(tx, split.total)
        /\ paid[from] >= 0
        /\ bal' = IF after = Failed THEN paid ELSE after
        /\ collector' = collector + split.validator
        /\ revenue' = revenue + split.company
        /\ used' = IF exempt THEN ConsumeMicroExemption(tx) ELSE used
        /\ owed' = owed + split.total
        /\ exempted' = [d \in Dids |->
               exempted[d] + IF exempt /\ d = SubjectDID(tx.payer) THEN 1 ELSE 0]
        /\ UNCHANGED <<owner, day, params, withdrawn, quotaPeak>>

\* WithdrawRevenue, by the governance authority.
WithdrawRevenue(x) ==
    /\ params.payout # NoAccount
    /\ revenue >= x
    /\ revenue' = revenue - x
    /\ bal' = [bal EXCEPT ![params.payout] = @ + x]
    /\ withdrawn' = withdrawn + x
    /\ UNCHANGED <<collector, grants, owner, used, day, params, owed, exempted, quotaPeak>>

UpdateParams(p) ==
    /\ ValidParams(p)
    /\ params' = p
    /\ quotaPeak' = Max({quotaPeak, p.quota})
    /\ UNCHANGED <<bankVars, owner, used, day, owed, withdrawn, exempted>>

\* x/identity: a registration or an executed recovery gives d to a.
MoveDid(d, a) ==
    /\ owner[d] # a
    /\ owner' = [owner EXCEPT ![d] = a]
    /\ UNCHANGED <<bankVars, used, day, params, history>>

-----------------------------------------------------------------------------
(* Blocks *)

KeyBefore(k, l) == k[1] < l[1] \/ (k[1] = l[1] /\ k[2] < l[2])

\* The keys PruneMicroQuota's iterator ranges over.
Stale(today) ==
    {k \in DOMAIN used : today - Retention > 0 /\ k[1] < today - Retention}

\* Faulty PruneMicroQuota: nothing is deleted when the budget is exceeded.
PruneAllOrNothing(today) ==
    LET gone == IF Cardinality(Stale(today)) > Budget THEN {} ELSE Stale(today)
    IN  [k \in DOMAIN used \ gone |-> used[k]]

\* PruneMicroQuota: the first Budget stale keys, in key order.
PruneMicroQuota(today) ==
    LET gone == {k \in Stale(today) :
                    Cardinality({l \in Stale(today) : KeyBefore(l, k)}) < Budget}
    IN  [k \in DOMAIN used \ gone |-> used[k]]

\* BeginBlock at the day of the new block time.
NewBlock(today) ==
    /\ day' = today
    /\ used' = PruneMicroQuota(today)
    /\ exempted' = IF today = day THEN exempted ELSE [d \in Dids |-> 0]
    /\ quotaPeak' = IF today = day THEN quotaPeak ELSE params.quota
    /\ UNCHANGED <<bankVars, owner, params, owed, withdrawn>>

Init ==
    /\ bal = GenesisBal /\ collector = 0 /\ revenue = 0
    /\ grants = GenesisGrants
    /\ owner = GenesisOwner
    /\ used = [k \in {} |-> 0]
    /\ day = 1
    /\ params \in ParamSets
    /\ owed = 0 /\ withdrawn = 0
    /\ exempted = [d \in Dids |-> 0]
    /\ quotaPeak = params.quota

Next ==
    \/ \E tx \in Txs : DeliverTx(tx)
    \/ \E x \in 1..MaxOwed : WithdrawRevenue(x)
    \/ \E p \in ParamSets : UpdateParams(p)
    \/ \E d \in Dids, a \in Accounts : MoveDid(d, a)
    \/ \E today \in {day, day + 1} \cap 1..MaxDay : NewBlock(today)

Spec == Init /\ [][Next]_vars

\* Blocks keep coming: consensus produces them whatever else happens.
FairSpec == Spec /\ WF_vars(\E today \in {day, day + 1} \cap 1..MaxDay : NewBlock(today))

-----------------------------------------------------------------------------
(* Properties *)

\* Every fee charged reaches the fee collector or phi_revenue to the last
\* uphi, and no coin appears or vanishes: the split of an indivisible fee, a
\* mixed transaction, a feegrant and a failed message included.
FeesFullyRouted ==
    /\ collector + revenue + withdrawn = owed
    /\ SumFunction(bal) + collector + revenue = SumFunction(GenesisBal)

\* One human, one daily quota: a DID is exempted at most as often a day as
\* the largest quota in force that day, whatever accounts it moves through,
\* whichever DIDs its accounts gain, and whatever pruning deletes.
QuotaPerHuman == \A d \in Dids : exempted[d] <= quotaPeak

\* An account that did not sign a transaction loses coin only to its fee, and
\* only within the allowance it granted the payer: the allowance shrinks by
\* the whole fee, which the coin lost cannot exceed, also when a message of
\* the same transaction pays the account.
UnsignedDebitGranted ==
    [][\A tx \in Txs : DeliverTx(tx) =>
        \A a \in Accounts \ ({tx.payer} \cup {tx.msgs[i].from : i \in DOMAIN tx.msgs}) :
            bal'[a] < bal[a] =>
                LET shrunk == grants[<<a, tx.payer>>] - grants'[<<a, tx.payer>>]
                IN  bal[a] - bal'[a] <= shrunk /\ shrunk = owed' - owed]_vars

\* The quota keys of past days are pruned: in the end, when no day follows,
\* none is left below the retention window, a budgeted block at a time.
StaleQuotaGoes == <>[](day = MaxDay => Stale(day) = {})
=============================================================================
