---------------------------- MODULE MessageProofs --------------------------
(***************************************************************************)
(* Proofs about what every message goes through, in two independent parts. *)
(* The fee (Fees), for any accounts, DIDs, transactions and parameters:    *)
(* it is routed to the last uphi, the daily exemption is one per human,    *)
(* and who did not sign pays only what they granted.  The decoder          *)
(* (Unmarshal), for every input, every table of fields and every width of  *)
(* the integers: it never reads outside its slice, and every step brings   *)
(* it nearer to its end.                                                   *)
(***************************************************************************)
EXTENDS Fees, Unmarshal, CountingProofs

\* Zenon by default, SMT where a step names it; the seconds each may take.
USE ZenonT(30)

-----------------------------------------------------------------------------
(* Sums and runs *)

\* A sum of sums, index by index.
LEMMA SumPlus ==
    ASSUME NEW S, IsFiniteSet(S), NEW f, NEW g, NEW h,
           \A x \in S : f[x] \in Int /\ g[x] \in Int /\ h[x] = f[x] + g[x]
    PROVE  SumFunctionOnSet(h, S) = SumFunctionOnSet(f, S) + SumFunctionOnSet(g, S)
<1> DEFINE P == {s \in SUBSET S :
                   SumFunctionOnSet(h, s) = SumFunctionOnSet(f, s) + SumFunctionOnSet(g, s)}
<1>1. ASSUME NEW s \in SUBSET S, \A x \in s : s \ {x} \in P PROVE s \in P
    <2>1. IsFiniteSet(s)
        BY FS_Subset
    <2>2. CASE s = {}
        BY SMTT(30), <2>2, SumEmpty
    <2>3. CASE s # {}
        <3>1. /\ Pick(s) \in s
              /\ SumFunctionOnSet(f, s) = f[Pick(s)] + SumFunctionOnSet(f, s \ {Pick(s)})
              /\ SumFunctionOnSet(g, s) = g[Pick(s)] + SumFunctionOnSet(g, s \ {Pick(s)})
              /\ SumFunctionOnSet(h, s) = h[Pick(s)] + SumFunctionOnSet(h, s \ {Pick(s)})
            BY <2>1, <2>3, SumPick
        <3>2. IsFiniteSet(s \ {Pick(s)})
            BY <2>1, FS_RemoveElement
        <3>3. /\ SumFunctionOnSet(f, s \ {Pick(s)}) \in Int
              /\ SumFunctionOnSet(g, s \ {Pick(s)}) \in Int
            BY <3>2, SumInt
        <3>4. /\ f[Pick(s)] \in Int /\ g[Pick(s)] \in Int
              /\ h[Pick(s)] = f[Pick(s)] + g[Pick(s)]
              /\ SumFunctionOnSet(h, s \ {Pick(s)})
                     = SumFunctionOnSet(f, s \ {Pick(s)}) + SumFunctionOnSet(g, s \ {Pick(s)})
            BY <1>1, <3>1
        <3> QED
            BY SMTT(30), <3>1, <3>3, <3>4
    <2> QED
        BY <2>2, <2>3
<1> HIDE DEF P
<1>2. \A s \in SUBSET S : s \in P
    BY <1>1, SetInduct
<1> QED
    BY <1>2 DEF P

\* The balances after each message exist, each from the one before.
LEMMA AppliedRuns ==
    ASSUME NEW b, NEW msgs \in Seq(Msgs)
    PROVE  \E run : /\ run = [n \in 0..Len(msgs) |->
                                  IF n = 0 THEN b ELSE Apply(run[n - 1], msgs[n])]
                    /\ Applied(b, msgs) = run[Len(msgs)]
<1> DEFINE Solves(g, k) == g = [n \in 0..k |-> IF n = 0 THEN b ELSE Apply(g[n - 1], msgs[n])]
           P == {k \in Nat : \E g : Solves(g, k)}
<1>1. 0 \in P
    <2> DEFINE g == [n \in 0..0 |-> b]
    <2>1. \A n \in 0..0 : n = 0
        BY SMTT(30)
    <2>2. Solves(g, 0)
        BY <2>1
    <2>3. 0 \in Nat
        BY SMTT(30)
    <2> HIDE DEF g
    <2> QED
        BY <2>2, <2>3
<1>2. ASSUME NEW k \in Nat, k \in P PROVE k + 1 \in P
    <2>1. PICK g : Solves(g, k)
        BY <1>2
    <2> DEFINE step(n) == IF n = 0 THEN b ELSE Apply(g[n - 1], msgs[n])
               h == [n \in 0..(k + 1) |-> step(n)]
    <2>2. ASSUME NEW n \in 0..(k + 1), n # 0 PROVE h[n - 1] = g[n - 1]
        <3>1. n - 1 \in 0..k /\ n - 1 \in 0..(k + 1)
            BY SMTT(30), <2>2
        <3>2. g[n - 1] = step(n - 1)
            BY <2>1, <3>1
        <3>3. h[n - 1] = step(n - 1)
            BY <3>1
        <3> QED
            BY <3>2, <3>3
    <2> HIDE DEF h
    <2>3. \A n \in 0..(k + 1) : step(n) = IF n = 0 THEN b ELSE Apply(h[n - 1], msgs[n])
        BY <2>2
    <2>4. Solves(h, k + 1)
        BY <2>3 DEF h
    <2>5. k + 1 \in Nat
        BY SMTT(30)
    <2> QED
        BY <2>4, <2>5
<1> HIDE DEF P
<1>3. Len(msgs) \in P
    <2>1. Len(msgs) \in Nat
        BY SMTT(30)
    <2> QED
        BY <1>1, <1>2, <2>1, NatInduct
<1>4. \E g : Solves(g, Len(msgs))
    BY <1>3 DEF P
<1> DEFINE run == CHOOSE g : Solves(g, Len(msgs))
<1>5. Solves(run, Len(msgs))
    BY <1>4
<1>6. Applied(b, msgs) = run[Len(msgs)]
    BY DEF Applied
<1> HIDE DEF run
<1> QED
    BY <1>5, <1>6

\* What every message keeps, the messages in order keep.
LEMMA AppliedKeeps ==
    ASSUME NEW b, NEW msgs \in Seq(Msgs), NEW P, b \in P,
           \A c \in P : \A i \in 1..Len(msgs) : Apply(c, msgs[i]) \in P
    PROVE  Applied(b, msgs) \in P
<1>1. PICK run : /\ run = [n \in 0..Len(msgs) |->
                              IF n = 0 THEN b ELSE Apply(run[n - 1], msgs[n])]
                 /\ Applied(b, msgs) = run[Len(msgs)]
    BY AppliedRuns
<1>2. Len(msgs) \in Nat
    BY SMTT(30)
<1> DEFINE Q == {k \in Nat : k <= Len(msgs) => run[k] \in P}
<1>3. 0 \in Q
    <2>1. 0 \in Nat /\ 0 \in 0..Len(msgs)
        BY SMTT(30), <1>2
    <2> QED
        BY <1>1, <2>1
<1>4. ASSUME NEW k \in Nat, k \in Q PROVE k + 1 \in Q
    <2>1. CASE k + 1 <= Len(msgs)
        <3>1. k <= Len(msgs) /\ k + 1 \in 0..Len(msgs) /\ k + 1 # 0 /\ (k + 1) - 1 = k
              /\ k + 1 \in 1..Len(msgs)
            BY SMTT(30), <1>2, <2>1
        <3>2. run[k + 1] = Apply(run[k], msgs[k + 1])
            BY <1>1, <3>1
        <3>3. k + 1 \in Nat
            BY SMTT(30)
        <3> QED
            BY <1>4, <3>1, <3>2, <3>3
    <2>2. k + 1 \in Nat
        BY SMTT(30)
    <2> QED
        BY <2>1, <2>2
<1>5. Len(msgs) <= Len(msgs)
    BY SMTT(30), <1>2
<1> HIDE DEF Q
<1>6. Len(msgs) \in Q
    BY <1>2, <1>3, <1>4, NatInduct
<1> QED
    BY <1>1, <1>5, <1>6 DEF Q

-----------------------------------------------------------------------------
(* The fee of a transaction *)

\* The larger of two numbers.
LEMMA MaxOfTwo ==
    ASSUME NEW a \in Int, NEW b \in Int
    PROVE  Max({a, b}) \in {a, b} /\ Max({a, b}) >= a /\ Max({a, b}) >= b
<1>1. \E x \in {a, b} : \A y \in {a, b} : x >= y
    BY SMTT(30)
<1>2. Max({a, b}) \in {a, b} /\ \A y \in {a, b} : Max({a, b}) >= y
    BY <1>1 DEF Max
<1> QED
    BY <1>2

\* Arithmetic, for the steps that need nothing else of it.
LEMMA IntFacts ==
    ASSUME NEW a \in Int, NEW b \in Int
    PROVE  a * b \in Int /\ a + b \in Int /\ a - b \in Int /\ b + (a - b) = a
    BY SMTT(30)
LEMMA DivInt == ASSUME NEW a \in Int, NEW b \in Nat \ {0} PROVE a \div b \in Int
    BY SMTT(30)
LEMMA NatIsInt == 0 \in Int /\ 0 \in Nat /\ \A n \in Nat : n \in Int
    BY SMTT(30)

\* A message costs an integer,
LEMMA FeeIsInt ==
    ASSUME params \in ParamSets, NEW m \in Msgs
    PROVE  FeeForMsg(m) \in Int
<1> DEFINE base == IF m.type \in DOMAIN params.fees THEN params.fees[m.type] ELSE params.defaultFee
           extraSigners == Max({m.signers - params.freeSigners, 0})
<1>1. base \in Int /\ params.extra \in Int /\ params.freeSigners \in Int
    BY FeeFields, NatIsInt
<1>2. m.signers \in Int
    BY NatIsInt DEF Msgs
<1>3. m.signers - params.freeSigners \in Int
    BY <1>1, <1>2, IntFacts
<1>4. extraSigners \in Int
    BY <1>3, MaxOfTwo, NatIsInt
<1> HIDE DEF base, extraSigners
<1>5. base + params.extra * extraSigners \in Int
    BY <1>1, <1>4, IntFacts
<1> QED
    BY <1>1, <1>5 DEF FeeForMsg, base, extraSigners

\* and its two shares add up to it.
LEMMA SharesAdd ==
    ASSUME params \in ParamSets, NEW m \in Msgs,
           NEW s, s = CompanyShare(SplitFor(m.type), FeeForMsg(m))
    PROVE  s.company \in Int /\ s.validator \in Int /\ FeeForMsg(m) = s.company + s.validator
<1> DEFINE fee == FeeForMsg(m)
           entry == SplitFor(m.type)
           c == (fee * entry.company) \div BpsDenominator
<1>1. fee \in Int
    BY FeeIsInt
<1>2. entry.company \in Int
    <2>1. CASE m.type \in DOMAIN params.split
        BY <2>1, FeeFields, NatIsInt DEF SplitFor
    <2>2. CASE m.type \notin DOMAIN params.split
        BY <2>2, NatIsInt DEF SplitFor
    <2> QED
        BY <2>1, <2>2
<1>3. c \in Int
    BY <1>1, <1>2, IntFacts, DivInt, FeeBounds
<1>4. s.company = c /\ s.validator = fee - c
    BY DEF CompanyShare
<1> HIDE DEF fee, entry, c
<1>5. fee - c \in Int /\ c + (fee - c) = fee
    BY <1>1, <1>3, IntFacts
<1> QED
    BY <1>3, <1>4, <1>5 DEF fee

\* The shares of a transaction add up to its fee.
LEMMA SplitAdds ==
    ASSUME params \in ParamSets, NEW msgs \in Seq(Msgs), NEW s, s = ComputeFeeSplit(msgs)
    PROVE  /\ s.total \in Int /\ s.company \in Int /\ s.validator \in Int
           /\ s.total = s.company + s.validator
<1> DEFINE D == 1..Len(msgs)
           leg(i) == CompanyShare(SplitFor(msgs[i].type), FeeForMsg(msgs[i]))
           f == [i \in D |-> leg(i).company]
           g == [i \in D |-> leg(i).validator]
           h == [i \in D |-> FeeForMsg(msgs[i])]
<1>1. DOMAIN msgs = D /\ Len(msgs) \in Int /\ 1 \in Int /\ \A i \in D : msgs[i] \in Msgs
    BY SMTT(30)
<1>2. IsFiniteSet(D)
    BY <1>1, FS_Interval
<1>3. \A i \in D : /\ leg(i).company \in Int /\ leg(i).validator \in Int
                   /\ FeeForMsg(msgs[i]) = leg(i).company + leg(i).validator
    BY <1>1, SharesAdd
<1>4. /\ s.total = SumFunction(h)
      /\ s.company = SumFunction(f)
      /\ s.validator = SumFunction(g)
    <2>1. s = [total |-> SumFunction(h), company |-> SumFunction(f), validator |-> SumFunction(g)]
        BY <1>1 DEF ComputeFeeSplit
    <2> HIDE DEF f, g, h
    <2> QED
        BY SMTT(30), <2>1
<1>5. DOMAIN f = D /\ DOMAIN g = D /\ DOMAIN h = D
    OBVIOUS
<1>6. \A i \in D : f[i] \in Int /\ g[i] \in Int /\ h[i] = f[i] + g[i]
    BY <1>3
<1> HIDE DEF f, g, h, D
<1>7. /\ s.total = SumFunctionOnSet(h, D)
      /\ s.company = SumFunctionOnSet(f, D)
      /\ s.validator = SumFunctionOnSet(g, D)
    BY <1>4, <1>5 DEF SumFunction
<1>8. SumFunctionOnSet(f, D) \in Int /\ SumFunctionOnSet(g, D) \in Int
    BY <1>2, <1>6, SumInt
<1>9. SumFunctionOnSet(h, D) = SumFunctionOnSet(f, D) + SumFunctionOnSet(g, D)
    BY <1>2, <1>6, SumPlus
<1> QED
    BY <1>7, <1>8, <1>9, IntFacts

-----------------------------------------------------------------------------
(* The messages of a transaction *)

\* A change at one account changes what the accounts hold by as much.
LEMMA AccountChange ==
    ASSUME NEW f \in [Accounts -> Int], NEW g \in [Accounts -> Int], NEW y \in Accounts,
           \A x \in Accounts : x # y => g[x] = f[x]
    PROVE  /\ SumFunctionOnSet(f, Accounts) \in Int
           /\ SumFunctionOnSet(g, Accounts) = SumFunctionOnSet(f, Accounts) + (g[y] - f[y])
<1>1. \A x \in Accounts : f[x] \in Int
    OBVIOUS
<1>2. \A x \in Accounts : f[x] \in Int /\ g[x] \in Int
    OBVIOUS
<1>3. IsFiniteSet(Accounts)
    BY FeeBounds
<1>4. SumFunctionOnSet(f, Accounts) \in Int
    BY <1>1, <1>3, SumInt
<1> QED
    BY SMTT(30), <1>2, <1>3, <1>4, SumChange

\* c is b with x taken from p, which gives d, and then given to q.
Moves(b, d, c, p, q, x) ==
    /\ b \in [Accounts -> Int] /\ d \in [Accounts -> Int] /\ c \in [Accounts -> Int]
    /\ p \in Accounts /\ q \in Accounts /\ x \in Nat
    /\ d[p] = b[p] - x /\ \A a \in Accounts : a # p => d[a] = b[a]
    /\ c[q] = d[q] + x /\ \A a \in Accounts : a # q => c[a] = d[a]

\* That leaves the sum, and only the first can lose.
LEMMA MoveSum ==
    ASSUME NEW b, NEW d, NEW c, NEW p, NEW q, NEW x, Moves(b, d, c, p, q, x)
    PROVE  /\ SumFunctionOnSet(c, Accounts) = SumFunctionOnSet(b, Accounts)
           /\ \A a \in Accounts : a # p => c[a] >= b[a]
<1>1. /\ SumFunctionOnSet(b, Accounts) \in Int
      /\ SumFunctionOnSet(d, Accounts) = SumFunctionOnSet(b, Accounts) + (d[p] - b[p])
    BY AccountChange DEF Moves
<1>2. SumFunctionOnSet(c, Accounts) = SumFunctionOnSet(d, Accounts) + (c[q] - d[q])
    BY AccountChange DEF Moves
<1>3. b[p] \in Int /\ d[q] \in Int /\ x \in Nat /\ d[p] = b[p] - x /\ c[q] = d[q] + x
    BY DEF Moves
<1>4. SumFunctionOnSet(c, Accounts) = SumFunctionOnSet(b, Accounts)
    BY SMTT(30), <1>1, <1>2, <1>3
<1>5. ASSUME NEW a \in Accounts, a # p PROVE c[a] >= b[a]
    BY SMTT(30), <1>5 DEF Moves
<1> QED
    BY <1>4, <1>5

\* So does a transfer.
LEMMA TransferSum ==
    ASSUME NEW b \in [Accounts -> Int], NEW m \in Msgs, NEW c, c = Transfer(b, m)
    PROVE  /\ c \in [Accounts -> Int]
           /\ SumFunctionOnSet(c, Accounts) = SumFunctionOnSet(b, Accounts)
           /\ \A a \in Accounts : a # m.from => c[a] >= b[a]
<1> DEFINE d == [b EXCEPT ![m.from] = @ - m.amount]
<1>1. m.from \in Accounts /\ m.to \in Accounts /\ m.amount \in Nat
    BY DEF Msgs
<1>2. /\ d \in [Accounts -> Int] /\ d[m.from] = b[m.from] - m.amount
      /\ \A a \in Accounts : a # m.from => d[a] = b[a]
    BY SMTT(30), <1>1
<1> HIDE DEF d
<1>3. c = [d EXCEPT ![m.to] = @ + m.amount]
    BY DEF d, Transfer
<1>4. /\ c \in [Accounts -> Int] /\ c[m.to] = d[m.to] + m.amount
      /\ \A a \in Accounts : a # m.to => c[a] = d[a]
    BY SMTT(30), <1>1, <1>2, <1>3
<1>5. Moves(b, d, c, m.from, m.to, m.amount)
    BY <1>1, <1>2, <1>4 DEF Moves
<1>6. /\ SumFunctionOnSet(c, Accounts) = SumFunctionOnSet(b, Accounts)
      /\ \A a \in Accounts : a # m.from => c[a] >= b[a]
    BY <1>5, MoveSum
<1> QED
    BY <1>4, <1>6

\* So do the messages of a transaction that succeeds, whose senders alone can lose.
LEMMA AppliedSum ==
    ASSUME NEW b \in [Accounts -> Int], NEW msgs \in Seq(Msgs), NEW r,
           r = Applied(b, msgs), r # Failed
    PROVE  /\ r \in [Accounts -> Int]
           /\ SumFunctionOnSet(r, Accounts) = SumFunctionOnSet(b, Accounts)
           /\ \A a \in Accounts \ {msgs[i].from : i \in DOMAIN msgs} : r[a] >= b[a]
<1> DEFINE Others == Accounts \ {msgs[i].from : i \in DOMAIN msgs}
           Like(c) == /\ c \in [Accounts -> Int]
                      /\ SumFunctionOnSet(c, Accounts) = SumFunctionOnSet(b, Accounts)
                      /\ \A a \in Others : c[a] >= b[a]
           P == {Failed} \cup {c \in [Accounts -> Int] : Like(c)}
<1>1. DOMAIN msgs = 1..Len(msgs) /\ \A i \in 1..Len(msgs) : msgs[i] \in Msgs
    BY SMTT(30)
<1>2. b \in P
    <2>1. \A a \in Others : b[a] \in Int
        OBVIOUS
    <2>2. \A a \in Others : b[a] >= b[a]
        BY SMTT(30), <2>1
    <2> QED
        BY <2>2
<1>3. ASSUME NEW c \in P, NEW i \in 1..Len(msgs) PROVE Apply(c, msgs[i]) \in P
    <2> DEFINE m == msgs[i]
               e == Transfer(c, m)
    <2>1. Apply(c, m) \in {c, Failed, e}
        BY DEF Apply
    <2>2. ASSUME c # Failed PROVE e \in P
        <3>1. Like(c)
            BY <2>2
        <3>2. m \in Msgs
            BY <1>1
        <3> HIDE DEF m
        <3>3. /\ e \in [Accounts -> Int]
              /\ SumFunctionOnSet(e, Accounts) = SumFunctionOnSet(c, Accounts)
              /\ \A a \in Accounts : a # m.from => e[a] >= c[a]
            BY <3>1, <3>2, TransferSum
        <3> HIDE DEF e
        <3>4. ASSUME NEW a \in Others PROVE e[a] >= b[a]
            <4>1. a \in Accounts /\ a # m.from
                BY <1>1 DEF m
            <4>2. e[a] >= c[a] /\ c[a] >= b[a] /\ e[a] \in Int /\ c[a] \in Int /\ b[a] \in Int
                BY <3>1, <3>3, <4>1
            <4> QED
                BY SMTT(30), <4>2
        <3> QED
            BY <3>1, <3>3, <3>4
    <2>3. CASE c = Failed
        BY <2>3 DEF Apply
    <2> HIDE DEF e
    <2> QED
        BY <2>1, <2>2, <2>3
<1> HIDE DEF P
<1>4. Applied(b, msgs) \in P
    BY <1>2, <1>3, AppliedKeeps
<1> QED
    BY <1>4 DEF P

-----------------------------------------------------------------------------
(* The inductive invariant *)

\* The coin: what FeesFullyRouted needs is that everything is a number.
CoinInv ==
    /\ bal \in [Accounts -> Int]
    /\ collector \in Int /\ revenue \in Int /\ owed \in Int /\ withdrawn \in Int
    /\ grants \in [Accounts \X Accounts -> Int]
    /\ FeesFullyRouted

\* The quota: the counter of today is exactly the exemptions of today, no
\* counter is from a later day, and the peak covers the quota in force.
QuotaInv ==
    /\ day \in Nat /\ quotaPeak \in Nat /\ params.quota <= quotaPeak
    /\ \A d \in Dids : exempted[d] \in Nat /\ exempted[d] = MicroUsed(d) /\ exempted[d] <= quotaPeak
    /\ exempted \in [Dids -> Nat]
    /\ \A k \in DOMAIN used : k[1] \in Nat /\ k[1] <= day

FeeInv == params \in ParamSets /\ CoinInv /\ QuotaInv

-----------------------------------------------------------------------------
(* Coin *)

\* The balances b after from has paid the shares v and c and the messages,
\* or none of them, are carried out.
Settles(b, msgs, from, v, c, after) ==
    LET paid == [b EXCEPT ![from] = @ - v - c]
    IN  after = IF Applied(paid, msgs) = Failed THEN paid ELSE Applied(paid, msgs)

\* What a transaction charges and to whom.
LEMMA Charged ==
    ASSUME params \in ParamSets, bal \in [Accounts -> Int], NEW tx \in Txs, DeliverTx(tx)
    PROVE  \E total, v, c \in Int, from \in Accounts :
               /\ total = c + v
               /\ from = DeductFrom(tx, total) /\ GrantCovers(tx, total)
               /\ Settles(bal, tx.msgs, from, v, c, bal')
               /\ collector' = collector + v /\ revenue' = revenue + c /\ owed' = owed + total
<1> DEFINE exempt == IsMicroExempt(tx)
           split == IF exempt THEN NoFee ELSE ComputeFeeSplit(tx.msgs)
           from == DeductFrom(tx, split.total)
<1>1. /\ split.total \in Int /\ split.company \in Int /\ split.validator \in Int
      /\ split.total = split.company + split.validator
    <2>1. CASE exempt
        BY SMTT(30), <2>1 DEF NoFee
    <2>2. CASE ~exempt
        <3>1. tx.msgs \in Seq(Msgs)
            BY FeeFields
        <3> QED
            BY <2>2, <3>1, SplitAdds
    <2> QED
        BY <2>1, <2>2
<1>2. from \in Accounts
    BY FeeFields DEF DeductFrom
<1>3. /\ GrantCovers(tx, split.total)
      /\ Settles(bal, tx.msgs, from, split.validator, split.company, bal')
      /\ collector' = collector + split.validator /\ revenue' = revenue + split.company
      /\ owed' = owed + split.total
    BY DEF DeliverTx, Settles
<1> HIDE DEF split, exempt
<1>4. from = DeductFrom(tx, split.total)
    OBVIOUS
<1> HIDE DEF from
<1> QED
    BY <1>1, <1>2, <1>3, <1>4

SumDrops(b, after, v, c) ==
    /\ after \in [Accounts -> Int]
    /\ SumFunctionOnSet(b, Accounts) \in Int
    /\ SumFunctionOnSet(after, Accounts) = SumFunctionOnSet(b, Accounts) - v - c
OnlySendersLose(b, msgs, from, v, c, after) ==
    \A a \in Accounts \ {msgs[i].from : i \in DOMAIN msgs} :
        after[a] >= b[a] - (IF a = from THEN v + c ELSE 0)

\* What a transaction does to the balances: the payer or granter pays the
\* fee, and nobody else loses but by its own message.
LEMMA BalancesAfter ==
    ASSUME NEW b \in [Accounts -> Int], NEW msgs \in Seq(Msgs), NEW from \in Accounts,
           NEW v \in Int, NEW c \in Int, NEW after, Settles(b, msgs, from, v, c, after)
    PROVE  SumDrops(b, after, v, c) /\ OnlySendersLose(b, msgs, from, v, c, after)
<1> DEFINE paid == [b EXCEPT ![from] = @ - v - c]
<1>0. after = IF Applied(paid, msgs) = Failed THEN paid ELSE Applied(paid, msgs)
    BY DEF Settles
<1>1. /\ paid \in [Accounts -> Int] /\ paid[from] = b[from] - v - c
      /\ \A a \in Accounts : a # from => paid[a] = b[a]
      /\ b[from] \in Int
    BY SMTT(30)
<1> HIDE DEF paid
<1>2. /\ SumFunctionOnSet(b, Accounts) \in Int
      /\ SumFunctionOnSet(paid, Accounts) = SumFunctionOnSet(b, Accounts) + (paid[from] - b[from])
    <2>1. /\ paid \in [Accounts -> Int]
          /\ \A a \in Accounts : a # from => paid[a] = b[a]
        BY <1>1
    <2> QED
        BY <2>1, AccountChange
<1>3. SumFunctionOnSet(paid, Accounts) = SumFunctionOnSet(b, Accounts) - v - c
    BY SMTT(30), <1>1, <1>2
<1> DEFINE Others == Accounts \ {msgs[i].from : i \in DOMAIN msgs}
<1>4. /\ after \in [Accounts -> Int]
      /\ SumFunctionOnSet(after, Accounts) = SumFunctionOnSet(paid, Accounts)
      /\ \A a \in Others : after[a] >= paid[a]
    <2>1. CASE after = paid
        <3>1. \A a \in Others : paid[a] \in Int
            BY <1>1
        <3>2. \A a \in Others : paid[a] >= paid[a]
            BY SMTT(30), <3>1
        <3> QED
            BY <1>1, <2>1, <3>2
    <2>2. CASE Applied(paid, msgs) # Failed /\ after = Applied(paid, msgs)
        <3>1. paid \in [Accounts -> Int] /\ after = Applied(paid, msgs) /\ after # Failed
            BY <1>1, <2>2
        <3> QED
            BY <3>1, AppliedSum
    <2> QED
        BY <1>0, <2>1, <2>2
<1>5. ASSUME NEW a \in Others PROVE after[a] >= b[a] - (IF a = from THEN v + c ELSE 0)
    <2>1. after[a] >= paid[a] /\ after[a] \in Int /\ paid[a] \in Int /\ b[a] \in Int
        BY <1>1, <1>4
    <2>2. CASE a = from
        BY SMTT(30), <1>1, <2>1, <2>2
    <2>3. CASE a # from
        <3>1. paid[a] = b[a]
            BY <1>1, <2>3
        <3> QED
            BY SMTT(30), <2>1, <2>3, <3>1
    <2> QED
        BY <2>2, <2>3
<1> QED
    BY <1>2, <1>3, <1>4, <1>5 DEF SumDrops, OnlySendersLose

\* The sum of a function on the accounts.
LEMMA SumOfAccounts ==
    ASSUME NEW S, NEW f \in [Accounts -> S]
    PROVE  SumFunction(f) = SumFunctionOnSet(f, Accounts)
    BY DEF SumFunction

LEMMA DeliverCoin ==
    ASSUME FeeInv, NEW tx \in Txs, DeliverTx(tx) PROVE CoinInv'
<1>1. /\ params \in ParamSets /\ bal \in [Accounts -> Int] /\ FeesFullyRouted
      /\ collector \in Int /\ revenue \in Int /\ owed \in Int /\ withdrawn \in Int
      /\ grants \in [Accounts \X Accounts -> Int]
    BY DEF FeeInv, CoinInv
<1>2. PICK total, v, c \in Int, from \in Accounts :
          /\ total = c + v
          /\ from = DeductFrom(tx, total) /\ GrantCovers(tx, total)
          /\ Settles(bal, tx.msgs, from, v, c, bal')
          /\ collector' = collector + v /\ revenue' = revenue + c /\ owed' = owed + total
    BY <1>1, Charged
<1>3. tx.msgs \in Seq(Msgs) /\ tx.payer \in Accounts /\ tx.granter \in Accounts \cup {NoAccount}
    BY FeeFields
<1>4. /\ bal' \in [Accounts -> Int]
      /\ SumFunctionOnSet(bal, Accounts) \in Int
      /\ SumFunctionOnSet(bal', Accounts) = SumFunctionOnSet(bal, Accounts) - v - c
    <2>1. /\ bal \in [Accounts -> Int] /\ tx.msgs \in Seq(Msgs)
          /\ Settles(bal, tx.msgs, from, v, c, bal')
        BY <1>1, <1>2, <1>3
    <2>2. SumDrops(bal, bal', v, c)
        BY <2>1, BalancesAfter
    <2> QED
        BY <2>2 DEF SumDrops
<1>5. /\ collector' \in Int /\ revenue' \in Int /\ owed' \in Int
      /\ collector' + revenue' + withdrawn = owed'
      /\ SumFunctionOnSet(bal', Accounts) + collector' + revenue' = SumFunction(GenesisBal)
    <2>1. /\ collector + revenue + withdrawn = owed
          /\ SumFunctionOnSet(bal, Accounts) + collector + revenue = SumFunction(GenesisBal)
        BY <1>1, SumOfAccounts DEF FeesFullyRouted
    <2> QED
        BY SMTT(30), <1>1, <1>2, <1>4, <2>1
<1>6. withdrawn' = withdrawn
    BY DEF DeliverTx
<1>7. FeesFullyRouted'
    <2>1. SumFunction(bal') = SumFunctionOnSet(bal', Accounts)
        BY <1>4, SumOfAccounts
    <2> QED
        BY <1>5, <1>6, <2>1 DEF FeesFullyRouted
<1>8. grants' \in [Accounts \X Accounts -> Int]
    <2>1. CASE UsesGrant(tx, total)
        <3> DEFINE k == <<tx.granter, tx.payer>>
        <3>1. k \in Accounts \X Accounts
            BY <1>3, <2>1 DEF UsesGrant
        <3>2. grants' = [grants EXCEPT ![k] = @ - total]
            BY <1>2, <2>1 DEF GrantCovers
        <3> HIDE DEF k
        <3>3. grants[k] - total \in Int
            BY <1>1, <1>2, <3>1, IntFacts
        <3> QED
            BY <1>1, <3>2, <3>3
    <2>2. CASE ~UsesGrant(tx, total)
        BY <1>1, <1>2, <2>2 DEF GrantCovers
    <2> QED
        BY <2>1, <2>2
<1> QED
    BY <1>1, <1>4, <1>5, <1>6, <1>7, <1>8 DEF CoinInv

LEMMA WithdrawCoin ==
    ASSUME FeeInv, NEW x \in 1..MaxOwed, WithdrawRevenue(x) PROVE CoinInv'
<1>1. /\ params \in ParamSets /\ bal \in [Accounts -> Int] /\ FeesFullyRouted
      /\ collector \in Int /\ revenue \in Int /\ owed \in Int /\ withdrawn \in Int
      /\ grants \in [Accounts \X Accounts -> Int]
    BY DEF FeeInv, CoinInv
<1> DEFINE to == params.payout
<1>2. /\ bal' = [bal EXCEPT ![to] = @ + x] /\ revenue' = revenue - x
      /\ withdrawn' = withdrawn + x /\ UNCHANGED <<collector, grants, owed>>
    BY DEF WithdrawRevenue
<1>3. to \in Accounts /\ x \in Int
    <2>1. x \in Int
        BY SMTT(30), FeeBounds
    <2> QED
        BY <1>1, <2>1, FeeFields DEF WithdrawRevenue
<1> HIDE DEF to
<1>4. /\ bal' \in [Accounts -> Int] /\ bal'[to] - bal[to] = x
      /\ \A a \in Accounts : a # to => bal'[a] = bal[a]
    BY SMTT(30), <1>1, <1>2, <1>3
<1>5. /\ SumFunctionOnSet(bal, Accounts) \in Int
      /\ SumFunctionOnSet(bal', Accounts) = SumFunctionOnSet(bal, Accounts) + x
    <2>1. /\ SumFunctionOnSet(bal, Accounts) \in Int
          /\ SumFunctionOnSet(bal', Accounts) = SumFunctionOnSet(bal, Accounts) + (bal'[to] - bal[to])
        BY <1>1, <1>3, <1>4, AccountChange
    <2> QED
        BY <1>4, <2>1
<1>6. /\ revenue' \in Int /\ withdrawn' \in Int
      /\ collector + revenue' + withdrawn' = owed
      /\ SumFunctionOnSet(bal', Accounts) + collector + revenue' = SumFunction(GenesisBal)
    <2>1. /\ collector + revenue + withdrawn = owed
          /\ SumFunctionOnSet(bal, Accounts) + collector + revenue = SumFunction(GenesisBal)
        BY <1>1, SumOfAccounts DEF FeesFullyRouted
    <2> QED
        BY SMTT(30), <1>1, <1>2, <1>3, <1>5, <2>1
<1>7. FeesFullyRouted'
    <2>1. SumFunction(bal') = SumFunctionOnSet(bal', Accounts)
        BY <1>4, SumOfAccounts
    <2> QED
        BY <1>2, <1>6, <2>1 DEF FeesFullyRouted
<1> QED
    BY <1>1, <1>2, <1>4, <1>6, <1>7 DEF CoinInv

-----------------------------------------------------------------------------
(* Quota *)

\* A payer with a DID is counted under one of the DIDs.
LEMMA SubjectIsDid ==
    ASSUME NEW a, SubjectDID(a) # NoDid
    PROVE  SubjectDID(a) \in Dids
<1> DEFINE held == {d \in Dids : owner[d] = a}
<1>1. held # {} /\ SubjectDID(a) = Min(held)
    BY DEF SubjectDID
<1>2. held \in SUBSET Nat
    BY FeeBounds
<1>3. Min(held) \in held
    <2> HIDE DEF held
    <2> QED
        BY <1>1, <1>2, MinIsLeast
<1> QED
    BY <1>1, <1>3

\* Counting one more.
LEMMA OneMore ==
    ASSUME NEW n \in Nat, NEW q \in Nat, NEW p \in Nat, n < q, q <= p
    PROVE  n + 1 \in Nat /\ n + 1 <= p
    BY SMTT(30)
LEMMA NoneMore == ASSUME NEW n \in Nat PROVE n + 0 = n
    BY SMTT(30)

LEMMA DeliverQuota ==
    ASSUME FeeInv, NEW tx \in Txs, DeliverTx(tx) PROVE QuotaInv'
<1>1. /\ params \in ParamSets /\ day \in Nat /\ quotaPeak \in Nat /\ params.quota <= quotaPeak
      /\ \A d \in Dids : exempted[d] \in Nat /\ exempted[d] = MicroUsed(d) /\ exempted[d] <= quotaPeak
      /\ \A k \in DOMAIN used : k[1] \in Nat /\ k[1] <= day
      /\ params.quota \in Nat
    BY FeeFields DEF FeeInv, QuotaInv
<1> DEFINE me == SubjectDID(tx.payer)
           exempt == IsMicroExempt(tx)
<1>2. /\ UNCHANGED <<day, params, quotaPeak>>
      /\ used' = IF exempt THEN ConsumeMicroExemption(tx) ELSE used
      /\ exempted' = [d \in Dids |-> exempted[d] + IF exempt /\ d = me THEN 1 ELSE 0]
    BY DEF DeliverTx
<1>3. CASE ~exempt
    <2>1. used' = used /\ \A d \in Dids : exempted'[d] = exempted[d]
        BY <1>1, <1>2, <1>3, NoneMore
    <2>2. exempted' \in [Dids -> Nat]
        BY <1>1, <1>2, <2>1
    <2>3. \A d \in Dids : MicroUsed(d)' = MicroUsed(d)
        BY <1>2, <2>1 DEF MicroUsed
    <2> QED
        BY <1>1, <1>2, <2>1, <2>2, <2>3 DEF QuotaInv
<1>4. CASE exempt
    <2>1. me \in Dids /\ MicroUsed(me) < params.quota
        BY <1>4, SubjectIsDid DEF IsMicroExempt
    <2>2. used' = Counted(me)
        BY <1>2, <1>4 DEF ConsumeMicroExemption
    <2> HIDE DEF me, exempt
    <2>3. /\ DOMAIN used' = DOMAIN used \cup {<<day, me>>}
          /\ used'[<<day, me>>] = MicroUsed(me) + 1
          /\ \A k \in DOMAIN used : k # <<day, me>> => used'[k] = used[k]
        BY <2>2 DEF Counted
    <2>4. ASSUME NEW d \in Dids
          PROVE  /\ exempted'[d] \in Nat /\ exempted'[d] = MicroUsed(d)'
                 /\ exempted'[d] <= quotaPeak
        <3>1. CASE d = me
            <4>1. exempted'[d] = MicroUsed(me) + 1
                BY <1>1, <1>2, <1>4, <3>1
            <4>2. MicroUsed(d)' = MicroUsed(me) + 1
                BY <1>2, <2>3, <3>1 DEF MicroUsed
            <4>3. MicroUsed(me) \in Nat
                BY <1>1, <2>1
            <4> QED
                BY <1>1, <2>1, <4>1, <4>2, <4>3, OneMore
        <3>2. CASE d # me
            <4>1. exempted'[d] = exempted[d]
                BY <1>1, <1>2, <3>2, NoneMore
            <4>2. <<day, d>> # <<day, me>>
                BY <3>2
            <4>3. MicroUsed(d)' = MicroUsed(d)
                BY <1>2, <2>3, <4>2 DEF MicroUsed
            <4> QED
                BY <1>1, <4>1, <4>3
        <3> QED
            BY <3>1, <3>2
    <2>5. exempted' \in [Dids -> Nat]
        BY <1>2, <2>4
    <2>6. ASSUME NEW k \in DOMAIN used' PROVE k[1] \in Nat /\ k[1] <= day
        <3>1. CASE k = <<day, me>>
            BY SMTT(30), <1>1, <3>1
        <3>2. CASE k \in DOMAIN used
            BY <1>1, <3>2
        <3> QED
            BY <2>3, <3>1, <3>2
    <2> QED
        BY <1>1, <1>2, <2>4, <2>5, <2>6 DEF QuotaInv
<1> QED
    BY <1>3, <1>4

\* The counters of today are never stale, and a new day starts with none.
LEMMA BlockQuota ==
    ASSUME FeeInv, NEW today \in {day, day + 1} \cap 1..MaxDay, NewBlock(today) PROVE QuotaInv'
<1>1. /\ params \in ParamSets /\ day \in Nat /\ quotaPeak \in Nat /\ params.quota <= quotaPeak
      /\ \A d \in Dids : exempted[d] \in Nat /\ exempted[d] = MicroUsed(d) /\ exempted[d] <= quotaPeak
      /\ exempted \in [Dids -> Nat]
      /\ \A k \in DOMAIN used : k[1] \in Nat /\ k[1] <= day
      /\ params.quota \in Nat
    BY FeeFields DEF FeeInv, QuotaInv
<1>2. /\ day' = today /\ params' = params
      /\ used' = PruneMicroQuota(today)
      /\ exempted' = IF today = day THEN exempted ELSE [d \in Dids |-> 0]
      /\ quotaPeak' = IF today = day THEN quotaPeak ELSE params.quota
    BY DEF NewBlock
<1>3. /\ today \in Nat
      /\ \A k \in Nat : k <= day => k <= today
      /\ today # day => \A k \in Nat : k <= day => k # today
      /\ ~(today < today - Retention)
    <2>1. day \in Nat /\ today \in {day, day + 1}
        BY <1>1
    <2> QED
        BY SMTT(30), <2>1, FeeBounds
<1>4. /\ DOMAIN used' \in SUBSET DOMAIN used
      /\ \A k \in DOMAIN used' : used'[k] = used[k]
      /\ \A k \in DOMAIN used : k[1] = today => k \in DOMAIN used'
    <2> DEFINE gone == {k \in Stale(today) :
                           Cardinality({l \in Stale(today) : KeyBefore(l, k)}) < Budget}
    <2>1. used' = [k \in DOMAIN used \ gone |-> used[k]]
        BY <1>2 DEF PruneMicroQuota
    <2>2. \A k \in gone : k[1] < today - Retention
        BY DEF Stale
    <2>3. \A k \in gone : k[1] # today
        BY <1>3, <2>2
    <2> HIDE DEF gone
    <2> QED
        BY <2>1, <2>3
<1>5. \A k \in DOMAIN used' : k[1] \in Nat /\ k[1] <= today
    BY <1>1, <1>3, <1>4
<1>6. \A d : <<today, d>>[1] = today
    BY SMTT(30)
<1>7. CASE today = day
    <2>1. \A d \in Dids : MicroUsed(d)' = MicroUsed(d)
        BY <1>2, <1>4, <1>6, <1>7 DEF MicroUsed
    <2> QED
        BY <1>1, <1>2, <1>5, <1>7, <2>1 DEF QuotaInv
<1>8. CASE today # day
    <2>1. ASSUME NEW d \in Dids PROVE <<today, d>> \notin DOMAIN used'
        BY <1>1, <1>3, <1>4, <1>6, <1>8
    <2>2. \A d \in Dids : MicroUsed(d)' = 0
        BY <1>2, <2>1 DEF MicroUsed
    <2>3. 0 \in Nat /\ 0 <= params.quota /\ params.quota <= params.quota
        BY SMTT(30), <1>1
    <2>4. exempted' = [d \in Dids |-> 0] /\ quotaPeak' = params.quota
        BY <1>2, <1>8
    <2> QED
        BY <1>1, <1>2, <1>3, <1>5, <2>2, <2>3, <2>4 DEF QuotaInv
<1> QED
    BY <1>7, <1>8

-----------------------------------------------------------------------------
(* The steps *)

LEMMA FeeInit == Init => FeeInv
<1> SUFFICES ASSUME Init PROVE FeeInv
    OBVIOUS
<1>1. /\ bal = GenesisBal /\ collector = 0 /\ revenue = 0 /\ grants = GenesisGrants
      /\ used = [k \in {} |-> 0] /\ day = 1 /\ params \in ParamSets /\ owed = 0 /\ withdrawn = 0
      /\ exempted = [d \in Dids |-> 0] /\ quotaPeak = params.quota
    BY DEF Init
<1>2. /\ bal \in [Accounts -> Nat] /\ grants \in [Accounts \X Accounts -> Nat]
      /\ params.quota \in Nat
    BY <1>1, FeeBounds, FeeFields
<1>3. /\ bal \in [Accounts -> Int] /\ grants \in [Accounts \X Accounts -> Int]
    BY <1>2, NatIsInt
<1>4. FeesFullyRouted
    <2>1. SumFunctionOnSet(bal, Accounts) \in Int
        <3>1. \A a \in Accounts : bal[a] \in Int
            BY <1>3
        <3> QED
            BY <3>1, FeeBounds, SumInt
    <2>2. SumFunction(bal) \in Int
        BY <1>3, <2>1, SumOfAccounts
    <2>3. SumFunction(bal) + 0 + 0 = SumFunction(bal) /\ 0 + 0 + 0 = 0
        BY SMTT(30), <2>2
    <2> QED
        BY <1>1, <2>3 DEF FeesFullyRouted
<1>5. 1 \in Nat /\ 0 <= params.quota /\ params.quota <= params.quota
    BY SMTT(30), <1>2
<1>6. \A d \in Dids : MicroUsed(d) = 0
    BY <1>1 DEF MicroUsed
<1>7. QuotaInv
    BY <1>1, <1>2, <1>5, <1>6, NatIsInt DEF QuotaInv
<1> QED
    BY <1>1, <1>3, <1>4, <1>7, NatIsInt DEF FeeInv, CoinInv

\* The steps that touch neither coin nor counters.
LEMMA CoinKept ==
    ASSUME CoinInv, UNCHANGED <<bankVars, owed, withdrawn>> PROVE CoinInv'
    BY DEF CoinInv, bankVars, FeesFullyRouted
LEMMA QuotaKept ==
    ASSUME QuotaInv, UNCHANGED <<used, day, params, exempted, quotaPeak>> PROVE QuotaInv'
<1>1. \A d \in Dids : MicroUsed(d)' = MicroUsed(d)
    BY DEF MicroUsed
<1> QED
    BY <1>1 DEF QuotaInv

LEMMA FeeStep == FeeInv /\ [Next]_vars => FeeInv'
<1> SUFFICES ASSUME FeeInv, [Next]_vars PROVE FeeInv'
    OBVIOUS
<1>1. params \in ParamSets /\ CoinInv /\ QuotaInv
    BY DEF FeeInv
<1>2. CASE \E tx \in Txs : DeliverTx(tx)
    <2>1. PICK tx \in Txs : DeliverTx(tx)
        BY <1>2
    <2>2. params' = params
        BY <2>1 DEF DeliverTx
    <2> QED
        BY <1>1, <2>1, <2>2, DeliverCoin, DeliverQuota DEF FeeInv
<1>3. CASE \E x \in 1..MaxOwed : WithdrawRevenue(x)
    <2>1. PICK x \in 1..MaxOwed : WithdrawRevenue(x)
        BY <1>3
    <2>2. UNCHANGED <<used, day, params, exempted, quotaPeak>>
        BY <2>1 DEF WithdrawRevenue
    <2> QED
        BY <1>1, <2>1, <2>2, WithdrawCoin, QuotaKept DEF FeeInv
<1>4. CASE \E p \in ParamSets : UpdateParams(p)
    <2>1. PICK p \in ParamSets : UpdateParams(p)
        BY <1>4
    <2>2. /\ params' = p /\ quotaPeak' = Max({quotaPeak, p.quota})
          /\ UNCHANGED <<bankVars, owed, withdrawn>> /\ UNCHANGED <<used, day, exempted>>
        BY <2>1 DEF UpdateParams
    <2>3. /\ quotaPeak \in Nat /\ p.quota \in Nat
          /\ \A d \in Dids : exempted[d] \in Nat /\ exempted[d] <= quotaPeak
        BY <1>1, FeeFields DEF QuotaInv
    <2>4. quotaPeak' \in Nat /\ quotaPeak' >= quotaPeak /\ quotaPeak' >= p.quota
        <3>1. quotaPeak \in Int /\ p.quota \in Int
            BY <2>3, NatIsInt
        <3>2. /\ Max({quotaPeak, p.quota}) \in {quotaPeak, p.quota}
              /\ Max({quotaPeak, p.quota}) >= quotaPeak /\ Max({quotaPeak, p.quota}) >= p.quota
            BY <3>1, MaxOfTwo
        <3> QED
            BY <2>2, <2>3, <3>2
    <2>5. p.quota <= quotaPeak' /\ \A d \in Dids : exempted[d] <= quotaPeak'
        BY SMTT(30), <2>3, <2>4
    <2>6. \A d \in Dids : MicroUsed(d)' = MicroUsed(d)
        BY <2>2 DEF MicroUsed
    <2>7. QuotaInv'
        BY <1>1, <2>2, <2>4, <2>5, <2>6 DEF QuotaInv
    <2> QED
        BY <1>1, <2>1, <2>2, <2>7, CoinKept DEF FeeInv
<1>5. CASE \E d \in Dids, a \in Accounts : MoveDid(d, a)
    <2>1. /\ UNCHANGED <<bankVars, owed, withdrawn>>
          /\ UNCHANGED <<used, day, params, exempted, quotaPeak>>
        BY <1>5 DEF MoveDid, history
    <2> QED
        BY <1>1, <2>1, CoinKept, QuotaKept DEF FeeInv
<1>6. CASE \E today \in {day, day + 1} \cap 1..MaxDay : NewBlock(today)
    <2>1. PICK today \in {day, day + 1} \cap 1..MaxDay : NewBlock(today)
        BY <1>6
    <2>2. UNCHANGED <<bankVars, owed, withdrawn>> /\ UNCHANGED params
        BY <2>1 DEF NewBlock
    <2> QED
        BY <1>1, <2>1, <2>2, CoinKept, BlockQuota DEF FeeInv
<1>7. CASE UNCHANGED vars
    <2>1. /\ UNCHANGED <<bankVars, owed, withdrawn>>
          /\ UNCHANGED <<used, day, params, exempted, quotaPeak>>
        BY <1>7 DEF vars, history
    <2> QED
        BY <1>1, <2>1, CoinKept, QuotaKept DEF FeeInv
<1> QED
    BY <1>2, <1>3, <1>4, <1>5, <1>6, <1>7 DEF Next

LEMMA FeeInvariant == Spec => []FeeInv
    BY FeeInit, FeeStep, PTL DEF Spec

-----------------------------------------------------------------------------
(* Theorems *)

\* FeesFullyRouted for any accounts, transactions and parameters: what
\* CompanyShare rounds and ComputeFeeSplit adds up loses no uphi.
THEOREM FeesAlwaysRouted == Spec => []FeesFullyRouted
<1>1. FeeInv => FeesFullyRouted
    BY DEF FeeInv, CoinInv
<1> QED
    BY <1>1, FeeInvariant, PTL

\* QuotaPerHuman for any DIDs, moves between accounts, quotas and days:
\* IsMicroExempt, ConsumeMicroExemption and PruneMicroQuota together.
THEOREM QuotaHolds == Spec => []QuotaPerHuman
<1>1. FeeInv => QuotaPerHuman
    BY DEF FeeInv, QuotaInv, QuotaPerHuman
<1> QED
    BY <1>1, FeeInvariant, PTL

\* UnsignedDebitGranted for any transaction, of any number of messages: the
\* feegrant path of FixedFeeDecorator is the only way to lose without signing.
THEOREM DebitsGranted == Spec => UnsignedDebitGranted
<1> DEFINE Unsigned(tx) == Accounts \ ({tx.payer} \cup {tx.msgs[i].from : i \in DOMAIN tx.msgs})
           Shrunk(tx, a) == grants[<<a, tx.payer>>] - grants'[<<a, tx.payer>>]
<1>1. ASSUME FeeInv, NEW tx \in Txs, DeliverTx(tx), NEW a \in Unsigned(tx), bal'[a] < bal[a]
      PROVE  bal[a] - bal'[a] <= Shrunk(tx, a) /\ Shrunk(tx, a) = owed' - owed
    <2>1. /\ params \in ParamSets /\ bal \in [Accounts -> Int] /\ owed \in Int
          /\ grants \in [Accounts \X Accounts -> Int]
        BY <1>1 DEF FeeInv, CoinInv
    <2>2. PICK total, v, c \in Int, from \in Accounts :
              /\ total = c + v
              /\ from = DeductFrom(tx, total) /\ GrantCovers(tx, total)
              /\ Settles(bal, tx.msgs, from, v, c, bal')
              /\ collector' = collector + v /\ revenue' = revenue + c /\ owed' = owed + total
        BY <1>1, <2>1, Charged
    <2>3. tx.msgs \in Seq(Msgs) /\ tx.payer \in Accounts /\ tx.granter \in Accounts \cup {NoAccount}
        BY FeeFields
    <2>4. SumDrops(bal, bal', v, c) /\ OnlySendersLose(bal, tx.msgs, from, v, c, bal')
        BY <2>1, <2>2, <2>3, BalancesAfter
    <2>5. /\ a \in Accounts /\ a # tx.payer
          /\ a \in Accounts \ {tx.msgs[i].from : i \in DOMAIN tx.msgs}
        OBVIOUS
    <2>6. bal[a] \in Int /\ bal'[a] \in Int
        BY <2>1, <2>4, <2>5 DEF SumDrops
    <2>7. bal'[a] >= bal[a] - (IF a = from THEN v + c ELSE 0)
        BY <2>4, <2>5 DEF OnlySendersLose
    <2>8. a = from /\ bal[a] - bal'[a] <= total
        <3>1. CASE a = from
            BY SMTT(30), <2>2, <2>6, <2>7, <3>1
        <3>2. CASE a # from
            BY SMTT(30), <1>1, <2>6, <2>7, <3>2
        <3> QED
            BY <3>1, <3>2
    <2>9. UsesGrant(tx, total) /\ tx.granter = a
        BY <2>2, <2>5, <2>8 DEF DeductFrom, UsesGrant
    <2> DEFINE k == <<a, tx.payer>>
    <2>10. grants' = [grants EXCEPT ![k] = @ - total]
        BY <2>2, <2>9 DEF GrantCovers
    <2>11. k \in Accounts \X Accounts
        BY <2>3, <2>5
    <2>12. grants[k] \in Int /\ grants'[k] = grants[k] - total
        <3> HIDE DEF k
        <3> QED
            BY <2>1, <2>10, <2>11
    <2> HIDE DEF k
    <2>13. grants[k] - grants'[k] = total /\ owed' - owed = total
        BY SMTT(30), <2>1, <2>2, <2>12
    <2> QED
        BY <2>8, <2>13 DEF k
<1>2. FeeInv =>
        [\A tx \in Txs : DeliverTx(tx) =>
            \A a \in Unsigned(tx) :
                bal'[a] < bal[a] =>
                    bal[a] - bal'[a] <= Shrunk(tx, a) /\ Shrunk(tx, a) = owed' - owed]_vars
    BY <1>1
<1> QED
    BY <1>2, FeeInvariant, PTL DEF UnsignedDebitGranted

-----------------------------------------------------------------------------
(* The decoder *)

\* The shape of the stack of calls: a sequence of frames whose slices lie in
\* one another, all of them reaching at least as far as iNdEx.
Nested ==
    /\ \E S : frames \in Seq(S)
    /\ Len(frames) >= 1
    /\ \A i \in 1..Len(frames) :
           /\ frames[i].end \in Nat
           /\ pos <= frames[i].end /\ frames[i].end <= Len(buf)
           /\ \A j \in 1..i : frames[i].end <= frames[j].end

\* ReadsInBounds with what its induction needs: the position and the stack are
\* well typed and there is always a call to return from.
WireInv == pos \in Nat /\ Len(buf) \in Nat /\ Nested

LEMMA SeqGrows ==
    ASSUME NEW S, NEW s \in Seq(S), NEW T, S \subseteq T
    PROVE  s \in Seq(T)
BY SMTT(30)

LEMMA AppendFacts ==
    ASSUME NEW S, NEW s \in Seq(S), NEW x
    PROVE  LET t == Append(s, x)
           IN  /\ t \in Seq(S \cup {x})
               /\ Len(t) = Len(s) + 1
               /\ \A i \in 1..Len(s) : t[i] = s[i]
               /\ t[Len(t)] = x
<1>1. s \in Seq(S \cup {x})
  BY SeqGrows
<1> QED
  BY <1>1, SMTT(30)

LEMMA FrontFacts ==
    ASSUME NEW S, NEW s \in Seq(S), Len(s) >= 1
    PROVE  LET t == SubSeq(s, 1, Len(s) - 1)
           IN  /\ t \in Seq(S)
               /\ Len(t) = Len(s) - 1
               /\ \A i \in 1..Len(t) : t[i] = s[i]
<1> DEFINE n == Len(s) - 1
<1>1. Len(s) \in Nat /\ n \in Nat /\ n \in 0..Len(s) /\ 1 \in 1..(Len(s) + 1)
  BY SMTT(30)
<1> HIDE DEF n
<1>2. SubSeq(s, 1, n) \in Seq(S)
  BY <1>1, SMTT(30)
<1>3. Len(SubSeq(s, 1, n)) = n
  BY <1>1, SMTT(30)
<1>4. \A i \in 1..n : SubSeq(s, 1, n)[i] = s[i]
  BY <1>1, SMTT(30)
<1> QED
  BY <1>2, <1>3, <1>4 DEF n

\* A varint that can be read ends behind its first byte and within the slice.
LEMMA AfterAdvances ==
    ASSUME NEW i \in Nat, End \in Nat, i <= End, Groups \in Nat
    PROVE  After(i) \in (i + 1)..Past
<1>1. CASE Terminal(i) = {}
  BY <1>1, SMTT(30) DEF After, Past
<1>2. CASE Terminal(i) # {}
  <2> DEFINE k == CHOOSE k \in Terminal(i) : TRUE
  <2>1. k \in Terminal(i)
    BY <1>2
  <2>2. k \in 0..(Groups - 1) /\ i + k < End
    BY <2>1 DEF Terminal
  <2>3. After(i) = i + k + 1
    BY <1>2 DEF After
  <2> HIDE DEF k
  <2> QED
    BY <2>2, <2>3, SMTT(30) DEF Past
<1> QED
  BY <1>1, <1>2

\* The same of a length and the bytes it announces.
LEMMA PostIndexAdvances ==
    ASSUME NEW i \in Nat, End \in Nat, i <= End, Groups \in Nat
    PROVE  /\ PostIndex(i) \in (i + 1)..Past
           /\ PostIndex(i) <= End => After(i) <= PostIndex(i)
<1>1. After(i) \in (i + 1)..Past
  BY AfterAdvances
<1>2. CASE After(i) = Past \/ Value(i) \notin 0..(End - After(i))
  BY <1>1, <1>2, SMTT(30) DEF PostIndex, Past
<1>3. CASE ~(After(i) = Past \/ Value(i) \notin 0..(End - After(i)))
  <2>1. PostIndex(i) = After(i) + Value(i) /\ Value(i) \in 0..(End - After(i))
    BY <1>3 DEF PostIndex
  <2> QED
    BY <1>1, <2>1, SMTT(30) DEF Past
<1> QED
  BY <1>2, <1>3

-----------------------------------------------------------------------------

\* What the invariant says of the running call.
LEMMA Here ==
    ASSUME WireInv
    PROVE  /\ Len(frames) \in Nat \ {0} /\ Groups \in Nat
           /\ End \in Nat /\ pos \in Nat /\ pos <= End /\ End <= Len(buf)
           /\ \A i \in 1..Len(frames) : End <= frames[i].end
<1>1. PICK S : frames \in Seq(S)
  BY DEF WireInv, Nested
<1>2. Len(frames) \in Nat \ {0}
  BY <1>1, SMTT(30) DEF WireInv, Nested
<1> QED
  BY <1>2, WireAssumption, SMTT(30) DEF WireInv, Nested, End, Frame

\* A step that keeps the slices of the calls it does not leave, and moves on
\* within the one it is in, keeps the invariant.
LEMMA WithinKeeps ==
    ASSUME WireInv, UNCHANGED input, pos' \in Nat, pos' <= End,
           NEW T, frames' \in Seq(T), Len(frames') >= 1, Len(frames') <= Len(frames),
           \A i \in 1..Len(frames') : frames'[i].end = frames[i].end
    PROVE  WireInv'
<1>1. /\ Len(frames) \in Nat /\ End \in Nat
      /\ \A i \in 1..Len(frames) : End <= frames[i].end
  BY Here
<1>2. Len(frames') \in Nat /\ \A i \in 1..Len(frames') : i \in 1..Len(frames)
  BY <1>1, SMTT(30)
<1>3. \A i \in 1..Len(frames') :
         /\ frames'[i].end \in Nat
         /\ pos' <= frames'[i].end /\ frames'[i].end <= Len(input.buf)
         /\ \A j \in 1..i : frames'[i].end <= frames'[j].end
  <2> SUFFICES ASSUME NEW i \in 1..Len(frames')
               PROVE  /\ frames'[i].end \in Nat
                      /\ pos' <= frames'[i].end /\ frames'[i].end <= Len(input.buf)
                      /\ \A j \in 1..i : frames'[i].end <= frames'[j].end
    OBVIOUS
  <2>1. i \in 1..Len(frames) /\ \A j \in 1..i : j \in 1..Len(frames')
    BY <1>2, SMTT(30)
  <2>2. /\ frames[i].end \in Nat /\ frames[i].end <= Len(input.buf)
        /\ \A j \in 1..i : frames[i].end <= frames[j].end
    BY <2>1 DEF WireInv, Nested, buf
  <2>3. End <= frames[i].end
    BY <1>1, <2>1
  <2> QED
    BY <1>1, <2>1, <2>2, <2>3, SMTT(30)
<1> QED
  BY <1>3 DEF WireInv, Nested, buf

\* Storing a value changes the message of the running call only.
LEMMA StoredFacts ==
    ASSUME WireInv, NEW f, NEW x
    PROVE  LET t == Stored(f, x)
           IN  /\ \E T : t \in Seq(T)
               /\ Len(t) = Len(frames)
               /\ \A i \in 1..Len(t) : t[i].end = frames[i].end
<1> DEFINE top == WithMessage(Frame, Put(Frame.msg, f, x))
<1>1. PICK S : frames \in Seq(S)
  BY DEF WireInv, Nested
<1>2. Len(frames) \in Nat \ {0}
  BY Here
<1>3. Rest \in Seq(S) /\ Len(Rest) = Len(frames) - 1 /\ \A i \in 1..Len(Rest) : Rest[i] = frames[i]
  BY <1>1, <1>2, FrontFacts, SMTT(30) DEF Rest
<1>4. top.end = frames[Len(frames)].end
  BY DEF WithMessage, Frame
<1> HIDE DEF top
<1>5. /\ Append(Rest, top) \in Seq(S \cup {top})
      /\ Len(Append(Rest, top)) = Len(frames)
      /\ \A i \in 1..Len(Rest) : Append(Rest, top)[i] = Rest[i]
      /\ Append(Rest, top)[Len(frames)] = top
  BY <1>2, <1>3, AppendFacts, SMTT(30)
<1>6. \A i \in 1..Len(frames) : i \in 1..Len(Rest) \/ i = Len(frames)
  BY <1>2, <1>3, SMTT(30)
<1>7. Stored(f, x) = Append(Rest, top)
  BY DEF Stored, top
<1> QED
  BY <1>3, <1>4, <1>5, <1>6, <1>7

-----------------------------------------------------------------------------

Rank(m) == IF m = "packed" THEN 2 ELSE IF m = "field" THEN 1 ELSE 0

\* A step of Unmarshal returns, or consumes a byte, or leaves a nested call, or
\* leaves a packed block for the loop or the loop for skipX. With
\* ReadsInBounds, which bounds what can be consumed, no input keeps it running.
Advances ==
    \/ mode' \in {"done", "failed"}
    \/ pos' > pos
    \/ pos' = pos /\ Len(frames') < Len(frames)
    \/ pos' = pos /\ frames' = frames /\ Rank(mode') < Rank(mode)

\* One iteration of the loop, action by action.
LEMMA StepFacts ==
    ASSUME WireInv, WireNext
    PROVE  WireInv' /\ Advances
<1>0. /\ Len(frames) \in Nat \ {0} /\ Groups \in Nat
      /\ End \in Nat /\ pos \in Nat /\ pos <= End /\ End <= Len(buf)
      /\ \A i \in 1..Len(frames) : End <= frames[i].end
  BY Here
<1>n. Next1 \in (pos + 1)..Past /\ Next1 \in Nat
  BY <1>0, AfterAdvances, SMTT(30) DEF Next1, Past
<1>a. Next1 <= End => After(Next1) \in (Next1 + 1)..Past
  BY <1>0, <1>n, AfterAdvances
<1>p. Next1 <= End => /\ PostIndex(Next1) \in (Next1 + 1)..Past
                      /\ PostIndex(Next1) <= End => After(Next1) <= PostIndex(Next1)
  BY <1>0, <1>n, PostIndexAdvances
<1>s. PICK S : frames \in Seq(S)
  BY DEF WireInv, Nested
<1>1. CASE ReadVarint
  <2>1. PICK f, x : frames' = Stored(f, x)
    BY <1>1 DEF ReadVarint
  <2>2. pos' \in Nat /\ pos' <= End /\ pos' > pos /\ UNCHANGED input
    BY <1>1, <1>0, <1>n, <1>a, SMTT(30) DEF ReadVarint, LegalTag, Past
  <2> QED
    BY <1>0, <2>1, <2>2, StoredFacts, WithinKeeps, SMTT(30) DEF Advances
<1>2. CASE ReadBytes
  <2>1. PICK f, x : frames' = Stored(f, x)
    BY <1>2 DEF ReadBytes
  <2>2. pos' \in Nat /\ pos' <= End /\ pos' > pos /\ UNCHANGED input
    BY <1>2, <1>0, <1>n, <1>p, SMTT(30) DEF ReadBytes, LegalTag, Past
  <2> QED
    BY <1>0, <2>1, <2>2, StoredFacts, WithinKeeps, SMTT(30) DEF Advances
<1>3. CASE EnterMessage
  <2>1. PICK fr : frames' = Append(frames, fr) /\ fr.end = PostIndex(Next1)
    <3> DEFINE fr == [type |-> Field.of, end |-> PostIndex(Next1), field |-> Field,
                      msg |-> IF Field.many THEN <<>> ELSE Get(Frame.msg, Field)]
    <3>1. frames' = Append(frames, fr)
      BY <1>3 DEF EnterMessage
    <3>2. fr.end = PostIndex(Next1)
      OBVIOUS
    <3> QED
      BY <3>1, <3>2
  <2>2. /\ pos' \in Nat /\ pos' > pos /\ UNCHANGED input
        /\ fr.end \in Nat /\ fr.end <= End /\ pos' <= fr.end
    BY <2>1, <1>3, <1>0, <1>n, <1>a, <1>p, SMTT(30) DEF EnterMessage, LegalTag, Past
  <2>3. /\ frames' \in Seq(S \cup {fr}) /\ Len(frames') = Len(frames) + 1
        /\ \A i \in 1..Len(frames) : frames'[i] = frames[i]
        /\ frames'[Len(frames')] = fr
    BY <1>s, <2>1, AppendFacts, SMTT(30)
  <2>4. ASSUME NEW i \in 1..Len(frames')
        PROVE  /\ frames'[i].end \in Nat
               /\ pos' <= frames'[i].end /\ frames'[i].end <= Len(input.buf)
               /\ \A j \in 1..i : frames'[i].end <= frames'[j].end
    <3>1. CASE i = Len(frames')
      <4>1. ASSUME NEW j \in 1..i PROVE frames'[i].end <= frames'[j].end
        <5>1. CASE j = Len(frames')
          BY <3>1, <5>1, <2>2, <2>3, SMTT(30)
        <5>2. CASE j # Len(frames')
          <6>1. j \in 1..Len(frames)
            BY <3>1, <5>2, <2>3, <1>0, SMTT(30)
          <6>2. frames[j].end \in Nat /\ End <= frames[j].end
            BY <6>1, <1>0 DEF WireInv, Nested
          <6> QED
            BY <3>1, <6>1, <6>2, <2>2, <2>3, <1>0, SMTT(30)
        <5> QED
          BY <5>1, <5>2
      <4> QED
        BY <3>1, <4>1, <2>2, <2>3, <1>0, SMTT(30) DEF buf, WireInv
    <3>2. CASE i # Len(frames')
      <4>1. i \in 1..Len(frames) /\ \A j \in 1..i : j \in 1..Len(frames)
        BY <3>2, <2>3, <1>0, SMTT(30)
      <4>2. /\ frames[i].end \in Nat /\ frames[i].end <= Len(input.buf) /\ End <= frames[i].end
            /\ \A j \in 1..i : frames[i].end <= frames[j].end
        BY <4>1, <1>0 DEF WireInv, Nested, buf
      <4>3. frames'[i] = frames[i] /\ \A j \in 1..i : frames'[j] = frames[j]
        BY <4>1, <2>3
      <4>4. pos' <= frames[i].end
        BY <4>2, <2>2, <1>0, SMTT(30)
      <4> QED
        BY <4>2, <4>3, <4>4
    <3> QED
      BY <3>1, <3>2
  <2>5. WireInv'
    BY <1>0, <2>2, <2>3, <2>4, SMTT(30) DEF WireInv, Nested, buf
  <2> QED
    BY <2>2, <2>5 DEF Advances
<1>4. CASE EnterPacked
  <2>1. pos' \in Nat /\ pos' <= End /\ pos' > pos /\ UNCHANGED <<input, frames>>
    BY <1>4, <1>0, <1>n, <1>a, <1>p, SMTT(30) DEF EnterPacked, LegalTag, Past
  <2> QED
    BY <1>0, <1>s, <2>1, WithinKeeps, SMTT(30) DEF Advances
<1>5. CASE PackedElement
  <2>1. PICK f, x : frames' = Stored(f, x)
    BY <1>5 DEF PackedElement
  <2>2. pos' \in Nat /\ pos' <= End /\ pos' > pos /\ UNCHANGED input
    BY <1>5, <1>0, <1>n, SMTT(30) DEF PackedElement
  <2> QED
    BY <1>0, <2>1, <2>2, StoredFacts, WithinKeeps, SMTT(30) DEF Advances
<1>6. CASE PackedEnd
  <2>1. UNCHANGED <<input, pos, frames>> /\ mode = "packed" /\ mode' = "field"
    BY <1>6 DEF PackedEnd
  <2> QED
    BY <1>0, <1>s, <2>1, WithinKeeps, SMTT(30) DEF Advances, Rank
<1>7. CASE EnterSkip
  <2>1. UNCHANGED <<input, pos, frames>> /\ mode = "field" /\ mode' = "skip"
    BY <1>7 DEF EnterSkip, AtField
  <2> QED
    BY <1>0, <1>s, <2>1, WithinKeeps, SMTT(30) DEF Advances, Rank
<1>8. CASE SkipElement
  <2>1. PICK t \in SkipTo : pos' = t[2]
    BY <1>8 DEF SkipElement
  <2>2. UNCHANGED <<input, frames>>
    BY <1>8 DEF SkipElement
  <2>3. Next1 <= End /\ t \in SkipTargets /\ t[2] <= End
    BY <2>1, <1>0, <1>n, SMTT(30) DEF SkipTo
  <2>4. t[2] \in Nat /\ t[2] > pos
    BY <2>3, <1>0, <1>n, <1>a, <1>p, SMTT(30) DEF SkipTargets, Past
  <2> QED
    BY <1>0, <1>s, <2>1, <2>2, <2>3, <2>4, WithinKeeps, SMTT(30) DEF Advances
<1>9. CASE Return
  <2>1. UNCHANGED <<input, pos>>
    BY <1>9 DEF Return
  <2>2. CASE Len(frames) = 1
    <3>1. UNCHANGED frames /\ mode' = "done"
      BY <1>9, <2>2 DEF Return
    <3> QED
      BY <1>0, <1>s, <2>1, <3>1, WithinKeeps, SMTT(30) DEF Advances
  <2>3. CASE Len(frames) # 1
    <3> DEFINE caller == Rest[Len(Rest)]
               top == WithMessage(caller, Put(caller.msg, Frame.field, Frame.msg))
               below == SubSeq(Rest, 1, Len(Rest) - 1)
    <3>1. frames' = Append(below, top)
      BY <1>9, <2>3 DEF Return
    <3>2. /\ Rest \in Seq(S) /\ Len(Rest) = Len(frames) - 1
          /\ \A i \in 1..Len(Rest) : Rest[i] = frames[i]
      BY <1>s, <1>0, FrontFacts, SMTT(30) DEF Rest
    <3>3. Len(Rest) >= 1
      BY <3>2, <2>3, <1>0, SMTT(30)
    <3>4. /\ below \in Seq(S) /\ Len(below) = Len(Rest) - 1
          /\ \A i \in 1..Len(below) : below[i] = Rest[i]
      BY <3>2, <3>3, FrontFacts
    <3>5. top.end = Rest[Len(Rest)].end
      BY DEF WithMessage
    <3> HIDE DEF top, below
    <3>6. /\ frames' \in Seq(S \cup {top}) /\ Len(frames') = Len(below) + 1
          /\ \A i \in 1..Len(below) : frames'[i] = below[i]
          /\ frames'[Len(frames')] = top
      BY <3>1, <3>4, AppendFacts, SMTT(30)
    <3>7. Len(frames') = Len(frames) - 1 /\ Len(frames') >= 1
      BY <3>2, <3>3, <3>4, <3>6, <1>0, SMTT(30)
    <3>8. \A i \in 1..Len(frames') : frames'[i].end = frames[i].end
      <4> SUFFICES ASSUME NEW i \in 1..Len(frames') PROVE frames'[i].end = frames[i].end
        OBVIOUS
      <4>1. i \in 1..Len(Rest)
        BY <3>2, <3>7, <1>0
      <4>2. CASE i = Len(frames')
        BY <4>1, <4>2, <3>2, <3>5, <3>6, <3>7
      <4>3. CASE i # Len(frames')
        BY <4>1, <4>3, <3>2, <3>4, <3>6, <3>7, <1>0, SMTT(30)
      <4> QED
        BY <4>2, <4>3
    <3> QED
      BY <1>0, <2>1, <3>6, <3>7, <3>8, WithinKeeps, SMTT(30) DEF Advances
  <2> QED
    BY <2>2, <2>3
<1>10. CASE Fail
  <2>1. UNCHANGED <<input, pos, frames>> /\ mode' = "failed"
    BY <1>10 DEF Fail
  <2> QED
    BY <1>0, <1>s, <2>1, WithinKeeps, SMTT(30) DEF Advances
<1> QED
  BY <1>1, <1>2, <1>3, <1>4, <1>5, <1>6, <1>7, <1>8, <1>9, <1>10 DEF WireNext

-----------------------------------------------------------------------------

LEMMA InitFacts ==
    ASSUME WireInit
    PROVE  WireInv
<1> DEFINE fr == [type |-> input.type, end |-> Len(input.buf), field |-> NoField, msg |-> <<>>]
<1>1. Len(input.buf) \in Nat
  BY WireAssumption, SMTT(30) DEF WireInit
<1>2. frames = <<fr>> /\ pos = 0
  BY DEF WireInit
<1>3. fr.end = Len(input.buf)
  OBVIOUS
<1> HIDE DEF fr
<1>4. frames \in Seq({fr}) /\ Len(frames) = 1 /\ frames[1] = fr
  BY <1>2, SMTT(30)
<1>5. \A i \in 1..Len(frames) : i = 1 /\ \A j \in 1..i : j = 1
  BY <1>4, SMTT(30)
<1>6. /\ frames[1].end \in Nat /\ pos <= frames[1].end
      /\ frames[1].end <= Len(input.buf) /\ frames[1].end <= frames[1].end
  BY <1>1, <1>2, <1>3, <1>4, SMTT(30)
<1>7. \A i \in 1..Len(frames) :
         /\ frames[i].end \in Nat
         /\ pos <= frames[i].end /\ frames[i].end <= Len(input.buf)
         /\ \A j \in 1..i : frames[i].end <= frames[j].end
  BY <1>5, <1>6
<1>8. Len(frames) >= 1 /\ pos \in Nat
  BY <1>2, <1>4, SMTT(30)
<1>9. \E S : frames \in Seq(S)
  BY <1>4
<1> QED
  BY <1>1, <1>7, <1>8, <1>9 DEF WireInv, Nested, buf

\* Nothing of the invariant depends on more than the call, iNdEx and the stack.
LEMMA StutterKeeps ==
    ASSUME WireInv, UNCHANGED wireVars
    PROVE  WireInv'
BY DEF WireInv, Nested, wireVars, buf

\* No input makes a generated Unmarshal read outside the slice of the call it
\* is in: every index stays within the slices, which lie in one another.
THEOREM UnmarshalInBounds == WireSpec => []ReadsInBounds
<1>1. WireInit => WireInv
  BY InitFacts
<1>2. WireInv /\ [WireNext]_wireVars => WireInv'
  BY StepFacts, StutterKeeps
<1>3. WireInv => ReadsInBounds
  BY DEF WireInv, Nested, ReadsInBounds
<1> QED
  BY <1>1, <1>2, <1>3, PTL DEF WireSpec

\* Every iteration of the loop of a generated Unmarshal advances in the order
\* that Advances describes, so it cannot run forever on a finite slice.
THEOREM UnmarshalAdvances == WireSpec => [][Advances]_wireVars
<1>1. WireInit => WireInv
  BY InitFacts
<1>2. WireInv /\ [WireNext]_wireVars => WireInv'
  BY StepFacts, StutterKeeps
<1>3. WireInv /\ [WireNext]_wireVars => [Advances]_wireVars
  BY StepFacts
<1> QED
  BY <1>1, <1>2, <1>3, PTL DEF WireSpec

=============================================================================
