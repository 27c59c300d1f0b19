---------------------------- MODULE CounterPrune ----------------------------
(***************************************************************************)
(* PruneStaleCounters of x/institutions: past-day cap counters are deleted *)
(* in the begin-blocker, a bounded number of store keys per block.  The    *)
(* counters are walked as a ring with a stored cursor, the redeem totals   *)
(* from the oldest day on.  Module Vaults prunes without a budget.         *)
(***************************************************************************)
EXTENDS Integers, FiniteSets, FiniteSetsExt

CONSTANTS
    Day,        \* the day of each counter key, in store order; Live for a
                \* kind that is never pruned ("er", keyed by a start time)
    Live,
    TotalDay,   \* the day of each redeem-total key, in store order
    Budget,     \* CounterPruneBudget
    Retention,  \* CounterRetentionDays
    MaxDay      \* bound on days

Keys == DOMAIN Day
TotalKeys == DOMAIN TotalDay

ASSUME BudgetIsPositive == Budget \in Nat \ {0} /\ Retention \in Nat
ASSUME TotalsByDay == \A j, k \in TotalKeys : j < k => TotalDay[j] <= TotalDay[k]

VARIABLES
    today,
    present,  \* counter keys in the store
    totals,   \* redeem-total keys in the store
    cursor    \* the last key examined, 0 for none
pruneVars == <<today, present, totals, cursor>>

\* addCounterTotal, addCounterUser, addRedeemSubjectTotal: a transaction of
\* today writes a counter of today, or an emergency counter.
Count(k) ==
    /\ Day[k] \in {today, Live}
    /\ present' = present \cup {k}
    /\ UNCHANGED <<today, totals, cursor>>

CountTotal(k) ==
    /\ TotalDay[k] = today
    /\ totals' = totals \cup {k}
    /\ UNCHANGED <<today, present, cursor>>

\* The first n of a set of keys, in store order.
First(n, S) == {k \in S : Cardinality({j \in S : j < k}) < n}

\* staleBefore, the day from which counters are kept.
StaleBefore(d) == d - Retention

\* Faulty NextCursor: the end of the ring is remembered.
NextCursorStuck(examined, rest) == IF examined = {} THEN cursor ELSE Max(examined)

\* The cursor after a block; deleted when the ring is complete.
NextCursor(examined, rest) == IF examined = {} \/ rest = {} THEN 0 ELSE Max(examined)

\* PruneStaleCounters on day d.
BeginBlock(d) ==
    LET before == StaleBefore(d)
        ahead == {k \in present : k > cursor}
        examined == First(Budget, ahead)
    IN  /\ today' = d
        /\ IF before <= 0 THEN UNCHANGED <<present, totals, cursor>>
           ELSE /\ totals' = totals \ First(Budget, {k \in totals : TotalDay[k] < before})
                /\ present' = present \ {k \in examined : Day[k] # Live /\ Day[k] < before}
                /\ cursor' = NextCursor(examined, ahead \ examined)

PruneInit == today = 0 /\ present = {} /\ totals = {} /\ cursor = 0

Block == \E d \in {today, today + 1} : d <= MaxDay /\ BeginBlock(d)

PruneNext ==
    \/ \E k \in Keys : Count(k)
    \/ \E k \in TotalKeys : CountTotal(k)
    \/ Block

\* Blocks keep coming.
PruneSpec == PruneInit /\ [][PruneNext]_pruneVars /\ WF_pruneVars(Block)

-----------------------------------------------------------------------------

\* Every counter whose day is past its retention is deleted, although each
\* block examines only a budget's worth of keys, counters behind the cursor
\* keep appearing and emergency counters are never removed from the ring.
StaleCountersGo ==
    /\ \A k \in Keys : [](k \in present /\ Day[k] # Live /\ Day[k] < StaleBefore(today)
                            => <>(k \notin present))
    /\ \A k \in TotalKeys : [](k \in totals /\ TotalDay[k] < StaleBefore(today)
                                 => <>(k \notin totals))
=============================================================================
