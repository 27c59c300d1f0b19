--------------------------- MODULE MCCounterPrune ---------------------------
(* A small instance of module CounterPrune: two institutions whose counters
   of three days and one emergency counter each interleave in store order. *)
EXTENDS CounterPrune

RingDays == <<0, 1, 2, Live, 0, 1, Live, 2>>
RingTotals == <<0, 0, 1, 2>>
=============================================================================
