----------------------------- MODULE MCCoinAge -----------------------------
(* Two holders; the bound on a queue is two or three lots. *)
EXTENDS CoinAge

CONSTANTS h1, h2

Symmetry == Permutations({h1, h2})
Params(max, thr) == [maxLots |-> max, threshold |-> thr]
BothBounds == {Params(2, 3), Params(3, 2)}
OneHeld == [h \in Holders |-> 1]
=============================================================================
