------------------------- MODULE MCValidatorBinding -------------------------
(* Three DIDs and three accounts; the first account is a founder. *)
EXTENDS ValidatorBinding, TLC

CONSTANTS a1, a2, a3

Symmetry == Permutations({a2, a3})
OneFounder == [d \in Dids |-> IF d = 1 THEN a1 ELSE NoAccount]
=============================================================================
