---------------------------- MODULE MCEnrolment ----------------------------
(* Three keys, two humans, one issuer with two keys, two nonces. *)
EXTENDS Enrolment, TLC

CONSTANTS k1, k2, k3, m1, m2

EnrolSymmetry == Permutations({k1, k2, k3}) \cup Permutations({m1, m2})
=============================================================================
