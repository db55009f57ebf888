-------------------------- MODULE MCTokenRefresh ----------------------------
(***************************************************************************)
(* Instances of TokenRefresh for TLC.                                      *)
(***************************************************************************)
EXTENDS TokenRefresh, TLC

CONSTANTS p1, p2, p3

Requests == {p1, p2, p3}

Symmetry == Permutations(Requests)
=============================================================================
