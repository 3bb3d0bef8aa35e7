----------------------------- MODULE MCAccount ------------------------------
(* Two users, a few taps.                                                   *)
EXTENDS Account, TLC

Symmetry == Permutations(Attempts) \cup Permutations(Users)
=============================================================================
