-------------------------- MODULE MCNetworkService --------------------------
(* Bounded instance of NetworkService for TLC.                             *)
EXTENDS NetworkRefinement, TLC

\* Calls of load are interchangeable: only safety runs may use this.
LoadSymmetry == Permutations(Loads)
=============================================================================
