-------------------------- MODULE NetworkRefinement --------------------------
(***************************************************************************)
(* NetworkService implements LoadContract.  A call waits from the moment   *)
(* it passed its guard until its completion has run or it is dropped; the  *)
(* cache, the fetches and the main queue are what the contract leaves out. *)
(***************************************************************************)
EXTENDS NetworkService

Status ==
  [l \in Loads |->
     IF phase[l] \in {"idle", "completed", "failed", "dropped"} THEN phase[l] ELSE "waiting"]

Contract == INSTANCE LoadContract WITH status <- Status, dead <- trapped

ContractSpec == Contract!Spec

\* Whatever the cache, the session's queue and the main queue do, all that a
\* screen sees of load is what LoadContract allows, and every call ends as it
\* promises: the loader implements its contract, fairness included.
ImplementsContract == Contract!FairSpec
=============================================================================
