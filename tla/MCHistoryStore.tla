--------------------------- MODULE MCHistoryStore ---------------------------
(* Two devices of one user.                                                 *)
EXTENDS HistoryStore
=============================================================================
