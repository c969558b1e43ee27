--------------------------- MODULE MCTaskQuiesce ---------------------------
(* Small instances of TaskQuiesce for TLC. *)
EXTENDS TaskQuiesce
CONSTANTS t1, t2, t3
=============================================================================
