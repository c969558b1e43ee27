--------------------------- MODULE MCPublication ---------------------------
(* Small instances of Publication for TLC. *)
EXTENDS Publication
CONSTANTS p, q, i, f, g
=============================================================================
