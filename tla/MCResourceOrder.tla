-------------------------- MODULE MCResourceOrder --------------------------
(* Three records, two of them of one loop, on one queue. *)
EXTENDS ResourceOrder, TLC
CONSTANTS a, b, c, l1, l2
MCOwner == (a :> l1) @@ (b :> l2) @@ (c :> l2)
=============================================================================
