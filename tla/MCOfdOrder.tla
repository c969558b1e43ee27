----------------------------- MODULE MCOfdOrder -----------------------------
(* Instances of OfdOrder for TLC. *)
EXTENDS OfdOrder

CONSTANTS o1, o2, o3, d1, d2, x1, x2, x3

\* Requests are interchangeable, and so are descriptions: one menu of each
\* kind is enough, the one with its calls in this order and o1 on d1.
Rank(c) ==
    (CASE c.path = "broker" -> 0 [] c.path = "mapped" -> 1 [] c.path = "rpc" -> 3)
      + (IF c.kind = "read" THEN 0 ELSE 1) + (IF c.file = d1 THEN 0 ELSE 5)
Triples ==
    {m \in [Ops -> Calls] : /\ m[o1].file = d1
                            /\ Rank(m[o1]) <= Rank(m[o2]) /\ Rank(m[o2]) <= Rank(m[o3])}
Pairs == [Ops -> Calls]
=============================================================================
