------------------------------ MODULE FifoTurn ------------------------------
(***************************************************************************)
(* What a turn queue promises its callers: whoever joins is served in the  *)
(* order of joining, one at a time, and keeps the turn until it leaves.    *)
(* Leaving early, from any place in the line, disturbs nobody else.        *)
(***************************************************************************)
EXTENDS Naturals, Sequences

CONSTANT Ops

VARIABLES
    line,       \* those who joined and have not left, in order
    holder      \* those who hold the turn

fvars == <<line, holder>>

Init == line = <<>> /\ holder = {}

Join(op) ==
    /\ \A i \in DOMAIN line : line[i] # op
    /\ line' = Append(line, op)
    /\ UNCHANGED holder

Take ==
    /\ line # <<>>
    /\ holder = {}
    /\ holder' = {line[1]}
    /\ UNCHANGED line

Leave(i) ==
    /\ line' = [j \in 1..(Len(line) - 1) |-> IF j < i THEN line[j] ELSE line[j + 1]]
    /\ holder' = holder \ {line[i]}

\* One participant is replaced by another that was not in the line.
Hand(i, op) ==
    /\ \A j \in DOMAIN line : line[j] # op
    /\ line' = [line EXCEPT ![i] = op]
    /\ holder' = IF line[i] \in holder THEN (holder \ {line[i]}) \cup {op} ELSE holder

Next ==
    \/ \E op \in Ops : Join(op)
    \/ Take
    \/ \E i \in DOMAIN line : Leave(i)
    \/ \E i \in DOMAIN line : \E op \in Ops : Hand(i, op)

Spec == Init /\ [][Next]_fvars
=============================================================================
