------------------------------ MODULE MCCgroup ------------------------------
(***************************************************************************)
(* An instance of Cgroup: the root, a group below it and a leaf.           *)
(***************************************************************************)
EXTENDS Cgroup

CONSTANTS top, mid, leaf

MCUp == [g \in Groups |-> IF g = top THEN {top} ELSE {g, mid, top}]

\* A launch limits its groups, freezes them, or polls one below a freeze.
MCMenus == {
    {<<"subtree", top>>, <<"subtree", mid>>, <<"max", mid>>, <<"max", leaf>>},
    {<<"freeze", mid>>, <<"freeze", leaf>>},
    {<<"freeze", mid>>, <<"poll", leaf>>}}
=============================================================================
