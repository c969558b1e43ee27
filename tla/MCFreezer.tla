----------------------------- MODULE MCFreezer -----------------------------
(***************************************************************************)
(* An instance of Freezer: the root and one group that is frozen.          *)
(***************************************************************************)
EXTENDS Freezer

CONSTANTS top, cold

MCUp == [g \in Groups |-> {g, top}]
MCMenus == {{<<"freeze", cold>>}}
=============================================================================
