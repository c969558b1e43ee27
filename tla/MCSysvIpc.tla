----------------------------- MODULE MCSysvIpc -----------------------------
(* Small instances of SysvIpc for TLC. *)
EXTENDS SysvIpc, TLC

CONSTANTS l1, l2, c1, c2, c3

Op(n, v) == [num |-> n, op |-> v, undo |-> FALSE, nowait |-> FALSE]
UndoOp(n, v) == [Op(n, v) EXCEPT !.undo = TRUE]
Try(n, v) == [Op(n, v) EXCEPT !.nowait = TRUE]
Semop(s) == [kind |-> "semop", ops |-> s]
SetTo(new) == [kind |-> "setval", new |-> new]
Rmid == [kind |-> "rmid"]

Two == {0, 1}
OneSem == {0}

\* Two threads of one launch that share an undo group, one of another.
ShareLaunch == c1 :> l1 @@ c2 :> l1 @@ c3 :> l2
ShareGroup == c1 :> 1 @@ c2 :> 1 @@ c3 :> 2
PairLaunch == c1 :> l1 @@ c3 :> l2
SoleLaunch == c1 :> l1
SoleGroup == c1 :> 1
PairGroup == c1 :> 1 @@ c3 :> 2

Ones == [n \in Two |-> 1]
OneUnit == [n \in OneSem |-> 1]
Zeros == [n \in Two |-> 0]

\* A lock taken with SEM_UNDO, alone and after a token that is not given
\* back, by two threads of one launch; the other launch takes it too, resets
\* it and removes it.
Lock == Semop(<<UndoOp(0, -1)>>)
Both == Semop(<<Op(1, -1), UndoOp(0, -1)>>)
LockRequests == c1 :> {Lock, Both} @@ c2 :> {Lock, SetTo(Ones)}
                @@ c3 :> {Lock, Both, SetTo(0 :> 1), SetTo(Ones), Rmid}

\* Waiting for zero, trying without waiting, posting past the limit.
MixedRequests == c1 :> {Semop(<<Op(0, 0)>>), Semop(<<UndoOp(0, -1)>>), Rmid}
                 @@ c3 :> {Semop(<<Op(0, 0)>>), Semop(<<Op(0, -1)>>), Semop(<<Try(0, -1)>>),
                           Semop(<<Op(0, 1)>>)}

\* A vector that makes progress on its first element and blocks on its second.
PartialRequests == c1 :> {Semop(<<Op(0, 1), Op(1, -1)>>)}
=============================================================================
