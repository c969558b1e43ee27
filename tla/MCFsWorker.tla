----------------------------- MODULE MCFsWorker -----------------------------
(* A record of a guest task and a record of a control file. *)
EXTENDS FsWorker
CONSTANTS p, c
MCTogether == {Works}
MCAlone == {{w} : w \in Works}
=============================================================================
