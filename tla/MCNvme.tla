------------------------------ MODULE MCNvme ------------------------------
(***************************************************************************)
(* An instance of Nvme: one block and one beyond the end, queues of two    *)
(* entries, so that both wrap.                                             *)
(***************************************************************************)
EXTENDS Nvme, TLC

MCAsks == { << <<"read">>, 0 >>, << <<"identify", "write">>, 1 >>, << <<"identify", "read">>, 2 >> }

MCDepth == (0 :> 2) @@ (1 :> 2)
=============================================================================
