-------------------------------- MODULE MCVfs -------------------------------
(***************************************************************************)
(* Instances of Vfs: the shell, which changes its identity, and a worker.  *)
(***************************************************************************)
EXTENDS Vfs

CONSTANTS kshell, worker

Root     == [uid |-> 0, gid |-> 0]
Wheel    == [uid |-> 1000, gid |-> 0]
Somebody == [uid |-> 7001, gid |-> 7001]

MCTasks  == {kshell, worker}
MCUsers  == {Root, Wheel, Somebody}
MCStart  == [t \in MCTasks |-> IF t = kshell THEN Root ELSE Somebody]
Bits     == {0, 1}
MCChunks == { <<1>>, <<1, 0>> }
MCLens   == {1, 2}
MCShells == {kshell}
MCFlags  == { {"r"}, {"w"}, {"r", "w"} }
=============================================================================
