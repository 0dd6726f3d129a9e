-------------------------------- MODULE MCIpc -------------------------------
(***************************************************************************)
(* The tasks of the shell's conctest: wa creates the channel, grants it to *)
(* wb and sends, wb receives; wc, who would grant itself anything, gets    *)
(* nothing.  A ring of four slots, indices that wrap at eight.             *)
(***************************************************************************)
EXTENDS Ipc

CONSTANTS wa, wb, wc

Three     == {wa, wb, wc}
MCUid     == [t \in Three |-> IF t = wa THEN "7001" ELSE IF t = wb THEN "7002" ELSE "7003"]
MCSend    == {wa, wc}
MCRecv    == {wb, wc}
MCGrants  == { <<wa, "7002">>, <<wc, "7003">> }
Bits      == {0, 1}
MCMessages == { <<1>>, <<0, 1>>, <<1, 0, 0, 1, 1>> }
MCLens    == {1, 2, 5}
=============================================================================
