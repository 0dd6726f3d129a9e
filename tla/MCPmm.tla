------------------------------- MODULE MCPmm -------------------------------
(***************************************************************************)
(* Instances of Pmm: pages of two bytes, 1 MiB and the end of the kernel   *)
(* image at pages 2 and 4.                                                 *)
(***************************************************************************)
EXTENDS Pmm

Entry(b, l) == [base |-> b, len |-> l]

(* A region below 1 MiB; one the kernel image overlaps, at an odd address;  *)
(* an entry too small for a page; a region after a hole; one more than the  *)
(* region table of 3 holds.                                                 *)
MapLow    == << Entry(1, 3), Entry(5, 9), Entry(15, 1), Entry(17, 6), Entry(30, 4) >>
(* One region, all above the kernel.                                        *)
MapFlat   == << Entry(10, 12) >>
(* Regions that no stack and then one stack fits in.                        *)
MapPieces == << Entry(8, 6), Entry(16, 2), Entry(20, 4) >>

MCGoodMaps  == { MapLow, MapFlat, MapPieces }
MCSizes     == {2}
=============================================================================
