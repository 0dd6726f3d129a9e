---------------------------- MODULE MCTaskMemory ----------------------------
(***************************************************************************)
(* Instances of TaskMemory: hello, laid out like HELLO_ELF (three segments *)
(* in pages of their own, across a boundary between two tables), and a     *)
(* program with a segment that starts within a page, spans two and ends in *)
(* zeros.                                                                  *)
(***************************************************************************)
EXTENDS TaskMemory

MCHello == << Segment(6, <<1>>, 1, FALSE, FALSE),
              Segment(8, <<2, 3>>, 2, FALSE, TRUE),
              Segment(10, <<4>>, 1, FALSE, FALSE) >>

MCData == << Segment(8, <<2>>, 1, FALSE, TRUE),
             Segment(11, <<5, 6>>, 3, TRUE, FALSE) >>

MCPrograms == {MCHello, MCData}
=============================================================================
