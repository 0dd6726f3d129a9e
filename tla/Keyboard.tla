------------------------------ MODULE Keyboard ------------------------------
(***************************************************************************)
(* The scancode ring of src/kernel/src/drivers/keyboard.rs.  IRQ1 writes   *)
(* it (handle_irq), a thread reads it (read_scancode), without a lock: the *)
(* interrupt may come between any two accesses of the reader.  The statics *)
(* are plain memory, so the compiler may order the reader's load of the    *)
(* byte and its store of the index either way; both orders are here.       *)
(***************************************************************************)
EXTENDS Integers, Sequences

CONSTANTS
    Scancode,
    Size            \* slots; 256 in the code, where indices are bytes

VARIABLES
    KEYBUF, HEAD, TAIL,
    reader,         \* where read_scancode stands, and what it holds
    given, taken    \* what the last interrupt stored, the last call returned

vars == <<KEYBUF, HEAD, TAIL, reader, given, taken>>

Slot    == 0 .. Size - 1
Succ(i) == (i + 1) % Size

Outside == [at |-> "out", slot |-> 0, sc |-> << >>]

Init ==
    /\ KEYBUF \in [Slot -> {CHOOSE k \in Scancode : TRUE}]
    /\ HEAD = 0 /\ TAIL = 0
    /\ reader = Outside
    /\ given = << >> /\ taken = << >>

\* mutant: the slot that tells full from empty is used too
handle_irq_Full(sc) ==
    /\ KEYBUF' = [KEYBUF EXCEPT ![HEAD] = sc]
    /\ HEAD' = Succ(HEAD)
    /\ given' = <<sc>>
    /\ UNCHANGED <<TAIL, reader, taken>>

(* A key; dropped when the ring is full.                                   *)
handle_irq(sc) ==
    /\ IF Succ(HEAD) # TAIL
       THEN /\ KEYBUF' = [KEYBUF EXCEPT ![HEAD] = sc]
            /\ HEAD' = Succ(HEAD)
            /\ given' = <<sc>>
       ELSE given' = << >> /\ UNCHANGED <<KEYBUF, HEAD>>
    /\ UNCHANGED <<TAIL, reader, taken>>

(* read_scancode: the test, then the byte and the index in either order.   *)
ReadNone ==
    /\ reader.at = "out" /\ HEAD = TAIL
    /\ taken' = << >>
    /\ UNCHANGED <<KEYBUF, HEAD, TAIL, reader, given>>

ReadBegin ==
    /\ reader.at = "out" /\ HEAD # TAIL
    /\ reader' = [at |-> "in", slot |-> TAIL, sc |-> << >>]
    /\ UNCHANGED <<KEYBUF, HEAD, TAIL, given, taken>>

(* The byte first: the call returns once the index is stored.              *)
ReadByte ==
    /\ reader.at = "in"
    /\ reader' = [reader EXCEPT !.at = "byte", !.sc = <<KEYBUF[reader.slot]>>]
    /\ UNCHANGED <<KEYBUF, HEAD, TAIL, given, taken>>

ReadAdvance ==
    /\ reader.at = "byte"
    /\ TAIL' = Succ(reader.slot)
    /\ reader' = Outside
    /\ taken' = reader.sc
    /\ UNCHANGED <<KEYBUF, HEAD, given>>

(* The index first: the byte is read from a slot that is free already.     *)
ReadAdvanceFirst ==
    /\ reader.at = "in"
    /\ TAIL' = Succ(reader.slot)
    /\ reader' = [reader EXCEPT !.at = "late"]
    /\ taken' = <<KEYBUF[reader.slot]>>
    /\ UNCHANGED <<KEYBUF, HEAD, given>>

ReadByteLate ==
    /\ reader.at = "late"
    /\ reader' = Outside
    /\ taken' = <<KEYBUF[reader.slot]>>
    /\ UNCHANGED <<KEYBUF, HEAD, TAIL, given>>

Next ==
    \/ \E sc \in Scancode : handle_irq(sc)
    \/ ReadNone \/ ReadBegin \/ ReadByte \/ ReadAdvance
    \/ ReadAdvanceFirst \/ ReadByteLate

-----------------------------------------------------------------------------
(* Properties.                                                             *)

Fill   == (HEAD - TAIL + Size) % Size
Stored == [i \in 1 .. Fill |-> KEYBUF[(TAIL + i - 1) % Size]]

(* The ring is a queue of Size - 1 keys (keyboard.rs): what is not dropped *)
(* comes out once, in order, whatever the interrupt does to a reader that  *)
(* is half way, and whichever way the reader's accesses were ordered: a    *)
(* byte that is read late is still the one the index left behind.          *)
Queue == INSTANCE ByteFifo WITH
           Byte <- Scancode, Capacity <- Size - 1,
           waiting <- Stored, given <- given, taken <- taken
KeysInOrder == Queue!Spec
=============================================================================
