------------------------------ MODULE ByteFifo ------------------------------
(***************************************************************************)
(* What a channel of src/kernel/src/ipc/mod.rs promises its one sender and *)
(* its one receiver: bytes come out in the order in which they went in,    *)
(* each once and unchanged, at most Capacity of them waiting.  A call may  *)
(* transfer fewer bytes than it was asked to.                              *)
(***************************************************************************)
EXTENDS Integers, Sequences

CONSTANTS Byte, Capacity

VARIABLES
    waiting,    \* bytes sent and not received
    given,      \* what the last send accepted
    taken       \* what the last receive returned

vars == <<waiting, given, taken>>

Init == waiting = << >> /\ given = << >> /\ taken = << >>

Put(s) ==
    /\ Len(waiting) + Len(s) <= Capacity
    /\ waiting' = waiting \o s
    /\ given' = s
    /\ UNCHANGED taken

Get(n) ==
    /\ taken' = SubSeq(waiting, 1, n)
    /\ waiting' = SubSeq(waiting, n + 1, Len(waiting))
    /\ UNCHANGED given

Strings == UNION { [1 .. n -> Byte] : n \in 0 .. Capacity }

Next == \/ \E s \in Strings : Put(s)
        \/ \E n \in 0 .. Len(waiting) : Get(n)

Spec == Init /\ [][Next]_vars
=============================================================================
