------------------------------- MODULE Lists --------------------------------
(***************************************************************************)
(* What Vec::retain and Iterator::filter leave of a list: the elements at  *)
(* the positions that are kept, in order.                                  *)
(***************************************************************************)
EXTENDS Integers, Sequences

Kept(s, where) ==
    LET upTo[n \in 0 .. Len(s)] ==
            IF n = 0 THEN << >>
            ELSE IF n \in where THEN Append(upTo[n - 1], s[n]) ELSE upTo[n - 1]
    IN  upTo[Len(s)]
=============================================================================
