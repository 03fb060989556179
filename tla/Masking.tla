------------------------------- MODULE Masking -------------------------------
(***************************************************************************)
(* A list filtered by a mask of its length: the tokens with loss of a      *)
(* dialogue (MultiTurn), the dialogues that go on (ColocateRollout).       *)
(***************************************************************************)
EXTENDS Integers, Sequences

(* The items at the places of mask 1, in their order.                      *)
Masked(items, mask) ==
    LET upto[i \in 0..Len(items)] ==
          IF i = 0 THEN <<>>
          ELSE IF mask[i] = 1 THEN Append(upto[i - 1], items[i]) ELSE upto[i - 1]
    IN  upto[Len(items)]
=============================================================================
