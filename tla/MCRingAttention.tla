-------------------------- MODULE MCRingAttention --------------------------
(***************************************************************************)
(* Meshes and packed rows for RingAttention.  Lengths below, at and above  *)
(* a multiple of the padding unit, a sequence shorter than the ring, one   *)
(* sequence and several.                                                   *)
(***************************************************************************)
EXTENDS RingAttention

Training(rp, sp, lengths, prompts, npu) ==
    [rp |-> rp, sp |-> sp, lengths |-> lengths, prompts |-> prompts, npu |-> npu]

MCArgs == {
    Training(1, 2, <<2, 3>>, <<1, 1>>, FALSE),       \* Ulysses only
    Training(2, 1, <<3, 4, 1>>, <<1, 2, 1>>, FALSE), \* ring only
    Training(2, 1, <<8, 3>>, <<2, 1>>, TRUE),
    Training(2, 2, <<5, 8>>, <<1, 3>>, FALSE),       \* both
    Training(3, 1, <<7>>, <<2>>, FALSE),
    Training(3, 1, <<2, 6>>, <<1, 1>>, FALSE),
    Training(3, 1, <<4, 7>>, <<3, 1>>, TRUE),
    Training(4, 1, <<5>>, <<1>>, FALSE)}

MCRing == {Training(2, 1, <<3, 4>>, <<1, 2>>, FALSE)}
=============================================================================
