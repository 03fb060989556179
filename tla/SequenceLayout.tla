--------------------------- MODULE SequenceLayout ---------------------------
(***************************************************************************)
(* How sequence parallelism lays a packed row of sequences out over a mesh *)
(* of mesh.rp x mesh.sp processes, and how results are put back together:  *)
(* sequence_parallel/ulysses.py, and what grpo_trainer.py makes of it.     *)
(* Ranks and cumulative lengths count from 0, as in the code.              *)
(***************************************************************************)
EXTENDS Integers, Sequences, SequencesExt, FiniteSetsExt

Total(counts) == FoldLeft(LAMBDA m, n : m + n, 0, counts)

CeilTo(n, unit) == ((n + unit - 1) \div unit) * unit

(* x[indices], in the order of x.                                          *)
Select(x, indices) ==
    LET order == SelectSeq([i \in 1..Len(x) |-> i], LAMBDA i : i \in indices)
    IN  [n \in 1..Len(order) |-> x[order[n]]]

(* torch.chunk, for a length that n divides: the piece of rank r.          *)
Chunk(x, n, r) ==
    LET size == Len(x) \div n IN SubSeq(x, r * size + 1, (r + 1) * size)

(* torch.roll(x, shifts=-1).                                               *)
RollBack(x) == [i \in 1..Len(x) |-> x[(i % Len(x)) + 1]]

-----------------------------------------------------------------------------
get_cu_seqlens_from_position_ids(position_ids) ==
    Append(Select([i \in 1..Len(position_ids) |-> i - 1],
                  {i \in 1..Len(position_ids) : position_ids[i] = 0}),
           Len(position_ids))

(* The pieces of x between the boundaries cu.                              *)
Pieces(x, cu) == [n \in 1..(Len(cu) - 1) |-> SubSeq(x, cu[n] + 1, cu[n + 1])]

(* The number of the piece that index i belongs to.                        *)
PieceOf(i, cu) == CHOOSE n \in 1..(Len(cu) - 1) : cu[n] < i /\ i <= cu[n + 1]

do_pad(x, padding_value, unit) ==
    x \o [i \in 1..(CeilTo(Len(x), unit) - Len(x)) |-> padding_value]

(* SequenceParallel.pad: with a ring every sequence is padded, else the    *)
(* whole row.                                                              *)
pad(mesh, x, padding_value, position_ids) ==
    IF mesh.rp > 1
    THEN LET unit   == 2 * mesh.rp * mesh.sp
             pieces == Pieces(x, get_cu_seqlens_from_position_ids(position_ids))
         IN  FlattenSeq([n \in 1..Len(pieces) |-> do_pad(pieces[n], padding_value, unit)])
    ELSE do_pad(x, padding_value, mesh.sp)

(* _split_packed: of each sequence, cut into 2 * rp chunks, chunk rp_rank  *)
(* from the front and chunk rp_rank from the back.                         *)
split_packed(mesh, x, cu, rp_rank) ==
    LET pieces == Pieces(x, cu)
    IN  FlattenSeq([n \in 1..Len(pieces) |->
            Chunk(pieces[n], 2 * mesh.rp, rp_rank)
              \o Chunk(pieces[n], 2 * mesh.rp, 2 * mesh.rp - 1 - rp_rank)])

(* SequenceParallel.split: what process (rp_rank, sp_rank) keeps of x.     *)
split(mesh, x, position_ids, rp_rank, sp_rank) ==
    IF mesh.rp > 1
    THEN Chunk(split_packed(mesh, x, get_cu_seqlens_from_position_ids(position_ids), rp_rank),
               mesh.sp, sp_rank)
    ELSE Chunk(x, mesh.sp, sp_rank)

(* The pieces of the processes of one ring rank, one after the other: what *)
(* all_gather over sp_group concatenates, and the sequence that            *)
(* single_all_to_all leaves on each of them (for its share of the heads).  *)
ring_chunk(mesh, local, rp_rank) ==
    FlattenSeq([s \in 1..mesh.sp |-> local[<<rp_rank, s - 1>>]])

(* The places gather writes half a sequence of a ring rank to: left is the *)
(* end of what lies before it in the full row, from in the rank's chunk.   *)
GatherWrites(mesh, cu) ==
    UNION {LET chunk_size  == (cu[n + 1] - cu[n]) \div (2 * mesh.rp)
               accumulated == cu[n] \div mesh.rp
           IN  {[rank |-> r, left |-> accumulated * mesh.rp + r * chunk_size,
                 from |-> accumulated, size |-> chunk_size],
                [rank |-> r,
                 left |-> accumulated * mesh.rp + (2 * mesh.rp - r - 1) * chunk_size,
                 from |-> accumulated + chunk_size, size |-> chunk_size]}
           : n \in 1..(Len(cu) - 1), r \in 0..(mesh.rp - 1)}

(* SequenceParallel.gather, of what every process has.                     *)
gather(mesh, local, position_ids) ==
    LET cu     == get_cu_seqlens_from_position_ids(position_ids)
        writes == GatherWrites(mesh, cu)
        At(i)  == CHOOSE w \in writes : w.left < i /\ i <= w.left + w.size
    IN  IF mesh.rp > 1
        THEN [i \in 1..cu[Len(cu)] |->
                ring_chunk(mesh, local, At(i).rank)[At(i).from + i - At(i).left]]
        ELSE ring_chunk(mesh, local, 0)

-----------------------------------------------------------------------------
(* get_half_index: of every sequence of a ring rank, its front or back     *)
(* half.                                                                   *)
get_half_index(cu, front) ==
    {i \in 1..cu[Len(cu)] :
        LET n == PieceOf(i, cu)
        IN  front <=> i <= (cu[n] + cu[n + 1]) \div 2}

-----------------------------------------------------------------------------
(* _get_logps_via_sp under padding_free: of each sequence the results of   *)
(* the last seq_lengths[i] tokens, each found at the token before it.      *)
logps_via_sp(mesh, gathered, position_ids, seq_lengths) ==
    LET cu_orig   == get_cu_seqlens_from_position_ids(position_ids)
        cu_padded == get_cu_seqlens_from_position_ids(pad(mesh, position_ids, -1, position_ids))
        keep      == Total(seq_lengths)
        Slice(i)  == LET end == cu_padded[i] + cu_orig[i + 1] - cu_orig[i] - 1
                     IN  SubSeq(gathered, end - seq_lengths[i] + 1, end)
    IN  IF mesh.rp > 1
        THEN FlattenSeq([i \in 1..Len(seq_lengths) |-> Slice(i)])
        ELSE SubSeq(gathered, Len(position_ids) - keep, Len(position_ids) - 1)

(* pad_logps_back_to_batch: a row for each sequence, filled from the right.*)
pad_logps_back_to_batch(flat, logits_to_keep, seq_lengths, pad_value) ==
    LET start(i) == Total(SubSeq(seq_lengths, 1, i - 1))
        data(i)  == SubSeq(flat, start(i) + 1,
                           Min({start(i) + seq_lengths[i], Len(flat)}))
    IN  [i \in 1..Len(seq_lengths) |->
            [c \in 1..(logits_to_keep - Len(data(i))) |-> pad_value] \o data(i)]
=============================================================================
