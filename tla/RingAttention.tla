---------------------------- MODULE RingAttention ----------------------------
(***************************************************************************)
(* One attention layer, forward and backward, of a packed row that is      *)
(* spread over a ring of processes (sequence_parallel/zigzag_ring_attn.py, *)
(* zigzag_ring_attn_npu.py, RingComm in utils.py).  Keys travel round the  *)
(* ring, each process attends to what it holds, and in the backward pass   *)
(* the gradients of the keys travel after them, until they are home.       *)
(*                                                                         *)
(* A tensor is what it is made of.  A row of the padded, packed input is   *)
(* its number; keys (with their values) are the rows they belong to; an    *)
(* output row is the list of the keys that have entered it; a gradient row *)
(* the list of the rows that have contributed; a logsumexp row the list of *)
(* the steps merged in it.  One ring stands for the mesh.sp rings of a     *)
(* mesh: each has the same rows and other heads.                           *)
(***************************************************************************)
EXTENDS SequenceLayout

CONSTANT
    Args    \* [rp, sp : sizes of the mesh, lengths, prompts : of the packed
            \*  sequences and of the part of each without loss, npu : BOOLEAN]

VARIABLES
    args,       \* chosen once
    layout,     \* the layout that follows from args
    pc, step,   \* where each process is, and in which turn of its loop
    k, next_k,  \* the keys it holds, and the ones it receives
    sends,      \* its posted sends and receives, by communicator, oldest
    recvs,      \*   first
    out,        \* the accumulated output (fout of the backward pass, too)
    flse,       \* the accumulated lse
    shared,     \* whether flse is a view of the block_lse of step 0
    saved,      \* out_lse: the block_lse of each step
    dq, dk, next_dk, dk_buffer

layerVars == <<pc, step, out>>
commVars  == <<k, next_k, sends, recvs>>
statVars  == <<flse, shared, saved>>
gradVars  == <<dq, dk, next_dk, dk_buffer>>
vars      == <<args, layout, layerVars, commVars, statVars, gradVars>>

World == args.rp
Ranks == 0..(World - 1)

-----------------------------------------------------------------------------
(* The inputs, for every choice of args.                                   *)

PositionIds(a) == FlattenSeq([n \in 1..Len(a.lengths) |-> [i \in 1..a.lengths[n] |-> i - 1]])

PaddedPositionIds(a) == pad(a, PositionIds(a), -1, PositionIds(a))

Mesh(a) == (0..(a.rp - 1)) \X (0..(a.sp - 1))

(* What each process of the mesh keeps of a row that is padded already.    *)
Split(a, x) == [p \in Mesh(a) |-> split(a, x, PaddedPositionIds(a), p[1], p[2])]

(* cu_seqlens of the ring: the boundaries in the padded row, divided by    *)
(* the size of the ring, are those in the part of one process.  Queries:   *)
(* the rows of each ring rank after the all-to-all.                        *)
Layout(a) ==
    LET full == get_cu_seqlens_from_position_ids(PaddedPositionIds(a))
        cu   == [n \in 1..Len(full) |-> full[n] \div a.rp]
        rows == Split(a, [i \in 1..full[Len(full)] |-> i])
    IN  [full_cu_seqlens |-> full, cu_seqlens |-> cu,
         half_cu_seqlens |-> [n \in 1..Len(cu) |-> cu[n] \div 2],
         queries |-> [r \in 0..(a.rp - 1) |-> ring_chunk(a, rows, r)],
         half_index0 |-> get_half_index(cu, TRUE),
         half_index1 |-> get_half_index(cu, FALSE)]

cu_seqlens      == layout.cu_seqlens
half_cu_seqlens == layout.half_cu_seqlens
half_index0     == layout.half_index0
half_index1     == layout.half_index1
Queries(r)      == layout.queries[r]

Local == 1..Len(Queries(0))
block_seq_len == Len(Queries(0)) \div 2

-----------------------------------------------------------------------------
(* The blocks of attention.                                                *)

(* The varlen kernel (external): for every query the keys of its sequence; *)
(* causal, those up to its own place.                                      *)
Attend(q, keys, causal) ==
    LET cu_q == IF Len(q) = block_seq_len THEN half_cu_seqlens ELSE cu_seqlens
        cu_k == IF Len(keys) = block_seq_len THEN half_cu_seqlens ELSE cu_seqlens
    IN  [i \in 1..Len(q) |->
            LET n == PieceOf(i, cu_q)
            IN  SubSeq(keys, cu_k[n] + 1,
                       IF causal THEN cu_k[n] + i - cu_q[n] ELSE cu_k[n + 1])]

(* Variant: the process next to the owner of the keys takes all of them.   *)
BlockLate(r) == IF step[r] = 0 THEN "all" ELSE IF step[r] < r THEN "front" ELSE "back"

(* Which part of queries and keys meets in this turn.                      *)
Block(r) == IF step[r] = 0 THEN "all" ELSE IF step[r] <= r THEN "front" ELSE "back"

BlockQueries(r) == IF Block(r) = "back" THEN Select(Queries(r), half_index1) ELSE Queries(r)
BlockKeys(r)    == IF Block(r) = "front" THEN Select(k[r], half_index0) ELSE k[r]
BlockOut(r)     == Attend(BlockQueries(r), BlockKeys(r), Block(r) = "all")

(* The place of local index i among the indices S.                         *)
Place(i, S) == Cardinality({j \in S : j <= i})

(* x[S] += y for lists: y has an entry for every index in S.               *)
AddAt(x, S, y) == [i \in DOMAIN x |-> IF i \in S THEN x[i] \o y[Place(i, S)] ELSE x[i]]

QueryIndex(r) == IF Block(r) = "back" THEN half_index1 ELSE Local
KeyIndex(r)   == IF Block(r) = "front" THEN half_index0 ELSE Local

(* update_out_and_lse.                                                     *)
NewOut(r) == IF step[r] = 0 THEN BlockOut(r) ELSE AddAt(out[r], QueryIndex(r), BlockOut(r))

-----------------------------------------------------------------------------
(* RingComm: send_recv_kv posts a send to the next process and a receive   *)
(* from the previous one; they meet in the order in which they are posted. *)

Next1(r) == (r + 1) % World

Post(r, comm) ==
    /\ sends' = [sends EXCEPT ![r] = Append(@, comm)]
    /\ recvs' = [recvs EXCEPT ![r] = Append(@, comm)]

(* RingComm.wait returns.                                                  *)
Completed(r, comm) == comm \notin Range(sends[r]) /\ comm \notin Range(recvs[r])

(* The library moves what a posted send refers to, as it is now, to where  *)
(* the matching receive points.                                            *)
Transfer(r) ==
    LET to    == Next1(r)
        value == IF Head(sends[r]) = "kv" THEN k[r] ELSE dk[r]
    IN  /\ sends[r] # <<>> /\ recvs[to] # <<>>
        /\ sends' = [sends EXCEPT ![r] = Tail(@)]
        /\ recvs' = [recvs EXCEPT ![to] = Tail(@)]
        /\ IF Head(recvs[to]) = "kv"
           THEN next_k' = [next_k EXCEPT ![to] = value] /\ UNCHANGED next_dk
           ELSE next_dk' = [next_dk EXCEPT ![to] = value] /\ UNCHANGED next_k
        /\ UNCHANGED <<args, layout, layerVars, k, statVars, dq, dk, dk_buffer>>

LastStep(r) == step[r] + 1 = World

(* Variant: the keys are passed on only by those that had a use for all.   *)
PostKeysUsed(r) ==
    IF LastStep(r) \/ Block(r) = "front" THEN UNCHANGED <<sends, recvs>> ELSE Post(r, "kv")

(* The keys are passed on, but for the last turn.                          *)
PostKeys(r) == IF LastStep(r) THEN UNCHANGED <<sends, recvs>> ELSE Post(r, "kv")

(* kv_comm.wait() and the exchange of the keys, but for the last turn.     *)
TakeKeys(r) ==
    /\ LastStep(r) \/ Completed(r, "kv")
    /\ k' = IF LastStep(r) THEN k ELSE [k EXCEPT ![r] = next_k[r]]

-----------------------------------------------------------------------------
Init ==
    /\ args \in Args /\ layout = Layout(args)
    /\ pc = [r \in Ranks |-> "forward"] /\ step = [r \in Ranks |-> 0]
    /\ k = [r \in Ranks |-> Queries(r)] /\ next_k = [r \in Ranks |-> <<>>]
    /\ sends = [r \in Ranks |-> <<>>] /\ recvs = [r \in Ranks |-> <<>>]
    /\ out = [r \in Ranks |-> <<>>]
    /\ flse = [r \in Ranks |-> <<>>] /\ shared = [r \in Ranks |-> FALSE]
    /\ saved = [r \in Ranks |-> <<>>]
    /\ dq = [r \in Ranks |-> <<>>] /\ dk = [r \in Ranks |-> <<>>]
    /\ next_dk = [r \in Ranks |-> <<>>]
    /\ dk_buffer = [r \in Ranks |-> [i \in Local |-> <<0>>]]

(* A turn of zigzag_ring_flash_attn_varlen_forward.                        *)
Forward(r) ==
    /\ pc[r] = "forward"
    /\ PostKeys(r)
    /\ out' = [out EXCEPT ![r] = NewOut(r)]
    /\ pc' = [pc EXCEPT ![r] = "forward_wait"]
    /\ UNCHANGED <<args, layout, step, k, next_k, statVars, gradVars>>

(* Its end; the backward pass comes with the gradient of the output, after *)
(* all processes have gathered the loss, and starts with the own keys.     *)
(* Without a ring the kernel's own backward pass follows.                  *)
ForwardWait(r) ==
    /\ pc[r] = "forward_wait"
    /\ LastStep(r) \/ Completed(r, "kv")
    /\ IF LastStep(r)
       THEN /\ pc' = [pc EXCEPT ![r] = "gathered"]
            /\ step' = [step EXCEPT ![r] = 0]
            /\ k' = [k EXCEPT ![r] = Queries(r)]
       ELSE /\ pc' = [pc EXCEPT ![r] = "forward"]
            /\ step' = [step EXCEPT ![r] = @ + 1]
            /\ TakeKeys(r)
    /\ UNCHANGED <<args, layout, out, next_k, sends, recvs, statVars, gradVars>>

(* GatherLoss is a collective; then backpropagation comes to this layer.   *)
Gather ==
    /\ \A r \in Ranks : pc[r] = "gathered"
    /\ pc' = [r \in Ranks |-> IF World = 1 THEN "done"
                              ELSE IF args.npu THEN "backward" ELSE "recompute"]
    /\ UNCHANGED <<args, layout, step, out, commVars, statVars, gradVars>>

-----------------------------------------------------------------------------
(* zigzag_ring_flash_attn_varlen_backward recomputes the blocks first.     *)

(* flse of a step: a view of block_lse at first; a new tensor if all rows  *)
(* are merged; written in place if only the back half is.                  *)
BlockLse(r) == [i \in Local |-> IF i \in QueryIndex(r) THEN <<step[r]>> ELSE <<>>]

NewLse(r) ==
    IF step[r] = 0 THEN BlockLse(r)
    ELSE [i \in Local |-> flse[r][i] \o BlockLse(r)[i]]

Recompute(r) ==
    /\ pc[r] = "recompute"
    /\ PostKeys(r)
    /\ out' = [out EXCEPT ![r] = NewOut(r)]
    /\ flse' = [flse EXCEPT ![r] = NewLse(r)]
    /\ shared' = [shared EXCEPT ![r] = (step[r] = 0) \/ (@ /\ Block(r) = "back")]
    /\ saved' = [saved EXCEPT ![r] =
           LET before == IF shared[r] /\ Block(r) = "back"
                         THEN [@ EXCEPT ![1] = NewLse(r)] ELSE @
           IN  Append(before, BlockLse(r))]
    /\ pc' = [pc EXCEPT ![r] = "recompute_wait"]
    /\ UNCHANGED <<args, layout, step, k, next_k, gradVars>>

RecomputeWait(r) ==
    /\ pc[r] = "recompute_wait"
    /\ LastStep(r) \/ Completed(r, "kv")
    /\ IF LastStep(r)
       THEN /\ pc' = [pc EXCEPT ![r] = "backward"]
            /\ step' = [step EXCEPT ![r] = 0]
            /\ k' = [k EXCEPT ![r] = Queries(r)]
       ELSE /\ pc' = [pc EXCEPT ![r] = "recompute"]
            /\ step' = [step EXCEPT ![r] = @ + 1]
            /\ TakeKeys(r)
    /\ UNCHANGED <<args, layout, out, next_k, sends, recvs, statVars, gradVars>>

-----------------------------------------------------------------------------
(* The gradients.                                                          *)

(* The kernel's backward pass (external): for every key of the block the   *)
(* queries that have attended to it.                                       *)
BlockDk(r) ==
    LET q       == BlockQueries(r)
        keys    == BlockKeys(r)
        reached == [i \in 1..Len(q) |-> Range(BlockOut(r)[i])]
    IN  [j \in 1..Len(keys) |-> Select(q, {i \in 1..Len(q) : keys[j] \in reached[i]})]

(* It writes to the first rows of dk_buffer; the others keep what they had.*)
NewBuffer(r) == LET block == BlockDk(r)
                IN  [j \in Local |-> IF j <= Len(block) THEN block[j] ELSE dk_buffer[r][j]]

NewDq(r) == IF step[r] = 0 THEN BlockOut(r) ELSE AddAt(dq[r], QueryIndex(r), BlockOut(r))

(* Variant: the whole buffer is added, rows of an earlier turn included.   *)
AddBufferAll(r, grad) == AddAt(grad, Local, dk_buffer[r])

(* dk[half_index0] += dk_buffer[:block_seq_len], or dk += dk_buffer.       *)
AddBuffer(r, grad) == AddAt(grad, KeyIndex(r), dk_buffer[r])

(* A turn up to d_kv_comm.wait(): keys are passed on, the block's          *)
(* gradients computed, dq is complete for this turn.                       *)
Backward(r) ==
    /\ pc[r] = "backward" /\ ~args.npu
    /\ PostKeys(r)
    /\ dq' = [dq EXCEPT ![r] = NewDq(r)]
    /\ dk_buffer' = [dk_buffer EXCEPT ![r] = NewBuffer(r)]
    /\ pc' = [pc EXCEPT ![r] = "grad_wait"]
    /\ UNCHANGED <<args, layout, step, out, k, next_k, statVars, dk, next_dk>>

(* The gradient of these keys arrives from the process that had them       *)
(* before, and this block is added to it.                                  *)
GradWait(r) ==
    /\ pc[r] = "grad_wait" /\ ~args.npu
    /\ step[r] > 0 => Completed(r, "d_kv")
    /\ dk' = [dk EXCEPT ![r] = IF step[r] = 0 THEN dk_buffer[r] ELSE AddBuffer(r, next_dk[r])]
    /\ pc' = [pc EXCEPT ![r] = "key_wait"]
    /\ UNCHANGED <<args, layout, step, out, commVars, statVars, dq, next_dk, dk_buffer>>

(* The next keys; the gradient is sent after the ones it belongs to.       *)
KeyWait(r) ==
    /\ pc[r] = "key_wait" /\ ~args.npu
    /\ TakeKeys(r)
    /\ Post(r, "d_kv")
    /\ pc' = [pc EXCEPT ![r] = IF LastStep(r) THEN "last_wait" ELSE "backward"]
    /\ step' = [step EXCEPT ![r] = @ + 1]
    /\ UNCHANGED <<args, layout, out, next_k, statVars, gradVars>>

(* The gradient of the own keys is back.                                   *)
LastWait(r) ==
    /\ pc[r] = "last_wait"
    /\ Completed(r, "d_kv")
    /\ pc' = [pc EXCEPT ![r] = "done"]
    /\ UNCHANGED <<args, layout, step, out, commVars, statVars, gradVars>>

(* npu_backward: the gradient is sent and awaited before the keys are.     *)
NpuBackward(r) ==
    /\ pc[r] = "backward" /\ args.npu
    /\ dq' = [dq EXCEPT ![r] = NewDq(r)]
    /\ dk' = [dk EXCEPT ![r] =
           AddAt(IF step[r] = 0 THEN [i \in Local |-> <<>>] ELSE next_dk[r],
                 KeyIndex(r), BlockDk(r))]
    /\ Post(r, "d_kv")
    /\ pc' = [pc EXCEPT ![r] = IF LastStep(r) THEN "last_wait" ELSE "grad_wait"]
    /\ UNCHANGED <<args, layout, step, out, k, next_k, statVars, next_dk, dk_buffer>>

NpuGradWait(r) ==
    /\ pc[r] = "grad_wait" /\ args.npu
    /\ Completed(r, "d_kv")
    /\ Post(r, "kv")
    /\ pc' = [pc EXCEPT ![r] = "key_wait"]
    /\ UNCHANGED <<args, layout, step, out, k, next_k, statVars, gradVars>>

NpuKeyWait(r) ==
    /\ pc[r] = "key_wait" /\ args.npu
    /\ TakeKeys(r)
    /\ pc' = [pc EXCEPT ![r] = "backward"]
    /\ step' = [step EXCEPT ![r] = @ + 1]
    /\ UNCHANGED <<args, layout, out, next_k, sends, recvs, statVars, gradVars>>

-----------------------------------------------------------------------------
Process(r) ==
    \/ Forward(r) \/ ForwardWait(r) \/ Recompute(r) \/ RecomputeWait(r)
    \/ Backward(r) \/ GradWait(r) \/ KeyWait(r) \/ LastWait(r)
    \/ NpuBackward(r) \/ NpuGradWait(r) \/ NpuKeyWait(r)

Next == Gather \/ \E r \in Ranks : Process(r) \/ Transfer(r)

(* Every process runs, and the library completes matched transfers.        *)
MaxWorld == Max({a.rp : a \in Args})

Spec ==
    /\ Init /\ [][Next]_vars
    /\ WF_vars(Gather)
    /\ \A r \in 0..(MaxWorld - 1) :
          WF_vars(r \in Ranks /\ Process(r)) /\ WF_vars(r \in Ranks /\ Transfer(r))

-----------------------------------------------------------------------------
(* Results and properties.                                                 *)

Ignored == 0

NumTokens(a) == Len(PositionIds(a))
TokenStart(a, n) == Total(SubSeq(a.lengths, 1, n - 1))
SequenceOf(a, t) == CHOOSE n \in 1..Len(a.lengths) :
                        TokenStart(a, n) < t /\ t <= TokenStart(a, n) + a.lengths[n]

(* The token of each padded row, 0 for padding.                            *)
Tokens(a) == pad(a, [t \in 1..NumTokens(a) |-> t], 0, PositionIds(a))

(* The labels of supervised training: the prompt, and with it the first    *)
(* token, carries none.                                                    *)
Labels(a) ==
    [t \in 1..NumTokens(a) |->
        LET n == SequenceOf(a, t)
        IN  IF t - TokenStart(a, n) <= a.prompts[n] THEN Ignored ELSE t]

(* prepare_inputs and pad_and_split_inputs: the labels, rolled, split like *)
(* the rows, and gathered with the result of each row (GatherLoss).        *)
Gathered(a, labels) ==
    LET label == Split(a, RollBack(pad(a, labels, Ignored, PositionIds(a))))
        result(p) == LET own == Chunk(out[p[1]], a.sp, p[2])
                     IN  [i \in 1..Len(own) |-> [keys |-> own[i], label |-> label[p][i]]]
    IN  gather(a, [p \in Mesh(a) |-> result(p)], PaddedPositionIds(a))

(* per_token_loss_func_sp: padding is dropped.                             *)
Loss(a) == LET padded == PaddedPositionIds(a)
           IN  Select(Gathered(a, Labels(a)), {i \in 1..Len(padded) : padded[i] >= 0})

(* What GRPO computes from the same model: the batch's log-probabilities   *)
(* and its completion_mask, a row for each sequence.                       *)
LogitsToKeep(a) == NumTokens(a) - a.prompts[1]
SeqLengths(a)   == [a.lengths EXCEPT ![1] = @ - a.prompts[1]]

Logps(a) == pad_logps_back_to_batch(
    logps_via_sp(a, Gathered(a, [t \in 1..NumTokens(a) |-> t]), PositionIds(a), SeqLengths(a)),
    LogitsToKeep(a), SeqLengths(a), [keys |-> <<>>, label |-> Ignored])

CompletionMask(a) == pad_logps_back_to_batch(
    SubSeq(Labels(a), a.prompts[1] + 1, NumTokens(a)), LogitsToKeep(a), SeqLengths(a), Ignored)

(* keys are the rows of the sequence of token t up to its own, each once.  *)
FromPrefix(a, keys, t) ==
    LET start == TokenStart(a, SequenceOf(a, t))
        token == Tokens(a)
    IN  Len(keys) = t - start /\ {token[x] : x \in Range(keys)} = (start + 1)..t

(* Whatever the lengths of the packed sequences, the padding, the zigzag   *)
(* and the two dimensions of the mesh: the loss of a token is computed     *)
(* from its own prefix against the token that follows it; and where        *)
(* GRPO's completion_mask, made on another way, is set, the log-           *)
(* probability is that of the masked token, given what precedes it.        *)
LossOfOwnToken ==
    (\A r \in Ranks : pc[r] = "gathered") =>
        LET loss == Loss(args)
            labels == Labels(args)
            logps == Logps(args)
            completion_mask == CompletionMask(args)
        IN  /\ Len(loss) = NumTokens(args)
            /\ \A t \in 1..Len(loss) :
                  /\ FromPrefix(args, loss[t].keys, t)
                  /\ loss[t].label = IF t = Len(loss) THEN Ignored ELSE labels[t + 1]
            /\ \A i \in DOMAIN completion_mask : \A c \in DOMAIN completion_mask[i] :
                  LET t == completion_mask[i][c]
                  IN  t # Ignored => /\ logps[i][c].label = t
                                     /\ FromPrefix(args, logps[i][c].keys, t - 1)

(* When a process is done it has the gradient of its own queries and, from *)
(* all round the ring, of its own keys: from every query that has attended *)
(* to them, once.  No block is lost, added twice, added to the gradient of *)
(* other keys, or read from a buffer before it has arrived.                *)
GradientsComeHome ==
    \A r \in Ranks : (pc[r] = "done" /\ World > 1) =>
        \A i \in Local :
            LET cu == layout.full_cu_seqlens
                x  == Queries(r)[i]
                n  == PieceOf(x, cu)
            IN  /\ Len(dq[r][i]) = x - cu[n] /\ Range(dq[r][i]) = (cu[n] + 1)..x
                /\ Len(next_dk[r][i]) = cu[n + 1] - x + 1
                /\ Range(next_dk[r][i]) = x..cu[n + 1]

(* The statistics saved for a block are those of the block alone ("The     *)
(* current block lse") when its gradient is computed from them.            *)
BlockStatistics ==
    \A r \in Ranks : (pc[r] = "backward" /\ ~args.npu) =>
        \A i \in QueryIndex(r) : saved[r][step[r] + 1][i] = <<step[r]>>

(* The ring never comes to a standstill: the backward pass ends.           *)
RingCompletes == <>(\A r \in Ranks : pc[r] = "done")
=============================================================================
