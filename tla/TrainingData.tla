---------------------------- MODULE TrainingData ----------------------------
(***************************************************************************)
(* Which rows every data-parallel process trains on, step by step, through *)
(* epochs, checkpoints, crashes and resumes: the samplers and dispatchers  *)
(* of swift/dataloader, swift/sequence_parallel and swift/megatron under   *)
(* the training loop that drives them.  That loop is transformers' for the *)
(* first three loaders (external: it asks for len(loader) batches per      *)
(* epoch, calls set_epoch before an epoch and skip_first_batches after a   *)
(* resume) and MegatronTrainer.train for the last two.  One batch per      *)
(* process and step (no accumulation); rows are numbers from 0.            *)
(***************************************************************************)
EXTENDS Distribution

CONSTANTS
    Args,         \* the command lines considered
    MaxEpochs,    \* bound: epochs whose order is chosen
    MaxCrashes    \* bound: crashes

Loaders == {"BatchSamplerShard", "SequenceParallelSampler", "DataLoaderDispatcher",
            "MegatronPretrainingRandomSampler", "MegatronDataLoaderDispatcher"}

\* There are processes and batches have rows; no command line has more epochs
\* than orders are chosen for.
ASSUME ArgsAssumption ==
    /\ MaxEpochs \in Nat \ {0} /\ MaxCrashes \in Nat
    /\ \A a \in Args :
          /\ a.loader \in Loaders
          /\ a.samples \in Nat /\ a.procs \in Nat \ {0} /\ a.batch_size \in Nat \ {0}
          /\ a.drop_last \in BOOLEAN /\ a.shuffle \in BOOLEAN
          /\ a.group_by_length \in BOOLEAN /\ a.data_sharding \in BOOLEAN
          /\ a.epochs \in 0 .. MaxEpochs /\ a.max_steps \in Nat

VARIABLES
    args,       \* [loader, samples, procs, batch_size, drop_last, shuffle,
                \*  group_by_length, data_sharding, epochs, max_steps]
    order,      \* order[e]: the rows as a generator seeded for epoch e permutes them
    pc,         \* "epoch", "train", "crashed", "hung", "done"
    step,       \* global_step / iteration
    epoch,      \* transformers: the epoch of the loop; megatron: not used
    left,       \* the batches each process's iterator still holds
    consumed,   \* consumed_samples of each process's megatron sampler
    max_steps,  \* the step at which the loop ends; megatron: args.train_iters
    passes,     \* megatron: the local epoch of cyclic_iter
    saved,      \* the step of the last complete checkpoint, 0 for none
    resumed,    \* history: the steps training was resumed at
    seen        \* history: the batches of all processes in every step so far

vars == <<args, order, pc, step, epoch, left, consumed, max_steps, passes, saved,
          resumed, seen>>

Procs == 0 .. args.procs - 1
Transformers == args.loader \in {"BatchSamplerShard", "SequenceParallelSampler",
                                 "DataLoaderDispatcher"}
Streaming == args.loader \in {"DataLoaderDispatcher", "MegatronDataLoaderDispatcher"}
GlobalBatch == args.procs * args.batch_size

-----------------------------------------------------------------------------
(* Samplers. *)

\* total_samples * world_size of BatchSamplerShard: the rows that are permuted.
\* With group_by_length the permutation is over all rows.
ShardRows(a) == IF a.group_by_length THEN a.samples ELSE (a.samples \div a.procs) * a.procs

\* The megatron sampler shards a permutation only: with group_by_length, or in
\* order, data_sharding is not used.
Sharding(a) == a.data_sharding /\ a.shuffle /\ ~a.group_by_length

\* full_bucket_size and, per process, bucket_size of the megatron sampler.
BucketRows(a) ==
    IF Sharding(a)
    THEN (a.samples \div (a.batch_size * a.procs)) * a.batch_size
    ELSE (a.samples \div a.batch_size) * a.batch_size

\* How many rows the generator permutes.
PermutedRows(a) ==
    CASE a.loader = "BatchSamplerShard" -> ShardRows(a)
      [] a.loader = "MegatronPretrainingRandomSampler" ->
           IF a.group_by_length THEN a.samples ELSE BucketRows(a)
      [] OTHER -> a.samples

\* Variant: windows of the list that start at the rank.
shard_batches_window(p, e) ==
    Batched(Slice(order[e], p, p + Len(order[e]) \div args.procs),
            args.batch_size, args.drop_last)

\* BatchSamplerShard.__iter__ of process p, seeded for epoch e.
shard_batches(p, e) ==
    Batched(Stride(order[e], p, args.procs), args.batch_size, args.drop_last)

\* Variant: no rounding up, the processes get shares of different lengths.
sp_batches_uneven(p, e) ==
    Batched(Stride(order[e], p, args.procs), args.batch_size, args.drop_last)

\* SequenceParallelSampler.__iter__ with round_up: the list is repeated to a
\* multiple of the data-parallel size; the loader batches it.
sp_batches(p, e) ==
    LET total_size == CeilDiv(args.samples, args.procs) * args.procs
        indices == [i \in 1 .. total_size |-> order[e][((i - 1) % args.samples) + 1]]
    IN  Batched(Stride(indices, p, args.procs), args.batch_size, args.drop_last)

\* DataLoaderDispatcher.__iter__: process 0 reads procs batches at a time and
\* scatters them; an incomplete set ends the iteration.
dispatched_batches(p) ==
    LET base == Batched(order[0], args.batch_size, FALSE)
    IN  [k \in 1 .. Len(base) \div args.procs |-> base[(k - 1) * args.procs + p + 1]]

\* MegatronPretrainingRandomSampler.__iter__ from consumed_samples on.
active_total_samples == args.samples - (args.samples % GlobalBatch)

megatron_batches(p, samples) ==
    LET e      == samples \div active_total_samples
        offset == samples % active_total_samples
        range  == IF Sharding(args)
                  THEN [i \in 1 .. BucketRows(args) - offset \div args.procs |->
                          p * BucketRows(args) + order[e][offset \div args.procs + i]]
                  ELSE Stride(Slice(order[e], offset, Len(order[e])), p, args.procs)
    IN  Batched(range, args.batch_size, TRUE)

\* len(dataloader), with which the loop of transformers counts epochs; a
\* streaming dataset has no length and max_steps takes its place.
len_dataloader ==
    CASE args.loader = "BatchSamplerShard" ->
           IF args.drop_last THEN (args.samples \div args.procs) \div args.batch_size
           ELSE CeilDiv(args.samples \div args.procs, args.batch_size)
      [] args.loader = "SequenceParallelSampler" ->
           LET num_samples == CeilDiv(args.samples, args.procs)
           IN  IF args.drop_last THEN num_samples \div args.batch_size
               ELSE CeilDiv(num_samples, args.batch_size)
      [] OTHER -> args.max_steps

\* One whole pass of a loader's iterator on process p in epoch e.
WholePass(p, e) ==
    CASE args.loader = "BatchSamplerShard" -> shard_batches(p, e)
      [] args.loader = "SequenceParallelSampler" -> sp_batches(p, e)
      [] args.loader = "MegatronPretrainingRandomSampler" ->
           megatron_batches(p, e * active_total_samples)
      [] OTHER -> dispatched_batches(p)

\* Variant: one batch too few is skipped.
SkippingLoaderOneLess(p, skip_batches) ==
    LET all == WholePass(p, 0)
    IN  SubSeq(all, skip_batches, Len(all))

\* get_train_dataloader(skip_batches): SkipBatchSampler drops the first batches
\* of an iterator.  The samplers made here are new, so their seed is that of
\* epoch 0 whatever epoch it is.
SkippingLoader(p, skip_batches) ==
    LET all == WholePass(p, 0)
    IN  SubSeq(all, skip_batches + 1, Len(all))

-----------------------------------------------------------------------------
Seeds == 0 .. MaxEpochs - 1
Permuted(n) == {[i \in 1 .. n |-> f[i]] : f \in Bijection(1 .. n, 0 .. n - 1)}
Straight(n) == [i \in 1 .. n |-> i - 1]

\* init_iters, or the number of steps transformers computes.
TotalSteps(a) ==
    CASE a.loader \in {"DataLoaderDispatcher", "MegatronDataLoaderDispatcher"} -> a.max_steps
      [] a.loader = "MegatronPretrainingRandomSampler" ->
           (a.samples \div (a.batch_size * a.procs)) * a.epochs
      [] a.loader = "SequenceParallelSampler" ->
           a.epochs * (LET n == CeilDiv(a.samples, a.procs)
                       IN  IF a.drop_last THEN n \div a.batch_size ELSE CeilDiv(n, a.batch_size))
      [] OTHER ->
           a.epochs * (LET n == a.samples \div a.procs
                       IN  IF a.drop_last THEN n \div a.batch_size ELSE CeilDiv(n, a.batch_size))

Empty == [p \in Procs |-> <<>>]

Init ==
    /\ args \in Args
    /\ order \in [Seeds -> IF args.shuffle THEN Permuted(PermutedRows(args))
                           ELSE {Straight(PermutedRows(args))}]
    /\ pc = "epoch" /\ step = 0 /\ epoch = 0
    /\ left = Empty /\ consumed = [p \in Procs |-> 0]
    /\ max_steps = TotalSteps(args) /\ passes = 0
    /\ saved = 0 /\ resumed = <<>> /\ seen = <<>>

\* The loop of transformers enters an epoch: set_epoch, then, in the epoch in
\* which training was resumed, skip_first_batches, which
\* _patch_skip_first_batches answers with a new loader.  An epoch that yields
\* no batch ends the training (should_training_stop).
StartEpoch ==
    /\ pc = "epoch" /\ Transformers
    /\ step < max_steps
    /\ LET skip == IF /\ resumed # <<>> /\ step = Last(resumed)
                      /\ epoch = step \div len_dataloader
                   THEN step % len_dataloader ELSE 0
           batches == [p \in Procs |-> IF skip = 0 THEN WholePass(p, epoch)
                                       ELSE SkippingLoader(p, skip)]
       IN  IF Streaming /\ skip > Len(WholePass(0, 0))
           THEN \* _skip_batches raises on process 0, the others wait in scatter
                /\ pc' = "hung"
                /\ UNCHANGED left
           ELSE /\ left' = batches
                /\ pc' = IF \A p \in Procs : batches[p] = <<>> THEN "done" ELSE "train"
    /\ UNCHANGED <<args, order, step, epoch, consumed, max_steps, passes, saved, resumed, seen>>

\* MegatronTrainer.train prepares its iterators once: the sampler starts at the
\* samples consumed, the streaming dispatcher at its beginning.
StartTraining ==
    /\ pc = "epoch" /\ ~Transformers
    /\ step < max_steps
    /\ left' = [p \in Procs |-> IF Streaming THEN dispatched_batches(p)
                                ELSE megatron_batches(p, consumed[p])]
    /\ pc' = "train"
    /\ UNCHANGED <<args, order, step, epoch, consumed, max_steps, passes, saved, resumed, seen>>

\* One optimizer step under transformers: every process takes its next batch.
TrainStep ==
    /\ pc = "train" /\ Transformers
    /\ step < max_steps
    /\ \A p \in Procs : left[p] # <<>>
    /\ seen' = Append(seen, [p \in Procs |-> Head(left[p])])
    /\ left' = [p \in Procs |-> Tail(left[p])]
    /\ step' = step + 1
    /\ IF step' < max_steps /\ (~Streaming /\ step' % len_dataloader = 0)
       THEN epoch' = epoch + 1 /\ pc' = "epoch"
       ELSE pc' = "train" /\ UNCHANGED epoch
    /\ UNCHANGED <<args, order, consumed, max_steps, passes, saved, resumed>>

\* Variant: the loop waits for a batch after the dispatcher has scattered None.
StreamEndsWaiting ==
    /\ pc = "train" /\ Transformers /\ Streaming
    /\ step >= max_steps
    /\ \A p \in Procs : left[p] = <<>>
    /\ epoch' = epoch + 1
    /\ pc' = "epoch"
    /\ UNCHANGED <<args, order, step, left, consumed, max_steps, passes, saved, resumed, seen>>

\* The dispatcher has scattered None after some batches: the loop goes into
\* another epoch.
StreamEnds ==
    /\ pc = "train" /\ Transformers /\ Streaming
    /\ step < max_steps
    /\ \A p \in Procs : left[p] = <<>>
    /\ epoch' = epoch + 1
    /\ pc' = "epoch"
    /\ UNCHANGED <<args, order, step, left, consumed, max_steps, passes, saved, resumed, seen>>

\* One iteration of MegatronTrainer.train.  A process whose sampler is
\* exhausted iterates it again from the samples it has consumed (cyclic_iter,
\* which never yields when there is nothing in a whole pass);
\* at the end of the last pass of a streaming dataset the step under way is
\* made the last one.
TrainIteration ==
    /\ pc = "train" /\ ~Transformers
    /\ step < max_steps
    /\ LET again == {p \in Procs : left[p] = <<>>}
           at == [p \in Procs |-> IF p \notin again THEN left[p]
                                  ELSE IF Streaming THEN dispatched_batches(p)
                                  ELSE megatron_batches(p, consumed[p])]
           ended == passes + (IF 0 \in again THEN 1 ELSE 0)
       IN  /\ \A p \in Procs : at[p] # <<>>
           /\ seen' = Append(seen, [p \in Procs |-> Head(at[p])])
           /\ left' = [p \in Procs |-> Tail(at[p])]
           /\ passes' = ended
           /\ max_steps' = IF 0 \in again /\ ended >= args.epochs THEN step + 1 ELSE max_steps
    /\ consumed' = [p \in Procs |-> consumed[p] + GlobalBatch]
    /\ step' = step + 1
    /\ UNCHANGED <<args, order, pc, epoch, saved, resumed>>

\* A checkpoint of the step just made; written synchronously.
SaveCheckpoint ==
    /\ pc \in {"train", "epoch"}
    /\ step > saved
    /\ saved' = step
    /\ UNCHANGED <<args, order, pc, step, epoch, left, consumed, max_steps, passes,
                   resumed, seen>>

Crash ==
    /\ pc \in {"train", "epoch"}
    /\ saved > 0
    /\ Len(resumed) < MaxCrashes
    /\ pc' = "crashed"
    /\ UNCHANGED <<args, order, step, epoch, left, consumed, max_steps, passes, saved,
                   resumed, seen>>

\* A new program resumes from the checkpoint: transformers derives epoch and
\* batches to skip from global_step, megatron reads iteration and
\* consumed_train_samples.
Resume ==
    /\ pc = "crashed"
    /\ step' = saved
    /\ seen' = SubSeq(seen, 1, saved)
    /\ epoch' = IF Transformers THEN saved \div len_dataloader ELSE 0
    /\ consumed' = [p \in Procs |-> saved * GlobalBatch]
    /\ max_steps' = TotalSteps(args)
    /\ passes' = 0
    /\ left' = Empty
    /\ resumed' = Append(resumed, saved)
    /\ pc' = "epoch"
    /\ UNCHANGED <<args, order, saved>>

Finish ==
    /\ pc \in {"train", "epoch"}
    /\ step >= max_steps
    /\ pc' = "done"
    /\ UNCHANGED <<args, order, step, epoch, left, consumed, max_steps, passes, saved,
                   resumed, seen>>

Running == StartEpoch \/ StartTraining \/ TrainStep \/ StreamEnds \/ TrainIteration
             \/ Finish

Next == Running \/ SaveCheckpoint \/ Crash \/ Resume

\* A running program goes on; nobody has to save, crash or restart it.
Spec == Init /\ [][Next]_vars /\ WF_vars(Running)

-----------------------------------------------------------------------------
(* Properties. *)

TypeOK ==
    /\ args \in Args
    /\ pc \in {"epoch", "train", "crashed", "hung", "done"}
    /\ step \in 0 .. TotalSteps(args) /\ Len(seen) = step
    /\ epoch \in 0 .. TotalSteps(args) /\ passes \in 0 .. TotalSteps(args)
    /\ saved \in 0 .. TotalSteps(args)
    /\ \A i \in 1 .. Len(seen), p \in Procs :
          ToSet(seen[i][p]) \subseteq 0 .. args.samples - 1

\* Steps of one whole pass over the data.
PassLength ==
    IF Streaming THEN Len(dispatched_batches(0))
    ELSE IF Transformers THEN len_dataloader
    ELSE active_total_samples \div GlobalBatch

\* The resumes after which the loaders are not meant to, or do not, go on where
\* training stopped: a shuffled epoch other than the first entered in the
\* middle (the new sampler has the seed of epoch 0); more streamed batches to
\* skip than a pass has; streamed megatron data, which is not skipped at all.
KnownGap(at) ==
    CASE args.loader \in {"BatchSamplerShard", "SequenceParallelSampler"} ->
           args.shuffle /\ at > len_dataloader /\ at % len_dataloader # 0
      [] args.loader = "DataLoaderDispatcher" -> at > PassLength
      [] args.loader = "MegatronDataLoaderDispatcher" -> TRUE
      [] OTHER -> FALSE

\* A megatron sampler whose processes get different numbers of batches: rows
\* beyond a multiple of the global batch still make a micro-batch.
UnevenPass ==
    /\ args.loader = "MegatronPretrainingRandomSampler" /\ ~Sharding(args)
    /\ args.samples % GlobalBatch >= args.batch_size

AsUninterrupted ==
    \A i \in 1 .. Len(seen), p \in Procs :
        seen[i][p] = WholePass(p, (i - 1) \div PassLength)[((i - 1) % PassLength) + 1]

\* Crashes leave no trace in the data: whatever was lost and resumed, step i
\* has trained on the batch that the i-th step of an uninterrupted training
\* trains on, on every process (SkipBatchSampler, _skip_batches,
\* consumed_samples), except for the resumes of KnownGap.
ResumeGoesOn ==
    (~UnevenPass /\ \A at \in ToSet(resumed) : ~KnownGap(at)) => AsUninterrupted

\* What the documentation of resume_from_checkpoint says of every resume:
\* training goes on from the last step.
ResumesFromTheLastStep == AsUninterrupted

RowsOfPass(e) ==
    {t \in (1 .. Len(seen)) \X Procs \X (1 .. args.batch_size) :
        (t[1] - 1) \div PassLength = e /\ t[3] <= Len(seen[t[1]][t[2]])}

\* A pass over the data trains on no row twice, but for the rows with which
\* sequence parallelism rounds up, and leaves out fewer rows than one global
\* batch, although each process computes its share by itself and the shares
\* are cut to a common length (BatchSamplerShard, SequenceParallelSampler,
\* MegatronPretrainingRandomSampler, DataLoaderDispatcher). A loader that has
\* no step has no passes.
EachRowOnce ==
    (PassLength > 0 /\ ~UnevenPass /\ \A at \in ToSet(resumed) : ~KnownGap(at)) =>
        \A e \in 0 .. Len(seen) \div PassLength :
            LET places == RowsOfPass(e)
                rows   == {seen[t[1]][t[2]][t[3]] : t \in places}
                extra  == IF args.loader = "SequenceParallelSampler"
                          THEN CeilDiv(args.samples, args.procs) * args.procs - args.samples
                          ELSE 0
            IN  /\ Cardinality(places) - Cardinality(rows) <= extra
                /\ Len(seen) >= (e + 1) * PassLength =>
                     args.samples - Cardinality(rows) < GlobalBatch

\* No process is ever without a batch in a step in which another has one,
\* which would leave the latter in a collective for ever, and a loader with a
\* length holds that many; only a stream resumed past the end of its pass hangs.
ProcessesInStep ==
    /\ (pc = "train" /\ Transformers /\ step < max_steps) =>
         \/ \A p \in Procs : left[p] # <<>>
         \/ Streaming /\ \A p \in Procs : left[p] = <<>>
    /\ pc = "hung" => \E at \in ToSet(resumed) :
                         args.loader = "DataLoaderDispatcher" /\ KnownGap(at)

\* A stream without a whole round, or resumed where its pass had ended: the
\* epoch entered has no batch, and the loop takes that for the end of training.
StreamUsedUp ==
    /\ args.loader = "DataLoaderDispatcher" /\ step = PassLength
    /\ step = 0 \/ (resumed # <<>> /\ step = Last(resumed))

\* Training that is not interrupted for good reaches its last step, or stops
\* short of it because a stream was used up.
TrainingEnds ==
    \/ <>(pc = "done" /\ (step = max_steps \/ StreamUsedUp))
    \/ <>[](pc = "crashed") \/ <>[](pc = "hung")
=============================================================================
