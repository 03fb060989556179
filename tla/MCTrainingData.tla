--------------------------- MODULE MCTrainingData ---------------------------
(***************************************************************************)
(* Instances of TrainingData: every loader, with row counts that are and   *)
(* that are not a multiple of the processes and of the batch.              *)
(***************************************************************************)
EXTENDS TrainingData

Shard ==
    [loader |-> "BatchSamplerShard", samples |-> 5, procs |-> 2, batch_size |-> 1,
     drop_last |-> FALSE, shuffle |-> TRUE, group_by_length |-> FALSE,
     data_sharding |-> FALSE, epochs |-> 2, max_steps |-> 0]
ShardInOrder == [Shard EXCEPT !.samples = 7, !.batch_size = 2, !.shuffle = FALSE]
ShardDropLast == [ShardInOrder EXCEPT !.drop_last = TRUE]
ShardByLength == [Shard EXCEPT !.samples = 3, !.group_by_length = TRUE]

SequenceParallel == [Shard EXCEPT !.loader = "SequenceParallelSampler", !.samples = 3]

Stream == [Shard EXCEPT !.loader = "DataLoaderDispatcher", !.shuffle = FALSE,
                        !.max_steps = 5]
StreamTooShort == [Stream EXCEPT !.samples = 1]

Megatron == [Shard EXCEPT !.loader = "MegatronPretrainingRandomSampler", !.samples = 4]
MegatronSharding == [Megatron EXCEPT !.samples = 7, !.batch_size = 1, !.data_sharding = TRUE]
MegatronMicroBatch == [Megatron EXCEPT !.procs = 1, !.batch_size = 2]
MegatronUneven == [Megatron EXCEPT !.samples = 3]
MegatronByLength == [MegatronMicroBatch EXCEPT !.samples = 3, !.group_by_length = TRUE,
                                               !.data_sharding = TRUE]
MegatronInOrder == [MegatronSharding EXCEPT !.samples = 5, !.batch_size = 2, !.shuffle = FALSE]
MegatronStream == [Stream EXCEPT !.loader = "MegatronDataLoaderDispatcher",
                                 !.max_steps = 10]

MCArgs == {Shard, ShardInOrder, ShardDropLast, ShardByLength, SequenceParallel, Stream,
           StreamTooShort, Megatron, MegatronSharding, MegatronMicroBatch, MegatronByLength,
           MegatronInOrder, MegatronUneven, MegatronStream}
MCShard == {Shard}
=============================================================================
