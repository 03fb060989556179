------------------------- MODULE MCGenerationBatch -------------------------
(***************************************************************************)
(* Instances of GenerationBatch: the command lines between which the code  *)
(* distinguishes, each with the smallest batch in which its case happens.  *)
(***************************************************************************)
EXTENDS GenerationBatch

CONSTANTS a, b, long

MCPrompts == {a, b, long}
MCTooLong == {long}

Plain ==
    [world_size |-> 2, per_device_train_batch_size |-> 1, steps_per_generation |-> 2,
     num_generations |-> 2, num_iterations |-> 2, sequence_parallel_size |-> 1,
     vllm_tensor_parallel_size |-> 1, vllm_mode |-> "colocate", num_servers |-> 1,
     num_workers |-> 1, enable_server_multi_turn |-> FALSE, dynamic_sample |-> FALSE,
     max_resample_times |-> 0, truncation_strategy |-> "left"]

\* A group that straddles two processes, tensor-parallel inference.
Straddling == [Plain EXCEPT !.per_device_train_batch_size = 3,
                            !.steps_per_generation = 1,
                            !.vllm_tensor_parallel_size = 2]

\* Four requests for three servers, one of which gets none, and six for two
\* servers whose workers get two and one.
Served == [Plain EXCEPT !.vllm_mode = "server", !.num_servers = 3, !.num_workers = 2]
ServedOdd == [Served EXCEPT !.world_size = 3, !.num_servers = 2,
                            !.num_generations = 3]

\* A scheduler on the server makes several samples of one request.
ServedMultiTurn == [Served EXCEPT !.num_servers = 2, !.num_iterations = 1,
                                  !.enable_server_multi_turn = TRUE]

Resampling == [Plain EXCEPT !.dynamic_sample = TRUE, !.max_resample_times = 2,
                            !.num_iterations = 1]

SequenceParallel == [Plain EXCEPT !.sequence_parallel_size = 2]

Deleting == [Plain EXCEPT !.truncation_strategy = "raise", !.num_iterations = 1]

MCArgs == {Plain, Straddling, Served, ServedOdd, ServedMultiTurn, Resampling,
           SequenceParallel, Deleting}

Interchangeable == Permutations({a, b})
=============================================================================
