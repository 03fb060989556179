# A TLA+ model of ms-swift's rollout, data and sequence-parallel machinery

The repository (ms-swift, package `swift/`) is a framework for training and
serving large language and vision-language models. Most of it is tensor code,
formatting and registries around external libraries. What is the program's own,
and hard to get right, is the code in which several threads, processes or
machines cooperate, and the index arithmetic that keeps their shares apart:

* GRPO training that samples completions from a vLLM server **while it trains**
  (`rlhf_trainers/rollout_mixin.py`, `rlhf_trainers/grpo_trainer.py`);
* the **rollout server** and its client, with weight updates that nobody
  acknowledges (`pipelines/infer/rollout.py`, `rlhf_trainers/vllm_client.py`);
* **colocated rollout**, where trainer and engine share a device and all
  processes generate in lockstep (`rollout_mixin.py`);
* the way of a **generation batch** over processes, servers, rewards, resampling
  and advantages to the loss (`grpo_trainer.py`, `rollout_mixin.py`, `utils.py`);
* the bookkeeping of **multi-turn** dialogues, from sampled tokens to the tokens
  that carry loss (`rollout/multi_turn.py`, `rollout_mixin.py`, `utils.py`);
* the **samplers and dispatchers** that deal rows to processes, through epochs,
  checkpoints and resumes (`dataloader/`, `megatron/trainers/`);
* **sequence parallelism**: a packed row spread over a mesh of processes, and
  attention around a ring of them (`sequence_parallel/`);
* the request queue of the **Transformers engine** behind `swift deploy`
  (`infer_engine/transformers_engine.py`);
* **sample packing** in worker processes (`dataset/packing.py`).

Paths below are relative to `src/swift/`.

## 1. Inventory

| Component | State | Operations | Interacts with | Hard part | Correct if |
|---|---|---|---|---|---|
| Asynchronous rollout | `train_queue`, `eval_queue`, executor, `_last_loaded_step`, `_buffered_inputs`, `eval_flag`, `control.should_evaluate` | `_prefetch`, `_fast_infer`, `_move_model_to_vllm`, `async_generate_rollout`, `evaluation_loop`, `training_step`, `_dynamic_sampling` | HF training loop (callbacks), rollout server | two threads, busy waits, evaluation between two requests | no update under a running rollout; each rollout used once, in order, one generation late; training ends |
| Rollout server | per worker: pipe, communicator, weights, prefix cache; per server: running handler | `init_communicator`, `update_*`, `reset_*`, `infer`, `close_communicator` | client threads by HTTP, workers by pipes and NCCL | fire-and-forget commands, several servers, worker failures | every completion comes from the last version sent; replies answer the call they are taken for |
| Colocated rollout | per process: engine weights, adapter, cache, what sleeps, where model and optimizer are; dialogues still open | `_fast_infer`, wake and sleep, `_move_model_to_vllm`, offload, `_colocate_rollout`, `_colocate_multi_turn_infer` | all processes, by collectives; tensor-parallel groups | four sleep/adapter/offload options that combine; dialogues of different length behind one gather per turn | the engine samples with the policy being trained; one tenant per device; each completion goes to its own dialogue; nobody waits alone |
| Generation batch (server distribution, rewards, dynamic sampling, advantages, mini-batches) | per process: inputs, buffered inputs; gathered rewards; kept groups; `_step` | sampler, `_preprocess_inputs`, `_server_rollout`, `_score_completions`, `_dynamic_sampling`, `_compute_advantages`, `split_by_mini_batches`, `_compute_loss_chunked` | servers, workers, all processes | five different rules for dealing a list to processes, applied one after the other | every sample is trained with its own completion, reward and baseline, equally often, in as many passes on every process |
| Multi-turn rollout | `response_token_ids`, `response_loss_mask`, `rollout_logprobs`, messages | `MultiTurnScheduler.run`, `_colocate_multi_turn_infer`, `_postprocess_rollout_outputs`, `replace_assistant_response_with_ids` | user schedulers, engine, trainer | three lists kept in step over turns, in two copies of the loop | what is trained is the dialogue that took place |
| Data loaders and samplers | seed, batches left, `consumed_samples`, epoch, checkpoint | `BatchSamplerShard`, `SequenceParallelSampler`, `DataLoaderDispatcher`, Megatron samplers, `skip_first_batches`, `cyclic_iter` | HF or Megatron loop, other processes (scatter) | each process computes its share alone; state is rebuilt at a resume | a crash leaves no trace in the data; no row twice in a pass; processes stay in step |
| Sequence parallelism | per process: keys held and in flight, posted sends and receives, outputs, statistics, gradient buffers | `pad`, `split`, `gather`, ring forward and backward, `RingComm` | ring neighbours | zigzag halves per step and rank, reused buffers, two communicators | each token is scored from its own prefix; every gradient block comes home once; the ring completes |
| Transformers engine | `_queue`, `_task_pool`, worker thread, `_adapters_pool`, an asyncio queue per request | `infer_async`, `_fetch_infer_requests`, `_infer_worker`, `_infer_stream`, `_infer_full` | coroutines of the HTTP server, one thread | batching by config, errors inside a batch, streams sharing rounds | each caller gets its own, complete answer |
| Streaming packing | `_in_queue`, `_out_queue`, worker processes, carried-over samples | `_put_data_in_queue`, `_fetch_data_out_queue`, `calculate_matched_group`, `_processor` | DataLoader (iterates, may abandon) | results out of order, failing samples, interval ends | each encodable sample packed once, in dataset order; iteration ends |
| Map-style packing | `packed_idx` per worker, one queue | `create_packed_idx`, the master's drain loop | other ranks (broadcast) | interleaved workers, uneven shares | every index in exactly one pack |
| Everything else | | | | | not modelled, see section 8 |

`PROJECT.json` lists every component, and under `hazards` the places in the code
where something could go wrong that a unit test would hardly reach, with the
properties that would show it.

## 2. Modules and how they correspond to the code

**`AsyncRollout`** is the main rank of a GRPO training with
`async_generate=True` and a rollout server. `pc` is the place of the main
thread; the executor is the sequence `tasks` (head = the running task if
`busy`). A weight version is the `global_step` at which it was sent. The server
is reduced to one version per parameter group (`vllm`) and the versions with
blocks in its prefix cache (`cache`), so a rollout records in `seen` everything
it was sampled from. `FastInfer`, `LoadGroup`, `FinishMove` are the steps of
`_move_model_to_vllm`; they are separate because the worker thread runs between
them. `_queue` follows `control.should_evaluate`, not the model's mode, and so
does `CurrentQueue`. The training loop itself is external (Hugging Face): its
micro steps, gradient accumulation, epoch ends and the two places where it may
evaluate are modelled as far as the callbacks of this repository see them.

**`OneStepOffPolicy`** is what `async_generate` promises: a delay line with one
slot. **`AsyncRolloutRefinement`** instantiates it and states that
`AsyncRollout` implements it; the rollout of an evaluation batch is mapped to
number 0, so that handing one to training is not a step of the delay line.

**`RolloutServer`**: servers x workers, a pipe in each direction per worker.
A handler has no `await` between its `send`s, hence one action `Handle`;
receiving replies is one step per connection. `init` and `update` are
`fire_and_forget`: the client's thread meets the workers in a collective
(`Barrier`), and the worker loads the weights (`LoadWeights`) only afterwards.
`reset` and `infer` are answered. Clients follow each other; one that exits
closes its communicators by its `atexit` hook, unless it fails before the hook
is registered (`InitFails`). Which requests a worker gets is in `Distribution`.

**`ColocateRollout`**: `_fast_infer` on every process, from the wake-up to the
reload, with the collectives (gathers of parameters, of a tensor-parallel group,
of the numbers of open dialogues) as joint steps. Weights are the step they belong
to; what vLLM does on `sleep` and `wake_up` is external and stated in the module's
head. `args` is the command line, chosen once. **`MCColocateRollout`** names ten of
them: full training, every sleep level, an engine that wakes at once or in parts,
LoRA merged or kept apart, and multi-turn dialogues in groups of one and of two.
What a turn contains is in `MultiTurn`; here the scheduler's answers are a mask over
the open dialogues, and each goes on (1) or ends (0). **`Masking`** is the list
filtered by such a mask, which `MultiTurn` uses for the tokens with loss.

**`Distribution`** collects the pure index rules: `get_even_process_data`,
`chunk_list`, `_split_data_by_steps`, the client's chunks, the server's
placeholders, the passes of the chunked loss, strides and batches.
**`GenerationBatch`** applies them one after the other, as the trainer does, to
one generation batch after another. All processes meet in collectives
between any two of these steps and share nothing else, so a step of the model is a
step of every process. A completion is the request it answers, a reward is of a
completion, an advantage is the reward it starts from and the requests in its
baseline: what belongs together can be compared. **`MCGenerationBatch`** names the
command lines: `Plain`, `Straddling` (a group over two processes, tensor-parallel
inference), `Served`, `ServedOdd` (servers and workers without requests, uneven
shares), `ServedMultiTurn` (several samples per request, request-aware advantages),
`Resampling`, `SequenceParallel`, `Deleting` (rows that do not encode).

**`TrainingData`**: which rows every process trains on, step by step. The order
of an epoch is a permutation chosen once, so that a sampler built again with the
same seed gives the same one. A checkpoint is taken at any step, a crash takes
training back to the last one, and the loader is rebuilt as the code does it:
`SkipBatchSampler` and a new `BatchSamplerShard`, `_skip_batches` on rank 0,
`consumed_samples`, or nothing. `Sharding` is `data_sharding` as the Megatron
sampler ends up using it; where a whole pass has no batch, `cyclic_iter` turns for
ever, and `TrainIteration` is not enabled. An epoch without a batch ends the training,
as in the loop of transformers. **`MCTrainingData`** names each loader
with row counts that are and are not multiples of processes and batch.

**`SequenceLayout`** holds the layout of a packed row over a mesh (padding, zigzag
and Ulysses split, gather, GRPO's way from gathered log-probabilities back to a
batch) as operators. **`RingAttention`** is one attention layer over the ring,
forward and backward, on the CUDA and the NPU schedule. A tensor is what it is made
of: an output row is the list of keys that have entered it, a gradient row the list
of contributing queries, a logsumexp row the steps merged in it. Sends and receives
are posted and matched in order, a transfer takes place at any time after both sides
are posted, and the actions named `...Wait` need what they wait for. **`MCRingAttention`** names the meshes and rows.

**`TransformersEngine`**: coroutines (`InferAsync`, `StartInferWorker`,
`Receive`) and the worker thread. The pool is a sequence of entries, like the
insertion-ordered dict. A response is abstracted to what it was computed from.
`max_batch_size` and `strict` are attributes of the engine, chosen once. The rows of
a batch that encode (`Good`) are the batch filtered by `Masking`; `AddErrorList`
inserts the errors where their rows were. Requests
with an adapter occur with batch size 1 only (PEFT refuses an `adapter_names`
list shorter than the batch), at most `MaxNamed` of them. (`swift deploy` always sets `strict`.)

**`IterablePacking`**, **`PackedIndex`**: one action per turn of the loops that
touch a queue. `binpacking` is external; `BinPacking` allows every grouping it
may return. Which bin of the last call is held back is left open too.
**`Packing`** composes the two as `_post_process_datasets` does, by `--streaming`.

**`MultiTurn`** follows one dialogue. Tokens carry the turn they were generated
in (or 0 if the scheduler added them), and a log-probability is named by its
token, so that a shifted or misplaced list is visible. A scheduler is a plugin:
it is given by what its `step` returns (tokens, mask, nothing), by whether it
continues the message or asks again, and by whether the engine returns
log-probabilities. Both copies of the loop (server, colocated) are covered; they
differ in `AppendTurn`. **`MCMultiTurn`** names the sets of schedulers.

**Invariants and proofs.** `AsyncRolloutInvariant`, `RolloutServerInvariant`,
`ColocateRolloutInvariant`, `PackingInvariant`, `MultiTurnInvariant`,
`TransformersEngineInvariant` and `TrainingDataInvariant` each extend a model with
its inductive invariant, as a conjunction of named parts; `MultiTurnInvariant` also
names the schedulers that are `Supported`. They hold no proof, so that TLC can check
them too. The modules `...Proofs` beside them hold the
proofs, and **`BasicFacts`** the lemmas these share: lists, integer division,
flattened and masked lists, induction.

The field `map` of `PROJECT.json` gives the lines behind every definition.
Operators commented as "Variant" are not part of a model: each is a definition
with a plausible mistake, kept to show that a property notices it.

## 3. Runs

`tlc -config <cfg> <module>` in this directory; `PROJECT.json` names both for each
run. All finish within three minutes. Deadlock checking is off everywhere, since
every modelled activity ends: training is done, the requests are used up, the last
client has exited, the dialogue is encoded. Where stopping early would be wrong, a
liveness property says so.

| Run | Asks | Result |
|---|---|---|
| `async_aligned` | one generation per optimizer step, evaluation after any step and twice at the end, resampling | in order, one generation late, training ends; implements `OneStepOffPolicy` |
| `async_failures` | tasks that raise; 3 micro steps per generation, 2 per update, epochs that end inside an accumulation | updates quiet, rollouts untorn, staleness within its bound (training itself may hang) |
| `server_sync` | 2 servers x 2 workers, 2 buckets, 2 rounds, 2 clients, a call that raises, a worker that dies | all hold; without faults every round completes |
| `colocate_rollout` | ten command lines, up to 4 processes, 3 steps, 3 turns | all hold; every call returns on every process |
| `grpo_batch` | eight command lines, two generation batches each, every reward and every order of a server's samples | all hold |
| `multi_turn` | schedulers as the repository ships them | all hold |
| `training_data` | fourteen loaders and sizes, two epochs in every order, two crashes | all hold, but for the resumes named in `KnownGap` |
| `resume_epoch_order` | does a resume go on from the last step? | no, in a shuffled epoch after the first |
| `ring_attention` | eight meshes and packed rows, every order of transfers | all hold |
| `ring_block_statistics` | is the saved `block_lse` that of the block? | no, on ring rank 0 |
| `engine_queue` | batch sizes 0 (no limit), 1 and 2, strict or not, requests that do not encode or name an adapter, an exception | all hold |
| `packing` | streaming: 4 samples, intervals of 2, 2 workers, 2 iterations, `strict`; map style: 5 samples, 2 workers, batches of 2 | all hold |

### What the properties say

*Asynchronous rollout.* `QuietUpdate`: no weights are sent while a task runs or
waits. `SampledByRequestedPolicy`: a queued rollout saw exactly the policy synced
when it was requested, in weights and cache. `RefinesOneStepOffPolicy`: training
consumes its requests in order, none twice, one generation late. `BoundedStaleness`:
at most `UpdatesPerGeneration` updates behind, that is ceil(GenerateEvery / GradAccum),
and one more where an epoch of several generations ends in the middle of an
accumulation: the loop then makes a short accumulation and the one after it starts
anew. (Without that term, which the small instance does not need, the bound is
too small; the proof showed it.) `TrainingCompletes`.

*Server.* `UniformPolicy`, `SyncReachesEveryWorker` (the reset call, behind the
updates in each pipe, flushes them; this is the only acknowledgement there is),
`PairedReplies`, `RoundsComplete`. (A worker that dies before a collective leaves the
client's thread waiting in it; the last is stated for rounds without deaths.)

*Colocated rollout.* `SampledByCurrentPolicy`: weights, adapter and cached prefixes
in use are all of the current step, whatever was slept, discarded, merged or
skipped. `OneTenant`: while the engine's cache is allocated, what is to be offloaded
is off the device; while training, it is back and the engine sleeps. `OwnDialogue`,
`DistinctSeeds` (no two completions of a prompt are drawn with one seed),
`RolloutEnds`.

*Generation batch.* `OwnCompletion`, `AdvantageOfOwnReward`, `BaselineOfOwnPrompt`,
`ResampledOrOriginal` (every group trained on varies, or the retries ran out and the
batch is the first one, whole), `EachSampleTrained` (num_iterations times, once per
group of sequence-parallel processes), `PassesInStep`.

*Training data.* `ResumeGoesOn`: step i trains on the rows it would have trained on
without a crash. `EachRowOnce`, `ProcessesInStep`. `TrainingEnds`: at the last step, or
short of it where a stream has no batch left (`StreamUsedUp`).

*Sequence parallelism.* `LossOfOwnToken`: after padding, split, ring and gather the
loss of a token is computed from its own prefix against its successor, and where
GRPO's mask is set the log-probability is that of the masked token.
`GradientsComeHome`: each gradient block reaches its owner, once. `RingCompletes`.

*Engine.* `OwnAnswer` (whatever was batched with it; the adapter is one that a request
with this `request_config` named, which is all the pool guarantees, see section 6),
`StreamInOrder` (no gap; complete with batch size 1), `AnsweredOrDead`.

*Packing.* `PackedInDatasetOrder`, `EachSampleOnce`, `QuietYield` (nothing is in
a queue or a worker while the consumer has control, so an abandoned iteration
leaves nothing to the next), `IterationEndsOrDead`. For the map style
`EachIndexOnce`, `PackingEnds`.

*Multi-turn.* `TrainedOnOwnTokens`, `LossOnGenerated`, `LogprobsFollowLoss`.

Most modules also define `TypeOK` (`MapTypeOK` in `PackedIndex`), which documents the
shape of their state. Those of `AsyncRollout`, `RolloutServer` and
`TransformersEngine` are proved; only the first is part of a run. The others hold on the same instances and can be added to the `INVARIANTS` of the configuration.

### Bounds, and why they suffice

* Async: three optimizer steps reach the first, a middle and the last step, with
  an evaluation after each; two parameter groups are enough for a torn update,
  two eval batches for a rollout that belongs to another batch, one resample for
  two generations without a step in between. `async_failures` uses five steps so
  that the straddling pattern repeats.
* Server: two servers can be out of step with each other, two buckets can be half
  sent, two rounds leave old cache blocks, two clients reuse a communicator. One
  of two workers that raises or dies is enough to leave the other's reply behind.
  `MaxCalls` only limits how often a client calls again after an exception.
* Colocated: two parameter groups can be torn, three steps sleep and wake twice,
  three turns have a middle one; four processes make two tensor-parallel groups
  whose members and whose groups run out of dialogues at different turns.
* Generation batch: the smallest batches in which a group straddles processes, a
  server or a worker has no request, a request has two outputs, a resampled batch
  is kept in part; two generations show state left over from the first. Rewards 0
  and 1 decide whether a group varies; prompts that encode are interchangeable,
  hence the symmetry.
* Training data: with five rows and two processes one row is over; four make whole
  batches for Megatron, seven leave a remainder that is short; two crashes allow a
  resume from a checkpoint written after a resume; two epochs suffice for a
  permutation that differs from the first; a stream of one row has no whole round.
* Ring: three processes are the least with a step that is neither the first nor the
  last and ranks on both sides of the diagonal; four are even again. Lengths are
  below, at and above the padding unit, and shorter than the ring.
* Engine: three requests make a full batch and a remainder (batch size 2), with
  two configurations to group by; two failing ones test the insertion order. One
  that names an adapter can join, or create, an entry of one that names none.
* Packing: four samples in intervals of two end exactly at an interval, and
  failing samples make every shorter effective interval; two workers reorder.
  The run sets `strict`: as long as no row is malformed, that is also the
  behaviour without it, where a malformed row is answered like one too long.
  Five indices in two shares give one share that is a multiple of the batch size
  and one that is not.
* Multi-turn: three turns give a first, a middle and a last one; two tokens a
  turn can be truncated. `TurnBound` is only used beyond `max_turns`.

## 4. Fairness

Weak fairness of each thread or process that the code keeps running: the main
thread and the executor's worker; handlers, workers and client; the event loop
and the engine's worker thread; the iterating process and every worker process;
the training program in `TrainingData`; each process between two collectives in
`ColocateRollout` and `RingAttention`. Busy waits (`_wait_queue`, the two
`while not ...done()` loops) poll, so weak fairness is what they need. A collective
is one action of all its members, as NCCL completes when all have joined, and a
posted transfer takes place once both ends are posted. Nothing obliges a user
to submit a request, a consumer to iterate again, a trainer to save, a crashed
training to be resumed, or a fault to happen. That an inference request to the
server is eventually answered is assumed in `AsyncRollout` and is what
`RoundsComplete` shows of the server without faults.

## 5. Proofs

All theorems are about the specifications the runs check, for all values of the
constants that the named assumption of the module allows (numbers are positive
where zero makes no sense; a tensor-parallel size divides the number of processes).
TLC evaluates these assumptions in every run.

| Module | Theorem | States | Besides the constants' assumption |
|---|---|---|---|
| `AsyncRolloutProofs` | `TypeCorrect` | `[]TypeOK` | |
| | `UpdatesAreQuiet` | `[]QuietUpdate` | no `eval_on_start` |
| | `RolloutsAreUntorn` | `[]SampledByRequestedPolicy` | no `eval_on_start` |
| | `StalenessIsBounded` | `[]BoundedStaleness` | no `eval_on_start` |
| | `TrainsOneStepOffPolicy` | `RefinesOneStepOffPolicy` | no `eval_on_start`, no task raises |
| `RolloutServerProofs` | `ServerTypeCorrect` | `[]TypeOK` | |
| | `RepliesArePaired` | `[]PairedReplies` | |
| | `PolicyIsUniform` | `[]UniformPolicy` | |
| | `UpdatesAreFlushed` | `[]SyncReachesEveryWorker` | |
| `ColocateRolloutProofs` | `SamplesAreOnPolicy` | `[]SampledByCurrentPolicy` | |
| | `DeviceHasOneTenant` | `[]OneTenant` | |
| | `CompletionsReachTheirDialogue` | `[]OwnDialogue` | |
| | `SeedsAreDistinct` | `[]DistinctSeeds` | |
| `PackingProofs` | `IntervalsKeepOrder` | `[]PackedInDatasetOrder` | |
| | `NothingInFlightAtYield` | `[]QuietYield` | |
| | `SamplesAreYieldedOnce` | `[]EachSampleOnce` | |
| | `IndicesArePackedOnce` | `[]EachIndexOnce` | |
| `MultiTurnProofs` | `DialogueIsTrainedOn` | `[]TrainedOnOwnTokens` | `Schedulers \subseteq Supported` |
| | `LossIsOnGenerated` | `[]LossOnGenerated` | `Schedulers \subseteq Supported` |
| | `LogprobsAreOfLoss` | `[]LogprobsFollowLoss` | `Schedulers \subseteq Supported` |
| `TransformersEngineProofs` | `TypeCorrect` | `[]TypeOK` | |
| | `AnswersOfOwnRequest` | `[]OwnAnswer` | |
| | `StreamsInOrder` | `[]StreamInOrder` | |
| `TrainingDataProofs` | `TrainingGoesOn` | `[]ResumeGoesOn` | |
| | `BatchesInStep` | `[]ProcessesInStep` | |
| | `RowsOncePerPass` | `[]EachRowOnce` | |

The restrictions are those of the runs and are needed: under `eval_on_start` an
evaluation runs without `should_evaluate` and the phases no longer determine the
queues; a task that raises leaves the delay line without its rollout; and section 6
names schedulers outside `Supported` for which the properties fail.

Every invariant below was model-checked before it was proved. A proof that a step
keeps it has one case per action and under it one step per part that the action
disturbs; a part that a step leaves alone is covered by a frame lemma.

*Asynchronous rollout.* `QuietUpdate` needs to know why finding one item in
a queue means that the executor is idle. It is so because (a) at most one rollout
is outstanding for a queue when the trainer comes to a wait, two between the
submission and the `get`; (b) the executor never holds tasks for both queues at
once, which is what the waits in `evaluation_loop` and `training_step` achieve;
and (c) in the only case where more can be outstanding, two evaluations in a row
after the last step, the weights are synced already and are not sent.
The invariant states this as `TypeInv`, `PhaseInv` (should_evaluate agrees with the
phase), `StartInv`, `TrainInv`, `EvalInv` (the counts, by place of the main thread)
and `PolicyInv` (outside an update the server holds `last_loaded` only).
For the staleness, `StepInv` and `FreshInv` add that the version is a function of the
micro steps taken and that an outstanding rollout is at most one generation old; what
remains is arithmetic of rounded-up divisions. For the refinement, `DelayInv` and
`SlotInv` make the counts exact: between generations exactly one train rollout is
outstanding, it is the one requested last, and it is what the slot of
`OneStepOffPolicy` is mapped to. Each action is then a step of the delay line or
leaves the mapped state alone.

*Rollout server.* A reply could be that of an earlier call, because a handler that
raised has left its replies in the pipes; and an update could be overtaken, because
nobody acknowledges it. The invariant follows one command through the pipes:
`QuietServer` (no thread waits: nothing but closing of communicators is under way),
`InBroadcast`, `InCall` (where the command or its reply is, per connection) and
`SyncInv` (how far the worker has come with the version being sent). Two observations
carry it: a call is the last command in its pipe, since the client waits for it; and a
server with a dead worker never again brings a thread to wait for replies, so what is
left in its pipes is never read.

*Colocated rollout.* A process that skips the move relies on what an earlier call left
in the engine, and one that moves the adapter only relies on the base weights of an
earlier full move. `WeightsInv` says what the engine holds between two calls, by part
of `_fast_infer`; `AwakeInv` and `DeviceInv` say what is awake and where the trainer's
state is. For the dialogues, `OutputsInv`, `TurnsInv` and `HistoryInv` say that the
lists of a process agree place by place, and that a dialogue that goes on has had
every turn. The step that needs most is the joint one: the lists of a group are
concatenated and cut apart by their lengths, and `GatheredSlice` shows, by induction
on the number of processes, that each process gets back its own part and that the
parts follow one another. Hence also `SeedsInv`: within a group every place has its
own seed, and two groups are as far apart as a group has rows.

*Packing.* The streaming process only counts results. That each position then holds
its own sample follows from `CountInv` (each sample put is in exactly one of queue,
process and result), `FlightInv` (what is under way belongs to this interval) and
`CoverInv` (no position is lost unless a process died); `PartitionInv` says that packs
and carry-over partition the samples so far. The master of the map style only counts
end markers: `MarkerInv` places the marker behind everything a worker sends, `ReadInv`
says that what a worker has read is in its packs or held back, `ProgressInv` that the
progress bar counts the rows received.

*Multi-turn.* Tokens, masks and log-probabilities are collected in separate branches.
The invariant relates each of the three lists to the messages, turn by turn
(`ReturningInv`, `CollectingInv`, `TextInv`), and after the last turn to what is
trained (`CollectedInv`, `LogprobsInv`). Flattening and masking commute turn by turn
(`FlattenAppend`, `MaskedConcat`), which takes the turn-by-turn facts to the sample.

*Transformers engine.* Nothing in the engine says which caller an answer is for: a
batch is a list of requests, and answers, stream deltas and errors go back by
position. The invariant says that a request is in one place at a time, of its queue,
an entry of the pool and the batch (`Once`), and that an entry and a batch hold
requests of one request_config and the adapter of one of them (`PoolOfKeys`,
`BatchOfConfig`). Errors are put back at
the positions of the rows that did not encode; `InsertedAtPlaces` and `OutputsByRequest`
show, by induction over the batch, that the list is then aligned with it again, for
any mixture of good and bad rows. `NothingLost` is the order of a stream: what a caller has
read, followed by the text still on its asyncio queue, is what was generated for it.
With batches of one nothing follows the `None` that ends a request (`EndsOnce`), so a
caller that is done has read everything.

*Training data.* `ResumeGoesOn` compares what was trained on with an uninterrupted
training, but a step reads an iterator that was made earlier, by one of four rules: a
pass from its beginning, `SkippingLoader`, a sampler given the samples consumed, or the
turn of `cyclic_iter`. `LeftInv` says what they have in common: what the iterators hold
is the end of a whole pass, equally far into it on every process, and (`InPlace`) the
pass and the place that the number of steps stands for. `EpochInv` and `PassInv` say
that the loop enters an epoch at such a place, `ConsumedInv` that the Megatron samples
are those of the steps. What the rules have in common is arithmetic, proved once for any
number of processes: batches cut from a stride (`StrideLength`, `FullBatches`) are as
many on every process, because the list dealt has a multiple of them (`PassFacts`), and
the Megatron sampler, made anew from a number of samples, returns the end of the pass
they lie in (`MegatronSuffix`). The places are unequal only for the passes excluded by
`UnevenPass`. `EachRowOnce` then counts. Every row trained on has a place in the list
its pass dealt (`Place`, and `DealtRow`, the row there: the order dealt one by one, the
padded range of sequence parallelism, or a bucket per process). The places of a pass are
all different (`PlacesDiffer`) and reach every place of its whole rounds
(`PlacesCover`); a batch holds the rows of its places, and all the list has
(`PassDealt`); and of the data set, less than a global batch is left out of the list and
less than one of the whole rounds (`Enough`). `Counting` turns this into the two
cardinalities. No command line is excluded by an assumption; the resumes that do not go
on are those of `KnownGap`, in the property.

*Induction over data.* Library theorems with an operator parameter cannot be used by
the installed provers. `BasicFacts` therefore states induction over a set (`SetInduction`,
`SeqInduction`: a set of lists that contains the empty one and is closed under `Append`
is all of them), from the existence of a least element, and defines the set by what is
to be shown. Recursive functions are unfolded at their `CHOOSE`.

*Only model-checked.*

* All liveness properties: fairness and ENABLED are outside the prover.
* `GenerationBatch`, and `RingAttention` with `SequenceLayout`: the rules are nested
  folds, filters with `LAMBDA` and permutations. The induction above would reach them,
  after a restatement of these operators.
* `AnsweredOrDead` says what the engine eventually does, and stays with TLC like every
  other liveness property.

## 6. Disagreements found

Two are runs expected to fail, with the line they contradict under `findings`:

1. `resume_epoch_order`: a training resumed in the middle of a shuffled epoch other
   than the first goes on with the permutation of the first epoch. Rows of the
   interrupted epoch come again and others are left out.
2. `ring_block_statistics`: on the CUDA path the logsumexp saved for the block of
   step 0 is a view of the accumulated one and is overwritten on ring rank 0.

The following can be reproduced with the change named:

* *eval_on_start with async_generate*: the first `training_step` waits for an
  eval rollout that nobody produces. `EvalOnStart = TRUE` in
  `AsyncRollout_aligned.cfg` violates `TrainingCompletes`.
* *truncation_strategy delete*: rows replaced on one process shift the rows behind
  them, and a baseline then mixes prompts. `WholeGroups` instead of
  `BaselineOfOwnPrompt` in `GenerationBatch_modes.cfg`.
* *Streams batched together*: a round without text for a stream ends it.
  `StreamIsComplete` as an invariant of `TransformersEngine_queue.cfg`.
* *Adapters*: the pool of the Transformers engine does not distinguish them, and a
  request joins an entry made for another adapter. `OwnAdapter` as an invariant of
  `TransformersEngine_queue.cfg`.
* *strict with streaming packing*: the error is raised in a worker process, and the
  training process waits instead of raising: `IterationEndsOrDead` without its second
  disjunct is violated.
* *Multi-turn*, by the set of schedulers in `MultiTurn_supported.cfg`:
  `ServerAsksAgain` and `TextContinued` violate `TrainedOnOwnTokens` (the last turn
  is lost; a continued message is replaced by its last turn), `ColocateWithoutMask`
  violates `LossOnGenerated` (a mask for the last turn only).
* *Seeds*: `DistinctSeeds` is stated for the default, one generation per gradient
  accumulation. With more steps per generation the seeds of tensor-parallel groups
  are spaced too closely, and two groups that share a prompt draw with one seed
  (without the condition on the arguments: four processes, `tp` 2, two steps per
  generation, `num_generations` 8).
* *Resumes* (`KnownGap`): a stream resumed past one pass over the data runs out while
  rank 0 skips, and the other processes stay in the scatter (`pc = "hung"`); one
  resumed exactly at the end of a pass enters an epoch without a batch, which
  transformers takes for the end of training, short of `max_steps` (`StreamUsedUp`);
  `MegatronDataLoaderDispatcher` skips nothing on a resume
  (`docs/source_en/Megatron-SWIFT/Command-line-parameters.md:125`).
* *Uneven passes* (`UnevenPass`): the Megatron sampler gives processes different
  numbers of batches when the rows beyond a multiple of the global batch make
  another micro-batch; `BatchSamplerShard` never trains on the last N mod W rows of
  its permuted range.

Noted while reading, without a model:

* Under `async_generate` an eval batch is scored with the completions of the batch
  before it.
* `TransformersEngine` documents `max_batch_size` "0/1: no limit", but 1 means
  batches of one.
* `_dynamic_sampling` never examines the batch of its last retry.
* The CUDA ring backward computes `grad_block_lse` and does not use it: blocks are
  differentiated with their own statistics and the gradient through the logsumexp is
  left out, where the NPU path uses the global statistics.
* A comment in `npu_backward` says the gradients travel against the ring; they travel
  with it, which is right.
* Megatron GRPO: with pipeline and data parallelism the ranks of a rollout group are
  not neighbours, so a group of completions may mix prompts when
  `per_device_generation_batch_size` is no multiple of `num_generations`;
  `kl_in_reward` gathers lists of a group over all ranks.

## 7. Plan

Done: the modules of section 2, the runs of section 3, the proofs of section 5.

Proofs next: `OwnCompletion` and `EachSampleTrained` of `GenerationBatch`, with the
filters of `Distribution` restated by `Masked`.

Models after that: several ranks of `AsyncRollout` (those that do not own the
executor); `GYMScheduler` and `ThinkingModelTipsScheduler`; dynamic sampling with a
scheduler on the server; the GRPO trainer of Megatron; `research/agentic`: the frame
conversions and crop arithmetic, and the outcomes of a sandboxed run (timeout,
truncation, image cap), as operators.

## 8. Not modelled, and why

The modelled files are the part of the package with state shared by several threads,
processes or machines. The bulk of the repository has none: tables of models,
templates and datasets, layers and losses over tensors, argument classes, notebooks,
the web UI, wrappers around external tools. A module about them would restate the
code line by line, or leave out exactly what the lines say.

* Values of losses, advantages and importance weights, tuners, optimizers, and the
  activation offload of the callbacks: numeric tensor code.
* Megatron (except its samplers and data loop) and Ray: their concurrency is that of
  the external frameworks.
* vLLM, SGLang and LMDeploy engines: batching and scheduling happen inside them.
* Templates, models, agent templates, dataset preprocessing, export, evaluation,
  command line, hub, web UI: formatting, registries, sequential drivers, I/O.
* Within modelled components: `cyclic` packing; a DataLoader worker killed in the
  middle of a fetch; a weight load that fails or a cache reset that is refused,
  neither of which reaches the client; a client that vanishes without closing its
  communicators; requests that starve behind the first pool entry of the
  Transformers engine for as long as others join it; errors returned by a rollout
  server; evaluation batches of `GenerationBatch`; other ranks of the asynchronous
  trainer; `modules_to_save` where adapters are kept apart from the base weights, and
  what an older vLLM does when `add_lora` gets an adapter it holds (in
  `ColocateRollout` the adapter sent is the one used); of sequence parallelism, batches that are not padding-free, mrope and
  multimodal splits, sliding windows and the MoE auxiliary loss.
