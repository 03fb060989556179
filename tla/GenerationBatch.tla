-------------------------- MODULE GenerationBatch --------------------------
(***************************************************************************)
(* One GRPO generation batch, from the sampler to the loss: the prompts    *)
(* dealt to the processes, those that fail to encode replaced, the         *)
(* requests sent to engine or servers and their outputs merged back, the   *)
(* rewards gathered, the groups without variance resampled, the advantages *)
(* computed and dealt out, and the buffered mini-batches trained on        *)
(* num_iterations times.  All processes run the same program and meet in   *)
(* its collectives, so a step of the model is a step of every process; a   *)
(* list each process has its own of is a sequence over the processes.      *)
(*                                                                         *)
(* The command line is the rigid variable args: one run covers the modes   *)
(* the code chooses between.                                               *)
(***************************************************************************)
EXTENDS Distribution, TLC

CONSTANTS
    Prompts,          \* the rows of the training set
    TooLong,          \* the rows that template.encode rejects
    Args,             \* the command lines considered
    Rewards,          \* the values a completion's weighted reward may take
    MaxParts,         \* bound: outputs of one request under a server scheduler
    MaxGenerations    \* bound: generation batches before the model stops

ASSUME RowsAssumption == TooLong \subseteq Prompts

VARIABLES
    args,       \* self.args, see ValidArgs
    pc,         \* the stage all processes are in
    step,       \* self._step
    count,      \* resample_count of _dynamic_sampling
    dynamic_num_samples,
    inputs,     \* the local samples of each process
    rewards,    \* total_rewards_per_func, on every process: [of, value]
    origin,     \* origin_data of _dynamic_sampling
    valid,      \* valid_samples and valid_rewards_per_func, position by position
    buffered,   \* self._buffered_inputs of each process
    trained,    \* history: the samples each process trained on, in order
    passes      \* history: the passes of the last loss of each process

vars == <<args, pc, step, count, dynamic_num_samples, inputs, rewards, origin,
          valid, buffered, trained, passes>>

-----------------------------------------------------------------------------
(* Arguments. *)

Procs == 1 .. args.world_size
PerDevice == args.per_device_train_batch_size * args.steps_per_generation
generation_batch_size == args.world_size * PerDevice

\* _init_generation_batch_params with steps_per_generation given or taken from
\* gradient_accumulation_steps: the batch must be made of whole groups.
init_generation_batch_params(a) ==
    /\ a.steps_per_generation > 0
    /\ a.num_generations > 1 =>
         (a.per_device_train_batch_size * a.world_size * a.steps_per_generation)
            % a.num_generations = 0

\* The combinations of one another that the trainer can be started with.
ValidArgs(a) ==
    /\ init_generation_batch_params(a)
    /\ a.world_size % a.sequence_parallel_size = 0
    /\ a.world_size % a.vllm_tensor_parallel_size = 0
    /\ a.enable_server_multi_turn => a.vllm_mode = "server"
    /\ a.vllm_mode = "server" => a.vllm_tensor_parallel_size = 1

num_rollout_samples == args.steps_per_generation * args.sequence_parallel_size
generate_every == num_rollout_samples * args.num_iterations

-----------------------------------------------------------------------------
(* The data loader and the requests. *)

\* RepeatSampler (trl): distinct prompts, each num_generations times in a row,
\* dealt to the processes in consecutive generation batches.
SamplerBatches ==
    LET groups == generation_batch_size \div args.num_generations
    IN  {[p \in Procs |-> [k \in 1 .. PerDevice |->
            [prompt |-> order[((p - 1) * PerDevice + k - 1) \div args.num_generations + 1]]]]
           : order \in Injection(1 .. groups, Prompts)}

\* resample_encode_failed_inputs on one process: the samples that encode, in
\* order, and behind them rows of truncated_resample_iterator, which yields
\* every row once (num_generations is 1 while it is built), that encode.
EncodedInputs(local) ==
    LET ok == SelectSeq(local, LAMBDA s : s.prompt \notin TooLong)
    IN  {ok \o [i \in 1 .. Len(local) - Len(ok) |-> [prompt |-> fill[i]]]
           : fill \in [1 .. Len(local) - Len(ok) -> Prompts \ TooLong]}

\* Variant: the prompt ids are numbered without the gather.
AddIdsLocally(local) ==
    LET prompt_id(p, k) == Cardinality({local[p][i].prompt : i \in 1 .. k} \ {local[p][k].prompt})
    IN  [p \in Procs |-> [k \in 1 .. Len(local[p]) |->
           [prompt |-> local[p][k].prompt,
            prompt_id |-> prompt_id(p, k),
            request_id |-> <<count, StartOf(local, p - 1) + k>>]]]

\* _add_prompt_id_to_inputs: equal messages of this gather share a prompt id,
\* numbered by first occurrence; every sample gets a request id of its own (a
\* uuid: here the round it was asked in and its place in the gathered list).
AddIds(local) ==
    LET all == [i \in 1 .. Len(Gather(local)) |-> Gather(local)[i].prompt]
        first(m) == CHOOSE i \in 1 .. Len(all) : all[i] = m /\ \A j \in 1 .. i - 1 : all[j] # m
        prompt_id(m) == Cardinality({all[i] : i \in 1 .. first(m) - 1})
    IN  [p \in Procs |-> [k \in 1 .. Len(local[p]) |->
           [prompt |-> local[p][k].prompt,
            prompt_id |-> prompt_id(local[p][k].prompt),
            request_id |-> <<count, StartOf(local, p - 1) + k>>]]]

-----------------------------------------------------------------------------
(* Rollout.  An output names the request it answers and, when the server's   *)
(* scheduler turns one request into several samples, which of them it is.    *)

Output(request, part) == [id |-> request.request_id, part |-> part]

\* What an engine returns for a list of requests, parts[id] outputs for each.
Answers(requests, parts) ==
    FlattenSeq([i \in 1 .. Len(requests) |->
        [k \in 1 .. parts[requests[i].request_id] |-> Output(requests[i], k)]])

Placeholder == [request_id |-> <<>>]

\* _colocate_rollout: the tensor-parallel group infers the list of its members
\* and each keeps the outputs of its own part.
colocate_rollout(local) ==
    LET tp == args.vllm_tensor_parallel_size
        group(p) == [i \in 1 .. tp |-> local[((p - 1) \div tp) * tp + i]]
        start(p) == StartOf(group(p), (p - 1) % tp)
        once == [r \in {s.request_id : s \in ToSet(Gather(local))} |-> 1]
    IN  [p \in Procs |-> Slice(Answers(Gather(group(p)), once),
                               start(p), start(p) + Len(local[p]))]

\* _sort_by_request_id, a stable sort; uuids order the requests arbitrarily.
sort_by_request_id(outputs, order) ==
    FlattenSeq([i \in 1 .. Len(order) |->
        SelectSeq(outputs, LAMBDA o : o.id = order[i])])

\* The outputs the main process holds after _engine_infer.
ServerOutputs(local, parts, order) ==
    LET requests == Gather(local)
        answers == [s \in ToSet(requests) \cup {Placeholder} |-> Answers(<<s>>, parts)]
        outputs == client_infer(requests, args.num_servers, args.num_workers,
                                Placeholder, answers)
    IN  IF Len(outputs) # Len(requests) THEN sort_by_request_id(outputs, Append(order, Placeholder.request_id))
        ELSE outputs

\* _server_rollout: broadcast, then each process takes the outputs of its own
\* requests, or an even share when there are more outputs than requests.
server_rollout(local, outputs, dynamic) ==
    [p \in Procs |->
       IF dynamic THEN get_even_process_data(outputs, args.world_size, p - 1)
       ELSE Slice(outputs, StartOf(local, p - 1), StartOf(local, p - 1) + Len(local[p]))]

Merge(sample, output) ==
    [prompt |-> sample.prompt, prompt_id |-> sample.prompt_id,
     request_id |-> sample.request_id, part |-> output.part, completion |-> output]

\* _postprocess_rollout_outputs: by position, or by request id over the
\* gathered inputs when the numbers differ.
postprocess_rollout_outputs(local, outputs, dynamic) ==
    [p \in Procs |-> [k \in 1 .. Len(outputs[p]) |->
       Merge(IF dynamic
             THEN CHOOSE s \in ToSet(Gather(local)) : s.request_id = outputs[p][k].id
             ELSE local[p][k],
             outputs[p][k])]]

-----------------------------------------------------------------------------
(* Rewards, groups and advantages. *)

\* The identity of a sample, to follow its reward and its advantage.
KeyOf(sample) == <<sample.request_id, sample.part>>

\* The places of the gathered batch with which place i shares its statistics:
\* its block of num_generations rewards, or, in request-aware mode, the last
\* sample of every request with the same prompt id.
GroupOf(samples, i, dynamic) ==
    IF dynamic
    THEN {j \in get_last_indices([k \in 1 .. Len(samples) |-> samples[k].request_id]) :
            samples[j].prompt_id = samples[i].prompt_id}
    ELSE LET block == (i - 1) \div args.num_generations
         IN  {j \in 1 .. Len(samples) : (j - 1) \div args.num_generations = block}

\* compute_std > 0: the rewards of the group differ.
Varies(samples, values, i, dynamic) ==
    \E a, b \in GroupOf(samples, i, dynamic) : values[a].value # values[b].value

\* "Inconsistent rewards detected for request_id"
ConsistentRewards(samples, values) ==
    \A i, j \in 1 .. Len(samples) :
        samples[i].request_id = samples[j].request_id => values[i].value = values[j].value

\* Variant: the way back from unique requests to samples goes by prompt id.
RewardUsedByPrompt(samples, i, dynamic) ==
    IF dynamic
    THEN CHOOSE j \in get_last_indices([k \in 1 .. Len(samples) |-> samples[k].request_id]) :
            samples[j].prompt_id = samples[i].prompt_id
    ELSE i

\* The reward an advantage starts from: the sample's own, or, in request-aware
\* mode, that of the last sample of its request.
RewardUsed(samples, i, dynamic) ==
    IF dynamic
    THEN CHOOSE j \in get_last_indices([k \in 1 .. Len(samples) |-> samples[k].request_id]) :
            samples[j].request_id = samples[i].request_id
    ELSE i

\* compute_advantages: an advantage is the reward it starts from and the
\* requests whose rewards are its baseline.
compute_advantages(samples, values, dynamic) ==
    [i \in 1 .. Len(samples) |->
        [reward |-> values[RewardUsed(samples, i, dynamic)],
         baseline |-> {values[j].of[1] : j \in GroupOf(samples, i, dynamic)}]]

\* Variant: every process splits its own samples only.
split_own_samples(local) ==
    [p \in Procs |-> split_data_by_steps(local[p], num_rollout_samples)]

\* split_by_mini_batches: a sequence-parallel group first gathers the samples
\* of its members, so that all of them train on every mini-batch.
split_by_mini_batches(local) ==
    LET sp == args.sequence_parallel_size
        group(p) == [i \in 1 .. sp |-> local[((p - 1) \div sp) * sp + i]]
    IN  [p \in Procs |-> split_data_by_steps(Gather(group(p)), num_rollout_samples)]

-----------------------------------------------------------------------------
Nobody == [p \in Procs |-> <<>>]

Init ==
    /\ args \in {a \in Args : ValidArgs(a)}
    /\ pc = "fetch" /\ step = 0 /\ count = 0
    /\ dynamic_num_samples = FALSE
    /\ inputs = Nobody /\ rewards = <<>>
    /\ origin = [inputs |-> Nobody, rewards |-> <<>>]
    /\ valid = <<>>
    /\ buffered = Nobody /\ trained = Nobody /\ passes = Nobody

AfterFetch == IF args.truncation_strategy = "raise" THEN "encode" ELSE "generate"

\* The loader's next generation batch, used when the buffer is exhausted.
FetchTrainBatch ==
    /\ pc = "fetch"
    /\ step % generate_every = 0
    /\ step < MaxGenerations * generate_every
    /\ inputs' \in SamplerBatches
    /\ pc' = AfterFetch
    /\ count' = 0
    /\ rewards' = <<>> /\ valid' = <<>>
    /\ origin' = [inputs |-> Nobody, rewards |-> <<>>]
    /\ buffered' = Nobody /\ trained' = Nobody /\ passes' = Nobody
    /\ UNCHANGED <<args, step, dynamic_num_samples>>

\* next(self.dynamic_resample_iterator) in the loop of _dynamic_sampling.
FetchResampleBatch ==
    /\ pc = "resample"
    /\ inputs' \in SamplerBatches
    /\ pc' = AfterFetch
    /\ count' = count + 1
    /\ UNCHANGED <<args, step, dynamic_num_samples, rewards, origin, valid,
                   buffered, trained, passes>>

\* resample_encode_failed_inputs; a process that does not collect enough rows
\* in its rounds raises, and the others wait for it in the next gather.
ResampleEncodeFailedInputs ==
    /\ pc = "encode"
    /\ \/ /\ inputs' \in {f \in [Procs -> UNION {EncodedInputs(inputs[p]) : p \in Procs}] :
                            \A p \in Procs : f[p] \in EncodedInputs(inputs[p])}
          /\ pc' = "generate"
       \/ /\ \E p \in Procs : \E s \in ToSet(inputs[p]) : s.prompt \in TooLong
          /\ pc' = "raised"
          /\ UNCHANGED inputs
    /\ UNCHANGED <<args, step, count, dynamic_num_samples, rewards, origin, valid,
                   buffered, trained, passes>>

\* _generate_completions on an engine of the process's own.
ColocateGenerate ==
    /\ pc = "generate" /\ args.vllm_mode = "colocate"
    /\ LET local == AddIds(inputs)
       IN  inputs' = postprocess_rollout_outputs(local, colocate_rollout(local), FALSE)
    /\ pc' = "score"
    /\ UNCHANGED <<args, step, count, dynamic_num_samples, rewards, origin, valid,
                   buffered, trained, passes>>

\* _generate_completions through the rollout servers.
ServerGenerate ==
    /\ pc = "generate" /\ args.vllm_mode = "server"
    /\ LET local == AddIds(inputs)
           ids   == {s.request_id : s \in ToSet(Gather(local))}
       IN  \E parts \in [ids -> 1 .. (IF args.enable_server_multi_turn THEN MaxParts ELSE 1)],
              order \in SetToSeqs(ids) :
             LET sent    == parts @@ (Placeholder.request_id :> 1)
                 outputs == ServerOutputs(local, sent, order)
                 dynamic == args.enable_server_multi_turn
                              /\ Len(outputs) # Len(Gather(local))
             IN  /\ dynamic_num_samples' = dynamic
                 /\ inputs' = postprocess_rollout_outputs(local,
                                server_rollout(local, outputs, dynamic), dynamic)
    /\ pc' = "score"
    /\ UNCHANGED <<args, step, count, rewards, origin, valid, buffered, trained, passes>>

\* _score_completions: each process scores its samples, the rewards are
\* gathered.
ScoreCompletions ==
    /\ pc = "score"
    /\ LET all == Gather(inputs)
       IN  \E value \in [1 .. Len(all) -> Rewards] :
             rewards' = [i \in 1 .. Len(all) |-> [of |-> KeyOf(all[i]), value |-> value[i]]]
    /\ pc' = IF ~args.dynamic_sample THEN "advantage"
             ELSE IF count < args.max_resample_times THEN "filter" ELSE "give_up"
    /\ origin' = IF args.dynamic_sample /\ count = 0
                 THEN [inputs |-> inputs, rewards |-> rewards'] ELSE origin
    /\ UNCHANGED <<args, step, count, dynamic_num_samples, inputs, valid, buffered,
                   trained, passes>>

\* One turn of the loop of _dynamic_sampling: keep the groups whose rewards
\* vary; enough of them end the loop, each process taking its slice.
KeepVaryingGroups ==
    /\ pc = "filter"
    /\ LET all  == Gather(inputs)
           keep == SelectSeq([i \in 1 .. Len(all) |-> i],
                             LAMBDA i : Varies(all, rewards, i, dynamic_num_samples))
           kept == valid \o [i \in 1 .. Len(keep) |->
                               [sample |-> all[keep[i]], reward |-> rewards[keep[i]]]]
           full == SubSeq(kept, 1, generation_batch_size)
       IN  IF Len(kept) >= generation_batch_size
           THEN /\ inputs' = [p \in Procs |->
                     LET mine == Slice(full, (p - 1) * Len(inputs[p]), p * Len(inputs[p]))
                     IN  [k \in 1 .. Len(mine) |-> mine[k].sample]]
                /\ rewards' = [i \in 1 .. generation_batch_size |-> full[i].reward]
                /\ valid' = <<>>
                /\ pc' = "advantage"
           ELSE /\ valid' = kept
                /\ pc' = "resample"
                /\ UNCHANGED <<inputs, rewards>>
    /\ UNCHANGED <<args, step, count, dynamic_num_samples, origin, buffered, trained, passes>>

\* Variant: the last resampled batch is used, unexamined.
KeepLastBatch ==
    /\ pc = "give_up"
    /\ valid' = <<>>
    /\ pc' = "advantage"
    /\ UNCHANGED <<args, step, count, dynamic_num_samples, inputs, rewards, origin,
                   buffered, trained, passes>>

\* max_resample_times rounds were not enough: the batch first generated is
\* used, the last one resampled is not looked at.
GiveUpResampling ==
    /\ pc = "give_up"
    /\ inputs' = origin.inputs
    /\ rewards' = origin.rewards
    /\ valid' = <<>>
    /\ pc' = "advantage"
    /\ UNCHANGED <<args, step, count, dynamic_num_samples, origin, buffered, trained, passes>>

\* _compute_advantages, dealt back with get_even_process_data, and the
\* mini-batches they are stacked into; the length assertion and the check of
\* one reward per request end the program.
ComputeAdvantages ==
    /\ pc = "advantage"
    /\ LET all == Gather(inputs)
           advantages == compute_advantages(all, rewards, dynamic_num_samples)
           local == [p \in Procs |-> get_even_process_data(advantages, args.world_size, p - 1)]
           given == [p \in Procs |-> [k \in 1 .. Len(inputs[p]) |->
                       [sample |-> inputs[p][k], advantage |-> local[p][k]]]]
       IN  IF /\ \A p \in Procs : Len(local[p]) = Len(inputs[p])
              /\ dynamic_num_samples => ConsistentRewards(all, rewards)
           THEN /\ buffered' = split_by_mini_batches(given)
                /\ pc' = "train"
           ELSE /\ pc' = "raised"
                /\ UNCHANGED buffered
    /\ UNCHANGED <<args, step, count, dynamic_num_samples, inputs, rewards, origin,
                   valid, trained, passes>>

\* _prepare_inputs hands out the buffered slice of this step; the loss is
\* computed in one pass, or in chunks when a mini-batch outgrew its size.
TrainStep ==
    /\ pc = "train"
    /\ LET batch == [p \in Procs |-> buffered[p][(step % num_rollout_samples) + 1]]
           size  == [p \in Procs |-> Len(batch[p])]
           should_chunk == dynamic_num_samples
                             /\ \E p \in Procs : size[p] > args.per_device_train_batch_size
       IN  /\ trained' = [p \in Procs |-> trained[p] \o batch[p]]
           /\ passes' = [p \in Procs |->
                IF should_chunk
                THEN chunk_passes(size[p], {size[q] : q \in Procs},
                                  args.per_device_train_batch_size)
                ELSE <<[start |-> 0, end |-> size[p], is_dummy |-> FALSE]>>]
    /\ step' = step + 1
    /\ pc' = IF step' % generate_every = 0 THEN "fetch" ELSE "train"
    /\ UNCHANGED <<args, count, dynamic_num_samples, inputs, rewards, origin, valid, buffered>>

Next ==
    \/ FetchTrainBatch
    \/ FetchResampleBatch
    \/ ResampleEncodeFailedInputs
    \/ ColocateGenerate
    \/ ServerGenerate
    \/ ScoreCompletions
    \/ KeepVaryingGroups
    \/ GiveUpResampling
    \/ ComputeAdvantages
    \/ TrainStep

Spec == Init /\ [][Next]_vars

-----------------------------------------------------------------------------
(* Properties. *)

Everyone == Gather(inputs)
Generated == pc \in {"score", "filter", "give_up", "advantage", "train"}

TypeOK ==
    /\ args \in Args
    /\ pc \in {"fetch", "encode", "generate", "score", "filter", "resample",
               "give_up", "advantage", "train", "raised"}
    /\ step \in 0 .. MaxGenerations * generate_every
    /\ count \in 0 .. args.max_resample_times
    /\ dynamic_num_samples \in BOOLEAN
    /\ \A p \in Procs : \A s \in ToSet(inputs[p]) : s.prompt \in Prompts
    /\ \A i \in 1 .. Len(rewards) : rewards[i].value \in Rewards

\* Every sample is scored and trained with the completion of its own request,
\* each output exactly once: whatever servers, workers, tensor-parallel groups
\* and slices it went through, no completion is lost, doubled or given to
\* another prompt (VLLMClient.infer, SwiftRolloutDeploy.infer, _server_rollout,
\* _colocate_rollout, _postprocess_rollout_outputs).
OwnCompletion ==
    Generated =>
        /\ \A s \in ToSet(Everyone) : s.completion.id = s.request_id
        /\ Cardinality({KeyOf(s) : s \in ToSet(Everyone)}) = Len(Everyone)
        /\ pc = "score" => {s.request_id : s \in ToSet(Everyone)}
                             = {<<count, i>> : i \in 1 .. generation_batch_size}

\* The advantage a process stacks next to a sample was computed from that
\* sample's reward, although it was computed on the gathered rewards and dealt
\* out by another rule than the samples were (get_even_process_data); the two
\* rules give every process the same number.
AdvantageOfOwnReward ==
    /\ pc = "advantage" => \A p \in Procs :
         EvenSize(Len(Everyone), args.world_size, p - 1) = Len(inputs[p])
    /\ \A p \in Procs : \A k \in 1 .. Len(buffered[p]) : \A e \in ToSet(buffered[p][k]) :
         /\ e.advantage.reward.of[1] = e.sample.request_id
         /\ \E i \in 1 .. Len(rewards) :
              rewards[i] = [of |-> KeyOf(e.sample), value |-> e.advantage.reward.value]

\* The requests of the gathered batch that ask the same prompt as the sample,
\* in the same round.
SamePrompt(sample) ==
    {s.request_id : s \in {t \in ToSet(Everyone) :
        t.prompt = sample.prompt /\ t.request_id[1] = sample.request_id[1]}}

WholeGroups ==
    \A p \in Procs : \A k \in 1 .. Len(buffered[p]) : \A e \in ToSet(buffered[p][k]) :
        /\ e.advantage.baseline = SamePrompt(e.sample)
        /\ Cardinality(e.advantage.baseline) = args.num_generations

\* A sample's baseline is the num_generations completions of its own prompt
\* and nothing else, in default and in request-aware mode, with groups that
\* straddle processes and after resampling, as long as no row is rejected by
\* the encoder (_compute_advantages, _dynamic_sampling).
BaselineOfOwnPrompt == args.truncation_strategy # "raise" => WholeGroups

\* After dynamic sampling either every sample trained on belongs to a group
\* whose rewards vary, or the retries ran out and the batch is the one first
\* generated, whole (_dynamic_sampling).
ResampledOrOriginal ==
    (args.dynamic_sample /\ pc = "advantage") =>
        \/ \A i \in 1 .. Len(Everyone) : Varies(Everyone, rewards, i, FALSE)
        \/ /\ count = args.max_resample_times
           /\ {s.request_id : s \in ToSet(Everyone)}
                = {<<0, i>> : i \in 1 .. generation_batch_size}

TimesTrained(p, sample) ==
    Cardinality({i \in 1 .. Len(trained[p]) : trained[p][i].sample = sample})

\* When the next generation batch is fetched, every sample of the last one has
\* been trained on exactly num_iterations times by every member of one
\* sequence-parallel group and by no other process (_prepare_inputs,
\* split_by_mini_batches).
EachSampleTrained ==
    (pc = "fetch" /\ step > 0) =>
        \A s \in ToSet(Everyone) : \E g \in 0 .. args.world_size \div args.sequence_parallel_size - 1 :
            \A p \in Procs :
                TimesTrained(p, s) = IF (p - 1) \div args.sequence_parallel_size = g
                                     THEN args.num_iterations ELSE 0

\* The processes make the same number of passes over their mini-batches, so
\* they meet in every collective of the forward pass; on each process the real
\* passes cover the rows of the mini-batch once and in order, none is larger
\* than the configured batch, and a dummy pass finds the inputs of a real one
\* to repeat (_compute_loss_chunked).
PassesInStep ==
    (passes # Nobody) =>
        \A p \in Procs :
            LET real == SelectSeq(passes[p], LAMBDA c : ~c.is_dummy)
                rows == Len(buffered[p][((step - 1) % num_rollout_samples) + 1])
            IN  /\ \A q \in Procs : Len(passes[p]) = Len(passes[q])
                /\ FlattenSeq([i \in 1 .. Len(real) |->
                       [k \in 1 .. real[i].end - real[i].start |-> real[i].start + k]])
                     = [k \in 1 .. rows |-> k]
                /\ rows > 0 => ~passes[p][1].is_dummy
                /\ \A i \in 1 .. Len(real) :
                     real[i].end - real[i].start <= args.per_device_train_batch_size
=============================================================================
