--------------------------- MODULE ColocateRollout ---------------------------
(***************************************************************************)
(* Colocated rollout: every training process holds a vLLM engine on its    *)
(* own device, and trainer and engine take turns on it.  _fast_infer of    *)
(* swift/rlhf_trainers/rollout_mixin.py wakes the engine, moves the        *)
(* weights of the current step to it, offloads the trainer's state,        *)
(* generates (turn after turn for a multi-turn scheduler) and puts the     *)
(* engine back to sleep.  The processes run on their own between the       *)
(* collective calls; a collective is one step of all the processes of its  *)
(* group.  tp processes next to each other share the layers of one engine  *)
(* and generate together.                                                  *)
(*                                                                         *)
(* Weights are the global step they belong to.  Of vLLM (external) the     *)
(* model keeps: sleep(1) keeps the weights, sleep(2) discards them, either *)
(* drops the cache; wake_up(tags) brings back the parts named; a prefix    *)
(* cache holds what earlier generations computed until it is reset.        *)
(***************************************************************************)
EXTENDS Masking, FiniteSets, SequencesExt

CONSTANTS
    Args,     \* the command lines considered
    Groups    \* parameter groups of split_batches

ASSUME ColocateAssumption ==
    /\ Groups \in Nat \ {0}
    /\ \A a \in Args :
          /\ a.tp \in Nat \ {0} /\ a.num_processes \in Nat \ {0} /\ a.max_steps \in Nat
          /\ a.num_processes % a.tp = 0 /\ a.sleep_level \in Nat
          /\ a.max_turns \in Nat \ {0} /\ a.per_device \in Nat \ {0}
          /\ a.gradient_accumulation \in Nat \ {0} /\ a.steps_per_generation \in Nat \ {0}

VARIABLES
    args,        \* [num_processes, max_steps, tuner, enable_lora, sleep_level,
                 \*  tags, offload_model, offload_optimizer, zero3, tp,
                 \*  multi_turn, max_turns, per_device, num_generations,
                 \*  gradient_accumulation, steps_per_generation]
    global_step,
    pc,          \* per process: the part of _fast_infer it is in, or "train"
    last_loaded_step, base_sync_done,
    group,       \* the next parameter group to move
    weights,     \* per process and group: what its engine holds
    lora,        \* per process: the adapter its engine holds
    asleep,      \* per process: the parts of its engine that sleep
    prefixes,    \* per process: the steps whose prefixes its engine caches
    device,      \* per process: [model, optimizer |-> "gpu", "cpu" or "none"]
    index_to_infer, outputs, current_turn,
    history,     \* per process and input: the completions of its dialogue
    collected    \* per process: the inputs whose rollout_outputs entry is set

syncVars  == <<last_loaded_step, base_sync_done, group, weights, lora>>
turnVars  == <<index_to_infer, outputs, current_turn, history, collected>>
vars == <<args, global_step, pc, syncVars, asleep, prefixes, device, turnVars>>

Ranks == 0 .. args.num_processes - 1
AllRanks == UNION {0 .. a.num_processes - 1 : a \in Args}
Rows  == args.per_device * args.steps_per_generation
Inputs == 1 .. Rows

Disk == -1   \* the weights of model_dir; a LoRA model's base weights
Lost == -2   \* discarded by sleep(2), or never loaded
Weights == {Disk, Lost} \cup 0..args.max_steps
Tags == {"weights", "kv_cache"}

is_peft == args.tuner = "lora"
rollout_enable_lora == is_peft /\ args.enable_lora

TpGroup(r) == {q \in Ranks : q \div args.tp = r \div args.tp}

(* The processes that move parameters together: GatheredParameters of      *)
(* ZeRO-3 is a collective of all of them.                                  *)
MoveTeam(r) == IF args.zero3 THEN Ranks ELSE {r}

(* The engine is created, and put to sleep, inside the offload context.    *)
Init ==
    /\ args \in Args
    /\ global_step = 0
    /\ pc = [r \in Ranks |-> "train"]
    /\ last_loaded_step = [r \in Ranks |-> -1]
    /\ base_sync_done = [r \in Ranks |-> FALSE]
    /\ group = [r \in Ranks |-> 1]
    /\ weights = [r \in Ranks |-> [g \in 1..Groups |->
                     IF args.sleep_level = 2 THEN Lost ELSE Disk]]
    /\ lora = [r \in Ranks |-> Lost]
    /\ asleep = [r \in Ranks |-> IF args.sleep_level > 0 THEN Tags ELSE {}]
    /\ prefixes = [r \in Ranks |-> {}]
    /\ device = [r \in Ranks |-> [model |-> "gpu", optimizer |-> "none"]]
    /\ index_to_infer = [r \in Ranks |-> <<>>]
    /\ outputs = [r \in Ranks |-> <<>>]
    /\ current_turn = [r \in Ranks |-> 1]
    /\ history = [r \in Ranks |-> [i \in Inputs |-> <<>>]]
    /\ collected = [r \in Ranks |-> {}]

-----------------------------------------------------------------------------
(* The training loop, the same on every process.                           *)

(* An optimizer step: the gradients are reduced over all processes.        *)
TrainStep ==
    /\ \A r \in Ranks : pc[r] = "train"
    /\ global_step < args.max_steps
    /\ global_step' = global_step + 1
    /\ device' = [r \in Ranks |-> [device[r] EXCEPT !.optimizer = "gpu"]]
    /\ UNCHANGED <<args, pc, syncVars, asleep, prefixes, turnVars>>

(* A generation batch is due, in training or in evaluation; at max_steps   *)
(* training is over.                                                       *)
Generate ==
    /\ \A r \in Ranks : pc[r] = "train"
    /\ global_step < args.max_steps
    /\ pc' = [r \in Ranks |-> "wake"]
    /\ UNCHANGED <<args, global_step, syncVars, asleep, prefixes, device, turnVars>>

-----------------------------------------------------------------------------
(* _fast_infer up to the rollout.                                          *)

(* Variant: the step alone decides, also when sleep(2) dropped the weights.*)
MoveNeededByStep(r) == global_step # last_loaded_step[r]

MoveNeeded(r) == global_step # last_loaded_step[r] \/ args.sleep_level = 2

(* _move_model_to_vllm: the whole model, or the adapter only.              *)
FullMove(r) ==
    \/ ~is_peft \/ ~base_sync_done[r] \/ args.sleep_level = 2
    \/ ~rollout_enable_lora

(* Variant: the whole engine is woken.                                     *)
WakeWeightsAll(r) ==
    /\ pc[r] = "wake"
    /\ asleep' = [asleep EXCEPT ![r] = {}]
    /\ pc' = [pc EXCEPT ![r] = IF ~MoveNeeded(r) THEN "offload"
                               ELSE IF FullMove(r) THEN "move" ELSE "adapter"]
    /\ group' = [group EXCEPT ![r] = 1]
    /\ UNCHANGED <<args, global_step, last_loaded_step, base_sync_done, weights,
                   lora, prefixes, device, turnVars>>

(* The weights wake, or the whole engine if it cannot wake in parts.        *)
WakeWeights(r) ==
    /\ pc[r] = "wake"
    /\ asleep' = [asleep EXCEPT ![r] = IF args.tags THEN @ \ {"weights"} ELSE {}]
    /\ pc' = [pc EXCEPT ![r] = IF ~MoveNeeded(r) THEN "offload"
                               ELSE IF FullMove(r) THEN "move" ELSE "adapter"]
    /\ group' = [group EXCEPT ![r] = 1]
    /\ UNCHANGED <<args, global_step, last_loaded_step, base_sync_done, weights,
                   lora, prefixes, device, turnVars>>

(* What load_weights gets for a group: should_merge puts the adapter into  *)
(* the base weights, unless the engine keeps the adapter apart.            *)
MovedWeights ==
    IF is_peft /\ rollout_enable_lora THEN Disk ELSE global_step

(* One group of _move_full_model_to_vllm.                                  *)
MoveGroup(S) ==
    /\ \A r \in S : pc[r] = "move" /\ group[r] <= Groups
    /\ \A r, q \in S : group[r] = group[q]
    /\ weights' = [r \in Ranks |-> IF r \in S
                      THEN [weights[r] EXCEPT ![group[r]] = MovedWeights]
                      ELSE weights[r]]
    /\ group' = [r \in Ranks |-> IF r \in S THEN group[r] + 1 ELSE group[r]]
    /\ UNCHANGED <<args, global_step, pc, last_loaded_step, base_sync_done, lora,
                   asleep, prefixes, device, turnVars>>

(* _reset_vllm_cache, and the step is noted.                               *)
Moved(r) ==
    /\ last_loaded_step' = [last_loaded_step EXCEPT ![r] = global_step]
    /\ prefixes' = [prefixes EXCEPT ![r] = {}]

(* All groups are moved.                                                   *)
MoveEnd(r) ==
    /\ pc[r] = "move" /\ group[r] > Groups
    /\ base_sync_done' = [base_sync_done EXCEPT ![r] = IF is_peft THEN TRUE ELSE @]
    /\ \/ /\ rollout_enable_lora
          /\ pc' = [pc EXCEPT ![r] = "adapter"]
          /\ UNCHANGED <<last_loaded_step, prefixes>>
       \/ /\ ~rollout_enable_lora
          /\ pc' = [pc EXCEPT ![r] = "offload"]
          /\ Moved(r)
    /\ UNCHANGED <<args, global_step, group, weights, lora, asleep, device, turnVars>>

(* _move_adapter_to_vllm: gathered group by group, added by one add_lora.  *)
MoveAdapter(S) ==
    /\ \A r \in S : pc[r] = "adapter"
    /\ lora' = [r \in Ranks |-> IF r \in S THEN global_step ELSE lora[r]]
    /\ pc' = [r \in Ranks |-> IF r \in S THEN "reset" ELSE pc[r]]
    /\ UNCHANGED <<args, global_step, last_loaded_step, base_sync_done, group,
                   weights, asleep, prefixes, device, turnVars>>

AdapterEnd(r) ==
    /\ pc[r] = "reset"
    /\ Moved(r)
    /\ pc' = [pc EXCEPT ![r] = "offload"]
    /\ UNCHANGED <<args, global_step, base_sync_done, group, weights, lora, asleep,
                   device, turnVars>>

(* offload_model, offload_optimizer and their way back; an optimizer that  *)
(* has no state yet is left alone.                                         *)
Placed(d, where) ==
    [model |-> IF args.offload_model THEN where ELSE d.model,
     optimizer |-> IF args.offload_optimizer /\ d.optimizer # "none" THEN where
                   ELSE d.optimizer]

(* The context is entered.                                                 *)
Offload(r) ==
    /\ pc[r] = "offload"
    /\ device' = [device EXCEPT ![r] = Placed(@, "cpu")]
    /\ pc' = [pc EXCEPT ![r] = "cache"]
    /\ UNCHANGED <<args, global_step, syncVars, asleep, prefixes, turnVars>>

(* The rest of the engine wakes; _infer_single_or_multi_turn starts with   *)
(* every input of this process.                                            *)
WakeCache(r) ==
    /\ pc[r] = "cache"
    /\ asleep' = [asleep EXCEPT ![r] = IF args.tags THEN @ \ {"kv_cache"} ELSE @]
    /\ index_to_infer' = [index_to_infer EXCEPT ![r] = [i \in Inputs |-> i]]
    /\ outputs' = [outputs EXCEPT ![r] = <<>>]
    /\ current_turn' = [current_turn EXCEPT ![r] = 1]
    /\ history' = [history EXCEPT ![r] = [i \in Inputs |-> <<>>]]
    /\ collected' = [collected EXCEPT ![r] = {}]
    /\ pc' = [pc EXCEPT ![r] = "rollout"]
    /\ UNCHANGED <<args, global_step, syncVars, prefixes, device>>

-----------------------------------------------------------------------------
(* The rollout.                                                            *)

(* Variant: the rows of one process, not of its group.                     *)
SeedOneProcess(r) ==
    args.per_device * args.gradient_accumulation * (r \div args.tp)

(* _get_request_config: the seed of a group's first row.                   *)
Seed(r) ==
    args.per_device * args.gradient_accumulation * args.tp * (r \div args.tp)

Requests(r) ==
    [k \in DOMAIN index_to_infer[r] |-> [rank |-> r, index |-> index_to_infer[r][k]]]

(* The requests of n processes from one on, one after the other.           *)
Gathered(first, n) == FlattenSeq([k \in 1..n |-> Requests(first + k - 1)])

FirstOfGroup(r) == (r \div args.tp) * args.tp

(* Variant: every process takes the first outputs of its group.            *)
StartIdxFirst(r) == 0

(* sum(all_input_lengths[:local_rank_in_group])                            *)
StartIdx(r) == Len(Gathered(FirstOfGroup(r), r - FirstOfGroup(r)))

(* _colocate_rollout: the requests of the group are gathered, every engine *)
(* of it generates all of them, and each process keeps its slice.  Without *)
(* tensor parallelism the engine draws from its own generator: no seed.    *)
Infer(first) ==
    LET S == TpGroup(first)
        all == Gathered(first, args.tp)
        Output(r, k) ==
            [rank |-> all[k].rank, index |-> all[k].index,
             turn |-> Len(history[all[k].rank][all[k].index]) + 1,
             seed |-> IF args.tp > 1 THEN Seed(r) + k - 1 ELSE -1]
        Slice(r) == [k \in DOMAIN index_to_infer[r] |-> Output(r, StartIdx(r) + k)]
    IN  /\ \A r \in S : pc[r] = "rollout"
        /\ outputs' = [r \in Ranks |-> IF r \in S THEN Slice(r) ELSE outputs[r]]
        /\ prefixes' = [r \in Ranks |-> IF r \in S THEN prefixes[r] \cup {global_step}
                                        ELSE prefixes[r]]
        /\ pc' = [r \in Ranks |-> IF r \notin S THEN pc[r]
                                  ELSE IF args.multi_turn THEN "gather" ELSE "sleep"]
        /\ UNCHANGED <<args, global_step, syncVars, asleep, device, index_to_infer,
                       current_turn, history, collected>>

(* Variant: a process whose own dialogues are finished leaves the loop.    *)
GatherLocal ==
    \E r \in Ranks :
        /\ pc[r] = "gather"
        /\ \/ index_to_infer[r] = <<>> /\ pc' = [pc EXCEPT ![r] = "sleep"]
           \/ index_to_infer[r] # <<>> /\ pc' = [pc EXCEPT ![r] = "turn"]
        /\ UNCHANGED <<args, global_step, syncVars, asleep, prefixes, device, turnVars>>

(* gather_object([has_local_data]): the loop ends for all or for none.     *)
Gather ==
    /\ \A r \in Ranks : pc[r] = "gather"
    /\ pc' = [r \in Ranks |-> IF \E q \in Ranks : index_to_infer[q] # <<>>
                              THEN "turn" ELSE "sleep"]
    /\ UNCHANGED <<args, global_step, syncVars, asleep, prefixes, device, turnVars>>

(* zip(index_to_infer, outputs): the output an input is paired with.       *)
Position(r, i) == CHOOSE k \in DOMAIN index_to_infer[r] : index_to_infer[r][k] = i

(* The rest of a turn of _colocate_multi_turn_infer: the completions join  *)
(* their dialogues, the scheduler (or max_turns) ends some of them, whose  *)
(* output is collected, and the others (goes_on) go on.                    *)
Turn(r) ==
    /\ pc[r] = "turn"
    /\ \E goes_on \in [DOMAIN index_to_infer[r] -> {0, 1}] :
          LET stopped == {k \in DOMAIN goes_on : goes_on[k] = 0}
          IN  /\ current_turn[r] >= args.max_turns => stopped = DOMAIN goes_on
              /\ index_to_infer' = [index_to_infer EXCEPT ![r] = Masked(@, goes_on)]
              /\ collected' = [collected EXCEPT
                    ![r] = @ \cup {index_to_infer[r][k] : k \in stopped}]
    /\ history' = [history EXCEPT ![r] = [i \in Inputs |->
          IF i \in Range(index_to_infer[r])
          THEN Append(@[i], outputs[r][Position(r, i)]) ELSE @[i]]]
    /\ current_turn' = [current_turn EXCEPT ![r] = @ + 1]
    /\ outputs' = [outputs EXCEPT ![r] = <<>>]
    /\ pc' = [pc EXCEPT ![r] = "rollout"]
    /\ UNCHANGED <<args, global_step, syncVars, asleep, prefixes, device>>

-----------------------------------------------------------------------------
(* _fast_infer after the rollout.                                          *)

(* reset_prefix_cache and sleep.                                           *)
Sleep(r) ==
    /\ pc[r] = "sleep"
    /\ \/ /\ args.sleep_level = 0
          /\ UNCHANGED <<asleep, prefixes, weights, lora>>
       \/ /\ args.sleep_level > 0
          /\ prefixes' = [prefixes EXCEPT ![r] = {}]
          /\ asleep' = [asleep EXCEPT ![r] = Tags]
          /\ IF args.sleep_level = 2
             THEN /\ weights' = [weights EXCEPT ![r] = [g \in 1..Groups |-> Lost]]
                  /\ lora' = [lora EXCEPT ![r] = Lost]
             ELSE UNCHANGED <<weights, lora>>
    /\ pc' = [pc EXCEPT ![r] = "reload"]
    /\ UNCHANGED <<args, global_step, last_loaded_step, base_sync_done, group,
                   device, turnVars>>

(* The context is left; the outputs are handed on.                         *)
Reload(r) ==
    /\ pc[r] = "reload"
    /\ device' = [device EXCEPT ![r] = Placed(@, "gpu")]
    /\ index_to_infer' = [index_to_infer EXCEPT ![r] = <<>>]
    /\ outputs' = [outputs EXCEPT ![r] = <<>>]
    /\ current_turn' = [current_turn EXCEPT ![r] = 1]
    /\ history' = [history EXCEPT ![r] = [i \in Inputs |-> <<>>]]
    /\ collected' = [collected EXCEPT ![r] = {}]
    /\ pc' = [pc EXCEPT ![r] = "train"]
    /\ UNCHANGED <<args, global_step, syncVars, asleep, prefixes>>

-----------------------------------------------------------------------------
Local(r) ==
    \/ WakeWeights(r) \/ MoveEnd(r) \/ AdapterEnd(r) \/ Offload(r) \/ WakeCache(r)
    \/ Turn(r) \/ Sleep(r) \/ Reload(r)

Collective ==
    \/ Gather
    \/ \E r \in Ranks :
          MoveGroup(MoveTeam(r)) \/ MoveAdapter(MoveTeam(r)) \/ (r = FirstOfGroup(r) /\ Infer(r))

Next == TrainStep \/ Generate \/ Collective \/ \E r \in Ranks : Local(r)

(* Every process keeps running, and a collective that all its processes    *)
(* have entered completes.                                                 *)
Spec ==
    /\ Init /\ [][Next]_vars
    /\ \A r \in AllRanks : WF_vars(r \in Ranks /\ Local(r))
    /\ WF_vars(Collective)

-----------------------------------------------------------------------------
(* Properties.                                                             *)

Output == [rank : Ranks, index : Inputs, turn : 1..args.max_turns, seed : Int]

(* Every variable keeps its type.                                          *)
TypeOK ==
    /\ args \in Args /\ global_step \in 0..args.max_steps
    /\ pc \in [Ranks -> {"train", "wake", "move", "adapter", "reset", "offload", "cache",
                         "rollout", "gather", "turn", "sleep", "reload"}]
    /\ last_loaded_step \in [Ranks -> -1..args.max_steps]
    /\ base_sync_done \in [Ranks -> BOOLEAN]
    /\ group \in [Ranks -> 1..(Groups + 1)]
    /\ weights \in [Ranks -> [1..Groups -> Weights]] /\ lora \in [Ranks -> Weights]
    /\ asleep \in [Ranks -> SUBSET Tags] /\ prefixes \in [Ranks -> SUBSET (0..args.max_steps)]
    /\ device \in [Ranks -> [model : {"gpu", "cpu"}, optimizer : {"gpu", "cpu", "none"}]]
    /\ current_turn \in [Ranks -> 1..(args.max_turns + 1)]
    /\ collected \in [Ranks -> SUBSET Inputs]
    /\ \A r \in Ranks :
          /\ index_to_infer[r] \in Seq(Inputs) /\ outputs[r] \in Seq(Output)
          /\ \A i \in Inputs : history[r][i] \in Seq(Output)

(* The step the engine of r samples with: the weights of every group, and  *)
(* the adapter on top of base weights.                                     *)
SamplesWith(r, step) ==
    \/ lora[r] = Lost /\ \A g \in 1..Groups : weights[r][g] = step
    \/ lora[r] = step /\ \A g \in 1..Groups : weights[r][g] = Disk

(* Every completion is sampled by the policy of the step it is trained in, *)
(* from an engine that is awake, and from prefixes of that policy only:    *)
(* no combination of sleep level, adapter, evaluation and skipped move     *)
(* leaves a group, an adapter or a cache of an earlier step in use.        *)
SampledByCurrentPolicy ==
    \A r \in Ranks : pc[r] = "rollout" =>
        /\ asleep[r] = {} /\ SamplesWith(r, global_step)
        /\ prefixes[r] \subseteq {global_step}

(* Trainer and engine take turns on the device: while the cache of an      *)
(* engine that can wake in parts is allocated, what is to be offloaded is  *)
(* off the device; and a process that trains has its state back and, with  *)
(* a sleep level, no part of the engine awake.                             *)
OneTenant ==
    \A r \in Ranks :
        /\ (args.tags /\ args.sleep_level > 0 /\ "kv_cache" \notin asleep[r]) =>
              /\ args.offload_model => device[r].model = "cpu"
              /\ args.offload_optimizer => device[r].optimizer # "gpu"
        /\ pc[r] = "train" =>
              /\ device[r].model = "gpu" /\ device[r].optimizer # "cpu"
              /\ args.sleep_level > 0 => asleep[r] = Tags

(* Whatever number of turns the dialogues of each process take, and        *)
(* however many requests the processes of a tensor-parallel group still    *)
(* have, a completion goes to the dialogue that asked for it, in turn, no  *)
(* dialogue passes max_turns, and at the end every one has been collected. *)
OwnDialogue ==
    \A r \in Ranks :
        /\ \A k \in DOMAIN outputs[r] :
              outputs[r][k].rank = r /\ outputs[r][k].index = index_to_infer[r][k]
        /\ \A i \in Inputs : Len(history[r][i]) <= args.max_turns
        /\ \A i \in Inputs : \A n \in DOMAIN history[r][i] :
              /\ history[r][i][n].rank = r /\ history[r][i][n].index = i
              /\ history[r][i][n].turn = n
        /\ (args.multi_turn /\ pc[r] = "sleep") => collected[r] = Inputs

Prompt(r, i) == (r * Rows + i - 1) \div args.num_generations

(* No two completions of a prompt are drawn with the same seed: they would *)
(* be the same completion.  (Under the default, a generation for every     *)
(* gradient accumulation.)                                                 *)
DistinctSeeds ==
    (args.tp > 1 /\ args.steps_per_generation = args.gradient_accumulation) =>
        \A r, q \in Ranks : \A k \in DOMAIN outputs[r], l \in DOMAIN outputs[q] :
            LET x == outputs[r][k]
                y == outputs[q][l]
            IN  (Prompt(r, x.index) = Prompt(q, y.index) /\ x.turn = y.turn /\ x.seed = y.seed)
                    => r = q /\ k = l

(* No process waits for ever in a collective that another one has left     *)
(* out: every call of _fast_infer returns on every process.                *)
RolloutEnds ==
    \A r \in AllRanks : (r \in Ranks /\ pc[r] = "wake") ~> (r \in Ranks /\ pc[r] = "train")
=============================================================================
