----------------------- MODULE ColocateRolloutInvariant -----------------------
(***************************************************************************)
(* The inductive invariant behind SampledByCurrentPolicy and OneTenant of  *)
(* ColocateRollout.  A process that skips the move relies on what an       *)
(* earlier call of _fast_infer left in its engine, and one that moves the  *)
(* adapter only relies on the base weights of an earlier full move; so the *)
(* invariant says what the engine holds between two calls.                 *)
(***************************************************************************)
EXTENDS ColocateRollout

(* The parts of TypeOK the argument needs.                                 *)
EngineType ==
    /\ args \in Args /\ global_step \in Nat
    /\ pc \in [Ranks -> {"train", "wake", "move", "adapter", "reset", "offload", "cache",
                         "rollout", "gather", "turn", "sleep", "reload"}]
    /\ last_loaded_step \in [Ranks -> Int] /\ base_sync_done \in [Ranks -> BOOLEAN]
    /\ group \in [Ranks -> 1..(Groups + 1)]
    /\ weights \in [Ranks -> [1..Groups -> Int]] /\ lora \in [Ranks -> Int]
    /\ asleep \in [Ranks -> SUBSET Tags] /\ prefixes \in [Ranks -> SUBSET Nat]
    /\ device \in [Ranks -> [model : {"gpu", "cpu"}, optimizer : {"gpu", "cpu", "none"}]]

(* Every group holds w.                                                    *)
AllGroups(r, w) == \A g \in 1..Groups : weights[r][g] = w

(* What the engine holds once the weights of a step are moved.             *)
Holds(r, step) ==
    IF rollout_enable_lora THEN lora[r] = step /\ AllGroups(r, Disk)
    ELSE lora[r] = Lost /\ AllGroups(r, step)

Outside == {"train", "wake", "reload"}
Moving  == {"move", "adapter", "reset"}
Loaded  == {"offload", "cache", "rollout", "gather", "turn", "sleep"}

(* The weights, by the part of _fast_infer the process is in.              *)
WeightsInv(r) ==
    /\ ~rollout_enable_lora => lora[r] = Lost
    /\ (rollout_enable_lora /\ base_sync_done[r] /\ args.sleep_level # 2) => AllGroups(r, Disk)
    /\ pc[r] \in Loaded => /\ last_loaded_step[r] = global_step
                           /\ Holds(r, global_step) /\ prefixes[r] \subseteq {global_step}
    /\ pc[r] \in Outside =>
          /\ last_loaded_step[r] \in Nat /\ args.sleep_level # 2 => Holds(r, last_loaded_step[r])
          /\ prefixes[r] \subseteq {last_loaded_step[r]}
    /\ pc[r] = "move" => \A g \in 1..(group[r] - 1) : weights[r][g] = MovedWeights
    /\ pc[r] \in {"adapter", "reset"} => rollout_enable_lora /\ AllGroups(r, Disk)
    /\ pc[r] = "reset" => lora[r] = global_step

(* What is awake.                                                          *)
AwakeInv(r) ==
    asleep[r] = IF args.sleep_level = 0 THEN {}
                ELSE IF pc[r] \in {"train", "wake", "reload"} THEN Tags
                ELSE IF args.tags /\ pc[r] \in Moving \cup {"offload", "cache"} THEN {"kv_cache"}
                ELSE {}

(* Where the trainer's state is.                                           *)
DeviceInv(r) ==
    IF pc[r] \in {"cache", "rollout", "gather", "turn", "sleep", "reload"}
    THEN /\ device[r].model = IF args.offload_model THEN "cpu" ELSE "gpu"
         /\ device[r].optimizer # IF args.offload_optimizer THEN "gpu" ELSE "cpu"
    ELSE device[r].model = "gpu" /\ device[r].optimizer # "cpu"

EngineInv == \A r \in Ranks : WeightsInv(r) /\ AwakeInv(r) /\ DeviceInv(r)

(* The whole inductive invariant.                                          *)
IInv == EngineType /\ EngineInv

-----------------------------------------------------------------------------
(* The dialogues.  The requests of a tensor-parallel group are gathered    *)
(* and its outputs cut apart by their lengths, and a process finds the     *)
(* dialogue of an output by its place: so the invariant says, for every    *)
(* process, what its lists hold at the same place, and for every group,    *)
(* which seeds the places have.                                            *)
Completion == [rank : Ranks, index : Inputs, turn : Nat, seed : Int]

DialogueType ==
    /\ args \in Args
    /\ pc \in [Ranks -> {"train", "wake", "move", "adapter", "reset", "offload", "cache",
                         "rollout", "gather", "turn", "sleep", "reload"}]
    /\ index_to_infer \in [Ranks -> Seq(Inputs)] /\ outputs \in [Ranks -> Seq(Completion)]
    /\ current_turn \in [Ranks -> Nat] /\ collected \in [Ranks -> SUBSET Inputs]
    /\ history \in [Ranks -> [Inputs -> Seq(Completion)]]

(* An output is at the place of the dialogue it continues.                 *)
OutputsInv(r) ==
    /\ pc[r] \in {"gather", "turn"} => Len(outputs[r]) = Len(index_to_infer[r])
    /\ \A k \in 1..Len(outputs[r]) :
          /\ k \in 1..Len(index_to_infer[r])
          /\ outputs[r][k].rank = r /\ outputs[r][k].index = index_to_infer[r][k]
          /\ outputs[r][k].turn = Len(history[r][index_to_infer[r][k]]) + 1

(* Dialogues that go on have had every turn so far; the others are         *)
(* collected.                                                              *)
TurnsInv(r) ==
    /\ Len(index_to_infer[r]) <= Rows
    /\ \A k \in 1..Len(index_to_infer[r]) :
          /\ Len(history[r][index_to_infer[r][k]]) + 1 = current_turn[r]
          /\ current_turn[r] <= args.max_turns
    /\ pc[r] \in {"rollout", "gather", "turn"} =>
          \A i \in Inputs : i \in collected[r] \/ \E k \in 1..Len(index_to_infer[r]) :
                                                     index_to_infer[r][k] = i
    /\ (args.multi_turn /\ pc[r] = "sleep") => collected[r] = Inputs

HistoryInv(r) ==
    \A i \in Inputs :
        /\ Len(history[r][i]) <= args.max_turns
        /\ \A n \in 1..Len(history[r][i]) :
              /\ history[r][i][n].rank = r /\ history[r][i][n].index = i
              /\ history[r][i][n].turn = n

(* The seeds of a group's outputs: from the group's first seed on, and     *)
(* each is used once.                                                      *)
SeedsInv(r) ==
    args.tp > 1 =>
        /\ \A k \in 1..Len(outputs[r]) :
              Seed(r) <= outputs[r][k].seed /\ outputs[r][k].seed < Seed(r) + args.tp * Rows
        /\ \A q \in Ranks : r \div args.tp = q \div args.tp =>
              \A k \in 1..Len(outputs[r]), l \in 1..Len(outputs[q]) :
                  outputs[r][k].seed = outputs[q][l].seed => r = q /\ k = l

DialogueInv ==
    \A r \in Ranks : OutputsInv(r) /\ TurnsInv(r) /\ HistoryInv(r) /\ SeedsInv(r)
=============================================================================
