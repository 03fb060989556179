-------------------------- MODULE MCColocateRollout --------------------------
(***************************************************************************)
(* Instances of ColocateRollout: full and LoRA training, with and without  *)
(* adapters in the engine, every sleep level, and multi-turn dialogues in  *)
(* tensor-parallel groups.                                                 *)
(***************************************************************************)
EXTENDS ColocateRollout

Full ==
    [num_processes |-> 2, max_steps |-> 3,
     tuner |-> "full", enable_lora |-> FALSE, sleep_level |-> 0, tags |-> TRUE,
     offload_model |-> FALSE, offload_optimizer |-> FALSE, zero3 |-> FALSE, tp |-> 1,
     multi_turn |-> FALSE, max_turns |-> 1, per_device |-> 1,
     gradient_accumulation |-> 1, steps_per_generation |-> 1, num_generations |-> 4]
Asleep == [Full EXCEPT !.sleep_level = 1, !.offload_model = TRUE, !.offload_optimizer = TRUE]
WakesAtOnce == [Asleep EXCEPT !.tags = FALSE]
Discarding == [Asleep EXCEPT !.sleep_level = 2, !.zero3 = TRUE]
LoraMerged == [Asleep EXCEPT !.tuner = "lora", !.tp = 2]
LoraApart == [LoraMerged EXCEPT !.enable_lora = TRUE, !.zero3 = TRUE]
LoraDiscarding == [LoraApart EXCEPT !.sleep_level = 2]
MultiTurn ==
    [Full EXCEPT !.num_processes = 4, !.max_steps = 1, !.multi_turn = TRUE,
                 !.max_turns = 3, !.tp = 2, !.zero3 = TRUE]
MultiTurnRows ==
    [MultiTurn EXCEPT !.num_processes = 2, !.max_steps = 2, !.per_device = 2,
                      !.sleep_level = 2]
MultiTurnSingle == [MultiTurnRows EXCEPT !.tp = 1, !.sleep_level = 1]

MCArgs == {Full, Asleep, WakesAtOnce, Discarding, LoraMerged, LoraApart, LoraDiscarding,
           MultiTurn, MultiTurnRows, MultiTurnSingle}
=============================================================================
