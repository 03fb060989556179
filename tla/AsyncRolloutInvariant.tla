------------------------ MODULE AsyncRolloutInvariant ------------------------
(***************************************************************************)
(* The inductive invariants behind QuietUpdate, SampledByRequestedPolicy   *)
(* and BoundedStaleness of AsyncRollout, and behind its refinement of      *)
(* OneStepOffPolicy.  QuietUpdate alone is not inductive: a wait that finds *)
(* an item in a queue says something about the executor only because the   *)
(* rollouts outstanding for that queue are counted, and because the        *)
(* executor never holds tasks for both queues.                             *)
(***************************************************************************)
EXTENDS AsyncRolloutRefinement

(* All tasks in the executor are for queue d.                              *)
TasksFor(d) == \A i \in 1..Len(tasks) : tasks[i].dest = d

(* Two evaluations in a row, which happen only after the last step: the    *)
(* second finds the weights already synced.                                *)
EvaluatedTwice == closing /\ last_loaded = global_step

(* At most n rollouts outstanding for training; evaluation left at most    *)
(* one behind, and it has landed.                                          *)
TrainOutstanding(n) ==
    /\ TasksFor("train")
    /\ Len(queue["train"]) + Len(tasks) <= n
    /\ Len(queue["eval"]) <= 1

(* At most n rollouts outstanding for evaluation, the train rollout has    *)
(* landed.                                                                 *)
EvalOutstanding(n) ==
    /\ TasksFor("eval")
    /\ Len(queue["train"]) <= 1
    /\ Len(queue["eval"]) + Len(tasks) <= n \/ EvaluatedTwice

(* Right after an evaluation: its last request may still be running.       *)
AfterEvaluation ==
    /\ eval_flag
    /\ EvalOutstanding(1)
    /\ last_loaded = global_step

(* What TypeOK needs to be inductive: each place of the main thread        *)
(* belongs to its phase, the worker has a task when it is busy, and an     *)
(* eval batch being generated is one of EvalBatches.                       *)
TypeInv ==
    /\ TypeOK
    /\ pc \in {"evaluate", "eval_step"} => phase = "eval"
    /\ pc \in {"begin", "score", "loss", "step", "step_end", "done"} => phase = "train"
    /\ busy => tasks # <<>>
    /\ (phase = "eval" /\ pc \in {"fast", "fast_load", "submit", "get"})
         => eval_batch < EvalBatches

(* control.should_evaluate agrees with the mode of the model, and the last *)
(* on_epoch_end is followed by evaluation only.                            *)
PhaseInv ==
    /\ phase = "eval" => should_evaluate
    /\ (phase = "train" /\ pc # "step_end") => ~should_evaluate
    /\ (closing /\ phase = "train") => pc \in {"step_end", "done"}
    /\ closing => global_step >= MaxSteps

(* Before the first rollout, which the callback prefetches.                *)
Starting == pc = "begin" \/ (phase = "train"
                             /\ pc \in {"prefetch", "prefetch_load", "prefetch_infer"})

StartInv ==
    Starting => tasks = <<>> /\ queue["train"] = <<>> /\ queue["eval"] = <<>>

TrainInv ==
    /\ pc \in {"score", "loss"} => TrainOutstanding(1)
    /\ (phase = "train" /\ pc \in {"fast", "submit"}) => TrainOutstanding(1)
    /\ (phase = "train" /\ pc = "fast_load") => TrainOutstanding(1) /\ tasks = <<>>
    /\ (phase = "train" /\ pc = "get") => TrainOutstanding(2)
    /\ pc = "step" => TrainOutstanding(1) \/ (AfterEvaluation /\ ~closing)
    /\ pc = "step_end" =>
         TrainOutstanding(1) \/ (AfterEvaluation /\ (should_evaluate => closing))

EvalInv ==
    /\ pc = "evaluate" => TrainOutstanding(1) \/ (AfterEvaluation /\ closing)
    /\ (phase = "eval" /\ pc \in {"prefetch", "prefetch_infer"}) =>
         /\ EvalOutstanding(1)
         /\ (tasks = <<>> /\ queue["eval"] = <<>>) \/ EvaluatedTwice
    /\ (phase = "eval" /\ pc = "prefetch_load") =>
         EvalOutstanding(1) /\ tasks = <<>> /\ queue["eval"] = <<>>
    /\ pc = "eval_step" => EvalOutstanding(1)
    /\ (phase = "eval" /\ pc \in {"fast", "submit"}) => EvalOutstanding(1)
    /\ (phase = "eval" /\ pc = "fast_load") => EvalOutstanding(1) /\ tasks = <<>>
    /\ (phase = "eval" /\ pc = "get") => EvalOutstanding(2)
    /\ pc \in {"submit", "get", "prefetch_infer"} => last_loaded = global_step
    /\ (pc = "eval_step" /\ eval_batch > 0) => last_loaded = global_step

(* The counting invariant of the executor and the queues.  It holds even   *)
(* if inference tasks raise.                                               *)
OutstandingInv == PhaseInv /\ StartInv /\ TrainInv /\ EvalInv

(* The policy part: outside a weight update the server holds exactly the   *)
(* policy of last_loaded, in its weights and in its prefix cache, and so   *)
(* do the tasks that will sample from it.                                  *)
PolicyInv ==
    /\ SampledByRequestedPolicy
    /\ \A i \in 1..Len(tasks) : tasks[i].policy = last_loaded
    /\ busy => tasks[1].seen = {last_loaded}
    /\ pc \notin {"prefetch_load", "fast_load"} =>
         /\ \A g \in Groups : vllm[g] = last_loaded
         /\ cache \subseteq {last_loaded}
    /\ pc \in {"prefetch_load", "fast_load"} =>
         \A g \in Groups : g < loading => vllm[g] = global_step

(* The whole inductive invariant.                                          *)
IInv == TypeInv /\ OutstandingInv /\ PolicyInv

-----------------------------------------------------------------------------
(* Staleness.  The weights are a function of the micro steps taken, and    *)
(* each outstanding train rollout is at most one generation old.           *)

(* The optimizer steps of an epoch, and of the first s micro steps.        *)
EpochUpdates == ((EpochSteps - 1) \div GradAccum) + 1

Updates(s) == (s \div EpochSteps) * EpochUpdates
                + ((s % EpochSteps) \div GradAccum)

(* The micro step of the last generation that is finished.                 *)
LastGeneration ==
    IF pc = "loss" THEN step - (step % GenerateEvery)
    ELSE IF step = 0 THEN 0
    ELSE (step - 1) - ((step - 1) % GenerateEvery)

Generating == phase = "train" /\ pc \in {"fast", "fast_load", "submit", "get", "score"}

(* Generations begin at multiples of GenerateEvery only.                   *)
StepInv ==
    /\ global_step = Updates(step)
    /\ (step > 0 \/ pc = "loss") => buffered
    /\ Starting => step = 0
    /\ Generating => step % GenerateEvery = 0

FreshInv ==
    /\ ~Starting => last_loaded >= Updates(LastGeneration)
    /\ \A i \in 1..Len(queue["train"]) :
         queue["train"][i].policy >= Updates(LastGeneration)
    /\ (phase = "train" /\ pc = "get") =>
         \A i \in 2..Len(queue["train"]) : queue["train"][i].policy = last_loaded
    /\ pc = "score" =>
         /\ last_loaded = global_step
         /\ \A i \in 1..Len(queue["train"]) : queue["train"][i].policy = last_loaded
         /\ delivered["train"] # NoRollout =>
              delivered["train"].policy >= Updates(LastGeneration)

StalenessInv == StepInv /\ FreshInv

-----------------------------------------------------------------------------
(* The delay line, where no inference task raises: exactly one train       *)
(* rollout is outstanding between generations, and two while one of them   *)
(* is being received; they carry the last numbers that were requested.     *)

TrainTasks == IF TasksFor("train") THEN Len(tasks) ELSE 0

TrainCount == Len(queue["train"]) + TrainTasks

(* The training loop never goes beyond max_steps.                          *)
BoundInv ==
    /\ last_loaded <= global_step
    /\ global_step <= MaxSteps
    /\ (phase = "train" /\ pc \notin {"step_end", "done"}) => global_step < MaxSteps

DelayInv ==
    /\ TasksFor("train") \/ TasksFor("eval")
    /\ Starting => requested["train"] = 0
    /\ ~Starting =>
         /\ TrainCount = (IF phase = "train" /\ pc = "get" THEN 2 ELSE 1)
         /\ last_loaded >= 0
    /\ \A i \in 1..Len(queue["train"]) :
         /\ queue["train"][i].batch = "train"
         /\ queue["train"][i].no = requested["train"] - TrainCount + i
         /\ queue["train"][i].policy \in 0..last_loaded
    /\ \A i \in 1..TrainTasks :
         /\ tasks[i].batch = "train"
         /\ tasks[i].no = requested["train"] - TrainTasks + i

(* What the slot of the delay line holds: the number and the policy of the *)
(* oldest outstanding request.                                             *)
SlotInv ==
    /\ Starting => AsRequest(Oldest) = [no |-> 0, policy |-> -1]
    /\ ~Starting =>
         AsRequest(Oldest)
           = [no     |-> requested["train"] - TrainCount + 1,
              policy |-> IF queue["train"] # <<>> THEN queue["train"][1].policy
                                                  ELSE last_loaded]
=============================================================================
