---------------------------- MODULE AsyncRollout ----------------------------
(***************************************************************************)
(* GRPO training with async_generate=True: the trainer's main thread asks  *)
(* for the completions of the current batch on a one-thread executor and   *)
(* goes on with the completions it asked for one generation earlier.       *)
(*                                                                         *)
(* Modelled: swift/rlhf_trainers/rollout_mixin.py (AsyncGenerateCallback,  *)
(* _prefetch, _fast_infer, _move_model_to_vllm, async_generate_rollout,    *)
(* _queue, _wait_queue) and swift/rlhf_trainers/grpo_trainer.py            *)
(* (_prepare_inputs, _dynamic_sampling, evaluation_loop, training_step),   *)
(* driven by the Hugging Face training loop (external).  The process is    *)
(* the main rank, the only one that talks to the rollout server.           *)
(*                                                                         *)
(* Threads: the main thread (pc), and the executor's worker thread, which  *)
(* takes the submitted tasks in order.  The rollout server is reduced to   *)
(* the weights it holds, one version per parameter group, and the versions *)
(* that left blocks in its prefix cache.  A weight version is the          *)
(* global_step at which it was sent.                                       *)
(***************************************************************************)
EXTENDS Integers, Sequences

CONSTANTS
    MaxSteps,            \* state.max_steps: optimizer steps of the training
    GradAccum,           \* args.gradient_accumulation_steps
    StepsPerGeneration,  \* args.steps_per_generation (x sequence parallel size)
    NumIterations,       \* args.num_iterations
    EpochGenerations,    \* generations in one pass over the train dataloader
    EvalBatches,         \* batches of the eval dataloader
    NumGroups,           \* len(self.parameter_groups)
    MaxResample,         \* args.max_resample_times, 0 without dynamic_sample
    MaxFailures,         \* bound: inference tasks that raise
    EvalOnStart          \* args.eval_on_start

ASSUME ConstantsAssumption ==
    /\ MaxSteps \in Nat \ {0}
    /\ GradAccum \in Nat \ {0}
    /\ StepsPerGeneration \in Nat \ {0}
    /\ NumIterations \in Nat \ {0}
    /\ EpochGenerations \in Nat \ {0}
    /\ EvalBatches \in Nat \ {0}
    /\ NumGroups \in Nat \ {0}
    /\ MaxResample \in Nat
    /\ MaxFailures \in Nat
    /\ EvalOnStart \in BOOLEAN

VARIABLES
    pc,               \* where the main thread is
    phase,            \* "train" or "eval": self.model.training
    should_evaluate,  \* self.control.should_evaluate
    global_step,      \* self.state.global_step
    step,             \* self._step, the micro steps taken
    last_loaded,      \* self._last_loaded_step
    loading,          \* the parameter group _move_full_model_to_vllm sends next
    vllm,             \* version of each parameter group in the rollout server
    cache,            \* weight versions with blocks in the server's prefix cache
    queue,            \* self.train_queue and self.eval_queue
    tasks,            \* the executor: submitted tasks, oldest first
    busy,             \* the worker thread is executing tasks[1]
    eval_flag,        \* self.eval_flag
    buffered,         \* self._buffered_inputs is not None
    resample,         \* resample_count of _dynamic_sampling
    eval_batch,       \* batches of the running evaluation that are finished
    closing,          \* the last on_epoch_end callback has run
    failures,         \* inference tasks that raised
    requested,        \* history: rollouts asked for, per phase
    delivered         \* history: the last rollout handed to each phase

threadVars == <<pc, phase, should_evaluate, closing>>
trainVars  == <<global_step, step, buffered, resample, eval_batch, eval_flag>>
serverVars == <<last_loaded, loading, vllm, cache>>
taskVars   == <<queue, tasks, busy, failures>>
histVars   == <<requested, delivered>>
vars == <<threadVars, trainVars, serverVars, taskVars, histVars>>

Phases == {"train", "eval"}

Versions == Int

(* A batch of completions, or the task that will produce it: the phase     *)
(* whose prompts it answers, the queue that receives it, its number among  *)
(* the requests of that phase, the policy version synced when it was       *)
(* requested, and the weight versions its sampling really saw.             *)
Rollouts == [batch : Phases, dest : Phases, no : Nat, policy : Versions,
             seen : SUBSET Versions]

NoRollout == [batch |-> "none"]

Groups == 1..NumGroups

(* _prepare_inputs: completions are generated once per GenerateEvery micro *)
(* steps.                                                                  *)
GenerateEvery == StepsPerGeneration * NumIterations

(* The repeat sampler yields whole generation batches only.                *)
EpochSteps == EpochGenerations * GenerateEvery

(* The training loop updates the weights after this micro step: every      *)
(* gradient_accumulation_steps, and at the end of an epoch.                *)
SyncGradients ==
    LET m == (step % EpochSteps) + 1
    IN  m % GradAccum = 0 \/ m = EpochSteps

(* The _queue property: it follows control.should_evaluate, not the mode   *)
(* of the model.                                                           *)
CurrentQueue == IF should_evaluate THEN "eval" ELSE "train"

(* What a completion sampled now depends on: the weights in the server and *)
(* the cached blocks it may reuse.                                         *)
SampledFrom == {vllm[g] : g \in Groups} \cup cache

Init ==
    /\ pc = "begin" /\ phase = "train"
    /\ should_evaluate = FALSE /\ closing = FALSE
    /\ global_step = 0 /\ step = 0
    /\ buffered = FALSE /\ resample = 0 /\ eval_batch = 0 /\ eval_flag = FALSE
    /\ last_loaded = -1 /\ loading = 1
    /\ vllm = [g \in Groups |-> -1] /\ cache = {}
    /\ queue = [q \in Phases |-> <<>>] /\ tasks = <<>>
    /\ busy = FALSE /\ failures = 0
    /\ requested = [p \in Phases |-> 0]
    /\ delivered = [p \in Phases |-> NoRollout]

-----------------------------------------------------------------------------
(* Weight synchronisation: _prefetch and _fast_infer both call             *)
(* _move_model_to_vllm when global_step differs from _last_loaded_step.    *)

(* on_train_begin: the callback prefetches from the train dataloader.      *)
OnTrainBegin ==
    /\ pc = "begin"
    /\ pc' = "prefetch"
    /\ UNCHANGED <<phase, should_evaluate, closing, trainVars, serverVars,
                   taskVars, histVars>>

(* _prefetch up to the inference: _move_model_to_vllm(skip_async_check).   *)
Prefetch ==
    /\ pc = "prefetch"
    /\ pc' = IF global_step # last_loaded THEN "prefetch_load"
                                          ELSE "prefetch_infer"
    /\ loading' = 1
    /\ UNCHANGED <<phase, should_evaluate, closing, trainVars, last_loaded,
                   vllm, cache, taskVars, histVars>>

(* Variant: _move_model_to_vllm does not wait in _wait_queue.              *)
FastInferNoWait ==
    /\ pc = "fast"
    /\ pc' = IF global_step # last_loaded THEN "fast_load" ELSE "submit"
    /\ loading' = 1
    /\ UNCHANGED <<phase, should_evaluate, closing, trainVars, last_loaded,
                   vllm, cache, taskVars, histVars>>

(* Variant: _fast_infer never sends the weights again.                     *)
FastInferNoMove ==
    /\ pc = "fast"
    /\ pc' = "submit"
    /\ UNCHANGED <<phase, should_evaluate, closing, trainVars, serverVars,
                   taskVars, histVars>>

(* _fast_infer up to the inference: _move_model_to_vllm, which first waits *)
(* in _wait_queue for an item in the current queue.                        *)
FastInfer ==
    /\ pc = "fast"
    /\ \/ /\ global_step # last_loaded
          /\ queue[CurrentQueue] # <<>>
          /\ pc' = "fast_load"
       \/ /\ global_step = last_loaded
          /\ pc' = "submit"
    /\ loading' = 1
    /\ UNCHANGED <<phase, should_evaluate, closing, trainVars, last_loaded,
                   vllm, cache, taskVars, histVars>>

(* One round of the loop of _move_full_model_to_vllm.                      *)
LoadGroup ==
    /\ pc \in {"prefetch_load", "fast_load"}
    /\ loading <= NumGroups
    /\ vllm' = [vllm EXCEPT ![loading] = global_step]
    /\ loading' = loading + 1
    /\ UNCHANGED <<threadVars, trainVars, last_loaded, cache, taskVars, histVars>>

(* Variant: _reset_vllm_cache is forgotten.                                *)
FinishMoveNoReset ==
    /\ pc \in {"prefetch_load", "fast_load"}
    /\ loading > NumGroups
    /\ last_loaded' = global_step
    /\ pc' = IF pc = "prefetch_load" THEN "prefetch_infer" ELSE "submit"
    /\ UNCHANGED <<phase, should_evaluate, closing, trainVars, loading, vllm,
                   cache, taskVars, histVars>>

(* The end of _move_model_to_vllm, _reset_vllm_cache, and the caller's     *)
(* assignment to _last_loaded_step.                                        *)
FinishMove ==
    /\ pc \in {"prefetch_load", "fast_load"}
    /\ loading > NumGroups
    /\ cache' = {}
    /\ last_loaded' = global_step
    /\ pc' = IF pc = "prefetch_load" THEN "prefetch_infer" ELSE "submit"
    /\ UNCHANGED <<phase, should_evaluate, closing, trainVars, loading, vllm,
                   taskVars, histVars>>

-----------------------------------------------------------------------------
(* Requests and deliveries.                                                *)

(* The next request of the current phase.                                  *)
Request(seen) ==
    [batch |-> phase, dest |-> CurrentQueue, no |-> requested[phase] + 1,
     policy |-> last_loaded, seen |-> seen]

(* The rest of _prefetch: inference in the main thread, then _queue.put.   *)
(* After on_train_begin the loop evaluates first if eval_on_start is set.  *)
PrefetchInfer ==
    /\ pc = "prefetch_infer"
    /\ queue' = [queue EXCEPT ![CurrentQueue] = Append(@, Request(SampledFrom))]
    /\ requested' = [requested EXCEPT ![phase] = @ + 1]
    /\ cache' = SampledFrom
    /\ \/ phase = "eval" /\ pc' = "eval_step" /\ UNCHANGED phase
       \/ phase = "train" /\ ~EvalOnStart /\ pc' = "step" /\ UNCHANGED phase
       \/ phase = "train" /\ EvalOnStart /\ pc' = "evaluate" /\ phase' = "eval"
    /\ UNCHANGED <<should_evaluate, closing, trainVars, last_loaded, loading,
                   vllm, tasks, busy, failures, delivered>>

(* async_generate_rollout: the queue is captured at submission.            *)
AsyncGenerateRollout ==
    /\ pc = "submit"
    /\ tasks' = Append(tasks, Request({}))
    /\ requested' = [requested EXCEPT ![phase] = @ + 1]
    /\ pc' = "get"
    /\ UNCHANGED <<phase, should_evaluate, closing, trainVars, serverVars,
                   queue, busy, failures, delivered>>

(* Variant: the newest rollout is taken, as from a LifoQueue.              *)
QueueGetNewest ==
    /\ pc = "get"
    /\ queue[CurrentQueue] # <<>>
    /\ LET q == queue[CurrentQueue]
       IN  /\ delivered' = [delivered EXCEPT ![phase] = q[Len(q)]]
           /\ queue' = [queue EXCEPT ![CurrentQueue] = SubSeq(q, 1, Len(q) - 1)]
    /\ IF phase = "train"
       THEN pc' = "score" /\ UNCHANGED eval_batch
       ELSE pc' = "eval_step" /\ eval_batch' = eval_batch + 1
    /\ UNCHANGED <<phase, should_evaluate, closing, global_step, step, buffered,
                   resample, eval_flag, serverVars, tasks, busy, failures,
                   requested>>

(* data_cache = self._queue.get(): blocks while the queue is empty.        *)
QueueGet ==
    /\ pc = "get"
    /\ queue[CurrentQueue] # <<>>
    /\ delivered' = [delivered EXCEPT ![phase] = Head(queue[CurrentQueue])]
    /\ queue' = [queue EXCEPT ![CurrentQueue] = Tail(@)]
    /\ IF phase = "train"
       THEN pc' = "score" /\ UNCHANGED eval_batch
       ELSE pc' = "eval_step" /\ eval_batch' = eval_batch + 1
    /\ UNCHANGED <<phase, should_evaluate, closing, global_step, step, buffered,
                   resample, eval_flag, serverVars, tasks, busy, failures,
                   requested>>

-----------------------------------------------------------------------------
(* The training loop.                                                      *)

(* training_step waits for the rollout the last evaluation left behind;    *)
(* _prepare_inputs then generates, or reuses the buffered completions.     *)
TrainingStep ==
    /\ pc = "step"
    /\ ~eval_flag \/ queue["eval"] # <<>>
    /\ pc' = IF step % GenerateEvery = 0 \/ ~buffered THEN "fast" ELSE "loss"
    /\ UNCHANGED <<phase, should_evaluate, closing, trainVars, serverVars,
                   taskVars, histVars>>

(* Variant: the loop bound of _dynamic_sampling is off by one.             *)
ResampleOnceMore ==
    /\ pc = "score"
    /\ resample <= MaxResample
    /\ resample' = resample + 1
    /\ pc' = "fast"
    /\ UNCHANGED <<phase, should_evaluate, closing, global_step, step, buffered,
                   eval_batch, eval_flag, serverVars, taskVars, histVars>>

(* _dynamic_sampling: too few groups have a non-zero reward deviation, so  *)
(* another batch is generated ...                                          *)
Resample ==
    /\ pc = "score"
    /\ resample < MaxResample
    /\ resample' = resample + 1
    /\ pc' = "fast"
    /\ UNCHANGED <<phase, should_evaluate, closing, global_step, step, buffered,
                   eval_batch, eval_flag, serverVars, taskVars, histVars>>

(* ... or the batch is kept: enough valid samples, or retries exhausted.   *)
BufferInputs ==
    /\ pc = "score"
    /\ buffered' = TRUE
    /\ resample' = 0
    /\ pc' = "loss"
    /\ UNCHANGED <<phase, should_evaluate, closing, global_step, step,
                   eval_batch, eval_flag, serverVars, taskVars, histVars>>

(* The rest of the micro step in the external training loop: backward, the *)
(* optimizer step when gradients are synced, and on_step_end, which        *)
(* decides whether to evaluate.                                            *)
TrainLoss ==
    /\ pc = "loss"
    /\ step' = step + 1
    /\ \/ /\ SyncGradients
          /\ global_step' = global_step + 1
          /\ should_evaluate' \in BOOLEAN
          /\ pc' = "step_end"
       \/ /\ ~SyncGradients
          /\ pc' = "step"
          /\ UNCHANGED <<global_step, should_evaluate>>
    /\ UNCHANGED <<phase, closing, buffered, resample, eval_batch, eval_flag,
                   serverVars, taskVars, histVars>>

(* _maybe_log_save_evaluate: the model is put in eval mode.                *)
StartEvaluation ==
    /\ pc = "step_end" /\ should_evaluate
    /\ pc' = "evaluate" /\ phase' = "eval"
    /\ UNCHANGED <<should_evaluate, closing, trainVars, serverVars, taskVars,
                   histVars>>

NextTrainingStep ==
    /\ pc = "step_end" /\ ~should_evaluate
    /\ global_step < MaxSteps
    /\ pc' = "step"
    /\ UNCHANGED <<phase, should_evaluate, closing, trainVars, serverVars,
                   taskVars, histVars>>

(* on_epoch_end after the last step: it sets should_evaluate once more,    *)
(* with eval_strategy epoch or max_epochs, whatever on_step_end did.       *)
OnEpochEnd ==
    /\ pc = "step_end" /\ ~should_evaluate
    /\ global_step >= MaxSteps
    /\ ~closing
    /\ closing' = TRUE
    /\ should_evaluate' \in BOOLEAN
    /\ UNCHANGED <<pc, phase, trainVars, serverVars, taskVars, histVars>>

TrainEnd ==
    /\ pc = "step_end" /\ ~should_evaluate
    /\ closing
    /\ pc' = "done"
    /\ UNCHANGED <<phase, should_evaluate, closing, trainVars, serverVars,
                   taskVars, histVars>>

-----------------------------------------------------------------------------
(* Evaluation.                                                             *)

(* Variant: evaluation_loop does not wait for the train rollout.           *)
EvaluationLoopNoWait ==
    /\ pc = "evaluate"
    /\ eval_batch' = 0
    /\ pc' = IF queue[CurrentQueue] = <<>> THEN "prefetch" ELSE "eval_step"
    /\ UNCHANGED <<phase, should_evaluate, closing, global_step, step, buffered,
                   resample, eval_flag, serverVars, taskVars, histVars>>

(* Variant: evaluation_loop does not prefetch.                             *)
EvaluationLoopNoPrefetch ==
    /\ pc = "evaluate"
    /\ queue["train"] # <<>>
    /\ eval_batch' = 0
    /\ pc' = "eval_step"
    /\ UNCHANGED <<phase, should_evaluate, closing, global_step, step, buffered,
                   resample, eval_flag, serverVars, taskVars, histVars>>

(* evaluation_loop waits for the train rollout, then prefetches unless the *)
(* previous evaluation left a rollout in the queue.                        *)
EvaluationLoop ==
    /\ pc = "evaluate"
    /\ queue["train"] # <<>>
    /\ eval_batch' = 0
    /\ pc' = IF queue[CurrentQueue] = <<>> THEN "prefetch" ELSE "eval_step"
    /\ UNCHANGED <<phase, should_evaluate, closing, global_step, step, buffered,
                   resample, eval_flag, serverVars, taskVars, histVars>>

(* prediction_step: _prepare_inputs generates for every eval batch.        *)
PredictionStep ==
    /\ pc = "eval_step"
    /\ eval_batch < EvalBatches
    /\ pc' = "fast"
    /\ UNCHANGED <<phase, should_evaluate, closing, trainVars, serverVars,
                   taskVars, histVars>>

(* The end of evaluation_loop, and on_evaluate of the flow callback.       *)
EvaluationEnd ==
    /\ pc = "eval_step"
    /\ eval_batch >= EvalBatches
    /\ eval_flag' = TRUE
    /\ should_evaluate' = FALSE
    /\ phase' = "train"
    /\ pc' = "step_end"
    /\ UNCHANGED <<closing, global_step, step, buffered, resample, eval_batch,
                   serverVars, taskVars, histVars>>

-----------------------------------------------------------------------------
(* The worker thread of the executor.                                      *)

(* infer_task begins: the server samples with the weights it holds.        *)
InferTaskStart ==
    /\ ~busy /\ tasks # <<>>
    /\ busy' = TRUE
    /\ tasks' = [tasks EXCEPT ![1].seen = SampledFrom]
    /\ UNCHANGED <<threadVars, trainVars, serverVars, queue, failures, histVars>>

(* infer_task returns and the done callback puts the DataCache.  Weights   *)
(* sent in the meantime were seen too.                                     *)
InferTaskDone ==
    /\ busy
    /\ LET seen == tasks[1].seen \cup SampledFrom
           roll == [tasks[1] EXCEPT !.seen = seen]
       IN  /\ queue' = [queue EXCEPT ![roll.dest] = Append(@, roll)]
           /\ cache' = cache \cup seen
    /\ tasks' = Tail(tasks)
    /\ busy' = FALSE
    /\ UNCHANGED <<threadVars, trainVars, last_loaded, loading, vllm, failures,
                   histVars>>

(* infer_task raises: the done callback only logs, and puts nothing.       *)
InferTaskRaises ==
    /\ busy
    /\ failures < MaxFailures
    /\ failures' = failures + 1
    /\ tasks' = Tail(tasks)
    /\ busy' = FALSE
    /\ UNCHANGED <<threadVars, trainVars, serverVars, queue, histVars>>

-----------------------------------------------------------------------------
MainThread ==
    \/ OnTrainBegin \/ Prefetch \/ FastInfer \/ LoadGroup \/ FinishMove
    \/ PrefetchInfer \/ AsyncGenerateRollout \/ QueueGet
    \/ TrainingStep \/ Resample \/ BufferInputs \/ TrainLoss
    \/ StartEvaluation \/ NextTrainingStep \/ OnEpochEnd \/ TrainEnd
    \/ EvaluationLoop \/ PredictionStep \/ EvaluationEnd

Worker == InferTaskStart \/ InferTaskDone

Next == MainThread \/ Worker \/ InferTaskRaises

Spec == Init /\ [][Next]_vars

(* Both threads keep running: a busy wait ends once its condition holds,   *)
(* and a request to the server is answered.                                *)
Fairness == WF_vars(MainThread) /\ WF_vars(Worker)

FairSpec == Spec /\ Fairness
-----------------------------------------------------------------------------
(* Properties.                                                             *)

PCs == {"begin", "prefetch", "prefetch_load", "prefetch_infer", "fast",
        "fast_load", "submit", "get", "score", "loss", "step", "step_end",
        "evaluate", "eval_step", "done"}

(* Every variable keeps its type; the counters that the code bounds        *)
(* (resample_count, eval batches, the group loop) stay within the bound.   *)
TypeOK ==
    /\ pc \in PCs
    /\ phase \in Phases
    /\ should_evaluate \in BOOLEAN /\ closing \in BOOLEAN
    /\ global_step \in Nat /\ step \in Nat
    /\ buffered \in BOOLEAN /\ eval_flag \in BOOLEAN
    /\ resample \in 0..MaxResample
    /\ eval_batch \in 0..EvalBatches
    /\ last_loaded \in Versions
    /\ loading \in 1..(NumGroups + 1)
    /\ vllm \in [Groups -> Versions]
    /\ cache \in SUBSET Versions
    /\ queue \in [Phases -> Seq(Rollouts)]
    /\ tasks \in Seq(Rollouts)
    /\ busy \in BOOLEAN
    /\ failures \in 0..MaxFailures
    /\ requested \in [Phases -> Nat]
    /\ delivered \in [Phases -> Rollouts \cup {NoRollout}]

(* _move_model_to_vllm replaces the server's weights only while no         *)
(* inference task is running or waiting in the executor: what _wait_queue  *)
(* and the two is_async_generate_*_rollout_done loops are there for.  Holds*)
(* across evaluations, resampling and tasks that raise.                    *)
QuietUpdate == pc \in {"prefetch_load", "fast_load"} => tasks = <<>>

(* Every rollout that reached a queue was sampled from one policy only,    *)
(* the one synced when it was requested: no mixture of two updates, and no *)
(* prefix-cache block computed with older weights.                         *)
SampledByRequestedPolicy ==
    \A q \in Phases : \A i \in 1..Len(queue[q]) :
        queue[q][i].seen = {queue[q][i].policy}

(* The most updates between two generations: those of GenerateEvery micro  *)
(* steps, and one more where an epoch of several generations ends in the   *)
(* middle of an accumulation, because its last micro step updates too.     *)
UpdatesPerGeneration ==
    (GenerateEvery + GradAccum - 1) \div GradAccum
      + (IF EpochGenerations > 1 /\ EpochSteps % GradAccum # 0 THEN 1 ELSE 0)

(* When training receives a rollout, the policy has moved on by no more    *)
(* updates than fit between two generations ("sampling uses the model from *)
(* the previous update step" when steps_per_generation is                  *)
(* gradient_accumulation_steps).                                           *)
BoundedStaleness ==
    (pc = "score" /\ delivered["train"] # NoRollout)
        => global_step - delivered["train"].policy <= UpdatesPerGeneration

(* Training reaches its end: no wait on a queue, in any interleaving with  *)
(* the worker, is for a rollout that nobody will produce.                  *)
TrainingCompletes == <>(pc = "done")
=============================================================================
