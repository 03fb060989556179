------------------------- MODULE AsyncRolloutProofs -------------------------
(***************************************************************************)
(* Machine-checked proofs about AsyncRollout, for every value of the       *)
(* constants (any number of steps, groups, eval batches, resamplings and   *)
(* raising tasks).                                                         *)
(***************************************************************************)
EXTENDS AsyncRolloutInvariant, BasicFacts, TLAPS

(* What a rollout is sampled from is a set of policy versions.             *)
LEMMA SampledFromType ==
    ASSUME TypeOK
    PROVE  SampledFrom \in SUBSET Versions
BY DEF TypeOK, SampledFrom, Groups, Versions

(* A request put to the executor is a well-formed task.                    *)
LEMMA RequestType ==
    ASSUME TypeOK, NEW seen \in SUBSET Versions
    PROVE  Request(seen) \in Rollouts
BY DEF TypeOK, Request, Rollouts, CurrentQueue, Phases

(* Replacing the first element of a non-empty sequence.                    *)
LEMMA ReplaceHead ==
    ASSUME NEW S, NEW s \in Seq(S), s # <<>>, NEW x \in S
    PROVE  /\ [s EXCEPT ![1] = x] \in Seq(S)
           /\ Len([s EXCEPT ![1] = x]) = Len(s)
           /\ [s EXCEPT ![1] = x] # <<>>
           /\ [s EXCEPT ![1] = x][1] = x
           /\ \A i \in 2..Len(s) : [s EXCEPT ![1] = x][i] = s[i]
OBVIOUS

(* The inductive strengthening of type correctness.                        *)
LEMMA TypeInvariance == Spec => []TypeInv
<1>1. Init => TypeInv
  <2> SUFFICES ASSUME Init PROVE TypeInv
    OBVIOUS
  <2> USE DEF Init
  <2>1. vllm \in [Groups -> Versions] BY DEF Versions
  <2>2. queue \in [Phases -> Seq(Rollouts)] /\ tasks \in Seq(Rollouts) OBVIOUS
  <2>3. requested \in [Phases -> Nat] /\ delivered \in [Phases -> Rollouts \cup {NoRollout}]
    OBVIOUS
  <2>4. resample \in 0..MaxResample /\ eval_batch \in 0..EvalBatches
        /\ loading \in 1..(NumGroups + 1) /\ failures \in 0..MaxFailures
    BY ConstantsAssumption
  <2>5. phase \in Phases /\ last_loaded \in Versions BY DEF Phases, Versions
  <2>6. pc \in PCs BY DEF PCs
  <2> QED BY <2>1, <2>2, <2>3, <2>4, <2>5, <2>6 DEF TypeInv, TypeOK
<1>2. TypeInv /\ [Next]_vars => TypeInv'
  <2> SUFFICES ASSUME TypeInv, [Next]_vars PROVE TypeInv'
    OBVIOUS
  <2> USE DEF TypeInv, TypeOK, threadVars, trainVars, serverVars, taskVars, histVars
  <2>1. CASE OnTrainBegin BY <2>1 DEF OnTrainBegin, PCs
  <2>2. CASE Prefetch BY <2>2, ConstantsAssumption DEF Prefetch, PCs
  <2>3. CASE FastInfer BY <2>3, ConstantsAssumption DEF FastInfer, PCs
  <2>4. CASE LoadGroup BY <2>4, ConstantsAssumption DEF LoadGroup, Groups, Versions
  <2>5. CASE FinishMove BY <2>5 DEF FinishMove, PCs, Versions
  <2>6. CASE PrefetchInfer
    <3>1. SampledFrom \in SUBSET Versions /\ Request(SampledFrom) \in Rollouts
      BY SampledFromType, RequestType
    <3>2. CurrentQueue \in Phases BY DEF CurrentQueue, Phases
    <3>3. queue' \in [Phases -> Seq(Rollouts)]
      BY <2>6, <3>1, <3>2 DEF PrefetchInfer
    <3>4. requested' \in [Phases -> Nat] BY <2>6 DEF PrefetchInfer
    <3>5. pc' \in PCs /\ phase' \in Phases BY <2>6 DEF PrefetchInfer, PCs, Phases
    <3> QED BY <2>6, <3>1, <3>3, <3>4, <3>5 DEF PrefetchInfer
  <2>7. CASE AsyncGenerateRollout
    <3>1. Request({}) \in Rollouts BY RequestType
    <3>2. tasks' \in Seq(Rollouts) BY <2>7, <3>1 DEF AsyncGenerateRollout
    <3>3. requested' \in [Phases -> Nat] BY <2>7 DEF AsyncGenerateRollout
    <3>4. pc' \in PCs BY <2>7 DEF AsyncGenerateRollout, PCs
    <3>5. tasks' # <<>>
      <4>1. Len(tasks') = Len(tasks) + 1 /\ Len(tasks) \in Nat
        BY <2>7, <3>1 DEF AsyncGenerateRollout
      <4> QED BY <4>1
    <3> QED BY <2>7, <3>2, <3>3, <3>4, <3>5 DEF AsyncGenerateRollout
  <2>8. CASE QueueGet
    <3>1. CurrentQueue \in Phases BY DEF CurrentQueue, Phases
    <3>2. queue' \in [Phases -> Seq(Rollouts)] /\ delivered' \in [Phases -> Rollouts \cup {NoRollout}]
      BY <2>8, <3>1 DEF QueueGet
    <3>3. pc' \in PCs BY <2>8 DEF QueueGet, PCs
    <3>4. eval_batch' \in 0..EvalBatches
      BY <2>8, ConstantsAssumption DEF QueueGet, Phases
    <3> QED BY <2>8, <3>2, <3>3, <3>4 DEF QueueGet, Phases
  <2>9. CASE TrainingStep BY <2>9 DEF TrainingStep, PCs
  <2>10. CASE Resample
    <3>1. resample' \in 0..MaxResample BY <2>10, ConstantsAssumption DEF Resample
    <3> QED BY <2>10, <3>1 DEF Resample, PCs
  <2>11. CASE BufferInputs BY <2>11, ConstantsAssumption DEF BufferInputs, PCs
  <2>12. CASE TrainLoss BY <2>12 DEF TrainLoss, PCs
  <2>13. CASE StartEvaluation BY <2>13 DEF StartEvaluation, PCs, Phases
  <2>14. CASE NextTrainingStep BY <2>14 DEF NextTrainingStep, PCs
  <2>15. CASE OnEpochEnd BY <2>15 DEF OnEpochEnd
  <2>16. CASE TrainEnd BY <2>16 DEF TrainEnd, PCs
  <2>17. CASE EvaluationLoop BY <2>17, ConstantsAssumption DEF EvaluationLoop, PCs
  <2>18. CASE PredictionStep BY <2>18 DEF PredictionStep, PCs
  <2>19. CASE EvaluationEnd BY <2>19 DEF EvaluationEnd, PCs, Phases
  <2>20. CASE InferTaskStart
    <3>1. SampledFrom \in SUBSET Versions BY SampledFromType
    <3>2. [tasks[1] EXCEPT !.seen = SampledFrom] \in Rollouts
      <4>1. tasks[1] \in Rollouts BY <2>20 DEF InferTaskStart
      <4> QED BY <3>1, <4>1 DEF Rollouts
    <3>3. tasks' = [tasks EXCEPT ![1] = [tasks[1] EXCEPT !.seen = SampledFrom]]
      BY <2>20 DEF InferTaskStart
    <3>4. tasks \in Seq(Rollouts) /\ tasks # <<>> BY <2>20 DEF InferTaskStart
    <3>5. tasks' \in Seq(Rollouts) /\ tasks' # <<>>
      BY <3>2, <3>3, <3>4, ReplaceHead
    <3> QED BY <2>20, <3>5 DEF InferTaskStart
  <2>21. CASE InferTaskDone
    <3> DEFINE seen == tasks[1].seen \cup SampledFrom
               roll == [tasks[1] EXCEPT !.seen = seen]
    <3>1. SampledFrom \in SUBSET Versions BY SampledFromType
    <3>2. tasks[1] \in Rollouts BY <2>21 DEF InferTaskDone
    <3>3. seen \in SUBSET Versions BY <3>1, <3>2 DEF Rollouts
    <3>4. roll \in Rollouts /\ roll.dest \in Phases BY <3>2, <3>3 DEF Rollouts
    <3> HIDE DEF seen, roll
    <3>5. queue' = [queue EXCEPT ![roll.dest] = Append(@, roll)]
      BY <2>21 DEF InferTaskDone, roll, seen
    <3>6. queue' \in [Phases -> Seq(Rollouts)] BY <3>4, <3>5
    <3>7. cache' \in SUBSET Versions BY <2>21, <3>3 DEF InferTaskDone, seen
    <3>8. tasks' \in Seq(Rollouts) BY <2>21 DEF InferTaskDone
    <3> QED BY <2>21, <3>6, <3>7, <3>8 DEF InferTaskDone
  <2>22. CASE InferTaskRaises
    <3>1. tasks' \in Seq(Rollouts) BY <2>22 DEF InferTaskRaises
    <3>2. failures' \in 0..MaxFailures BY <2>22, ConstantsAssumption DEF InferTaskRaises
    <3> QED BY <2>22, <3>1, <3>2 DEF InferTaskRaises
  <2>23. CASE UNCHANGED vars BY <2>23 DEF vars
  <2> QED BY <2>1, <2>2, <2>3, <2>4, <2>5, <2>6, <2>7, <2>8, <2>9, <2>10, <2>11,
             <2>12, <2>13, <2>14, <2>15, <2>16, <2>17, <2>18, <2>19, <2>20,
             <2>21, <2>22, <2>23 DEF Next, MainThread, Worker
<1> QED BY <1>1, <1>2, PTL DEF Spec

(* Type correctness: every reachable state of the trainer satisfies TypeOK;*)
(* in particular resample_count, the eval batches and the group loop stay  *)
(* within their bounds.                                                    *)
THEOREM TypeCorrect == Spec => []TypeOK
BY TypeInvariance, PTL DEF TypeInv

(* The counting invariant is inductive: every action of the main thread    *)
(* and of the worker keeps the number of requested and not yet consumed    *)
(* rollouts that the program counter of the main thread calls for.         *)
LEMMA OutstandingStep ==
    ASSUME ~EvalOnStart, TypeInv, OutstandingInv, [Next]_vars
    PROVE  OutstandingInv'
<1> USE DEF threadVars, trainVars, serverVars, taskVars, histVars
<1>0. /\ Len(tasks) \in Nat /\ Len(queue["train"]) \in Nat /\ Len(queue["eval"]) \in Nat
      /\ tasks = <<>> <=> Len(tasks) = 0
      /\ queue["train"] = <<>> <=> Len(queue["train"]) = 0
      /\ queue["eval"] = <<>> <=> Len(queue["eval"]) = 0
      /\ global_step \in Nat /\ eval_batch \in Nat /\ phase \in Phases
  BY DEF TypeInv, TypeOK, Phases
<1>1. CASE OnTrainBegin
  <2>1. UNCHANGED <<queue, tasks>> BY <1>1 DEF OnTrainBegin
  <2> QED BY <1>0, <1>1, <2>1, ConstantsAssumption
          DEF OnTrainBegin, CurrentQueue, TypeInv, OutstandingInv, PhaseInv, StartInv, Starting, TrainInv, EvalInv,
              TrainOutstanding, EvalOutstanding, AfterEvaluation, EvaluatedTwice, TasksFor, Phases
<1>2. CASE Prefetch
  <2>1. UNCHANGED <<queue, tasks>> BY <1>2 DEF Prefetch
  <2> QED BY <1>0, <1>2, <2>1, ConstantsAssumption
          DEF Prefetch, CurrentQueue, TypeInv, OutstandingInv, PhaseInv, StartInv, Starting, TrainInv, EvalInv,
              TrainOutstanding, EvalOutstanding, AfterEvaluation, EvaluatedTwice, TasksFor, Phases
<1>3. CASE FastInfer
  <2>1. UNCHANGED <<queue, tasks>> BY <1>3 DEF FastInfer
  <2> QED BY <1>0, <1>3, <2>1, ConstantsAssumption
          DEF FastInfer, CurrentQueue, TypeInv, OutstandingInv, PhaseInv, StartInv, Starting, TrainInv, EvalInv,
              TrainOutstanding, EvalOutstanding, AfterEvaluation, EvaluatedTwice, TasksFor, Phases
<1>4. CASE LoadGroup
  <2>1. UNCHANGED <<queue, tasks>> BY <1>4 DEF LoadGroup
  <2> QED BY <1>0, <1>4, <2>1, ConstantsAssumption
          DEF LoadGroup, CurrentQueue, TypeInv, OutstandingInv, PhaseInv, StartInv, Starting, TrainInv, EvalInv,
              TrainOutstanding, EvalOutstanding, AfterEvaluation, EvaluatedTwice, TasksFor, Phases
<1>5. CASE FinishMove
  <2>1. UNCHANGED <<queue, tasks>> BY <1>5 DEF FinishMove
  <2> QED BY <1>0, <1>5, <2>1, ConstantsAssumption
          DEF FinishMove, CurrentQueue, TypeInv, OutstandingInv, PhaseInv, StartInv, Starting, TrainInv, EvalInv,
              TrainOutstanding, EvalOutstanding, AfterEvaluation, EvaluatedTwice, TasksFor, Phases
<1>6. CASE TrainingStep
  <2>1. UNCHANGED <<queue, tasks>> BY <1>6 DEF TrainingStep
  <2> QED BY <1>0, <1>6, <2>1, ConstantsAssumption
          DEF TrainingStep, CurrentQueue, TypeInv, OutstandingInv, PhaseInv, StartInv, Starting, TrainInv, EvalInv,
              TrainOutstanding, EvalOutstanding, AfterEvaluation, EvaluatedTwice, TasksFor, Phases
<1>7. CASE Resample
  <2>1. UNCHANGED <<queue, tasks>> BY <1>7 DEF Resample
  <2> QED BY <1>0, <1>7, <2>1, ConstantsAssumption
          DEF Resample, CurrentQueue, TypeInv, OutstandingInv, PhaseInv, StartInv, Starting, TrainInv, EvalInv,
              TrainOutstanding, EvalOutstanding, AfterEvaluation, EvaluatedTwice, TasksFor, Phases
<1>8. CASE BufferInputs
  <2>1. UNCHANGED <<queue, tasks>> BY <1>8 DEF BufferInputs
  <2> QED BY <1>0, <1>8, <2>1, ConstantsAssumption
          DEF BufferInputs, CurrentQueue, TypeInv, OutstandingInv, PhaseInv, StartInv, Starting, TrainInv, EvalInv,
              TrainOutstanding, EvalOutstanding, AfterEvaluation, EvaluatedTwice, TasksFor, Phases
<1>9. CASE TrainLoss
  <2>1. UNCHANGED <<queue, tasks>> BY <1>9 DEF TrainLoss
  <2> QED BY <1>0, <1>9, <2>1, ConstantsAssumption
          DEF TrainLoss, CurrentQueue, TypeInv, OutstandingInv, PhaseInv, StartInv, Starting, TrainInv, EvalInv,
              TrainOutstanding, EvalOutstanding, AfterEvaluation, EvaluatedTwice, TasksFor, Phases
<1>10. CASE StartEvaluation
  <2>1. UNCHANGED <<queue, tasks>> BY <1>10 DEF StartEvaluation
  <2> QED BY <1>0, <1>10, <2>1, ConstantsAssumption
          DEF StartEvaluation, CurrentQueue, TypeInv, OutstandingInv, PhaseInv, StartInv, Starting, TrainInv, EvalInv,
              TrainOutstanding, EvalOutstanding, AfterEvaluation, EvaluatedTwice, TasksFor, Phases
<1>11. CASE NextTrainingStep
  <2>1. UNCHANGED <<queue, tasks>> BY <1>11 DEF NextTrainingStep
  <2> QED BY <1>0, <1>11, <2>1, ConstantsAssumption
          DEF NextTrainingStep, CurrentQueue, TypeInv, OutstandingInv, PhaseInv, StartInv, Starting, TrainInv, EvalInv,
              TrainOutstanding, EvalOutstanding, AfterEvaluation, EvaluatedTwice, TasksFor, Phases
<1>12. CASE OnEpochEnd
  <2>1. UNCHANGED <<queue, tasks>> BY <1>12 DEF OnEpochEnd
  <2> QED BY <1>0, <1>12, <2>1, ConstantsAssumption
          DEF OnEpochEnd, CurrentQueue, TypeInv, OutstandingInv, PhaseInv, StartInv, Starting, TrainInv, EvalInv,
              TrainOutstanding, EvalOutstanding, AfterEvaluation, EvaluatedTwice, TasksFor, Phases
<1>13. CASE TrainEnd
  <2>1. UNCHANGED <<queue, tasks>> BY <1>13 DEF TrainEnd
  <2> QED BY <1>0, <1>13, <2>1, ConstantsAssumption
          DEF TrainEnd, CurrentQueue, TypeInv, OutstandingInv, PhaseInv, StartInv, Starting, TrainInv, EvalInv,
              TrainOutstanding, EvalOutstanding, AfterEvaluation, EvaluatedTwice, TasksFor, Phases
<1>14. CASE EvaluationLoop
  <2>1. UNCHANGED <<queue, tasks>> BY <1>14 DEF EvaluationLoop
  <2> QED BY <1>0, <1>14, <2>1, ConstantsAssumption
          DEF EvaluationLoop, CurrentQueue, TypeInv, OutstandingInv, PhaseInv, StartInv, Starting, TrainInv, EvalInv,
              TrainOutstanding, EvalOutstanding, AfterEvaluation, EvaluatedTwice, TasksFor, Phases
<1>15. CASE PredictionStep
  <2>1. UNCHANGED <<queue, tasks>> BY <1>15 DEF PredictionStep
  <2> QED BY <1>0, <1>15, <2>1, ConstantsAssumption
          DEF PredictionStep, CurrentQueue, TypeInv, OutstandingInv, PhaseInv, StartInv, Starting, TrainInv, EvalInv,
              TrainOutstanding, EvalOutstanding, AfterEvaluation, EvaluatedTwice, TasksFor, Phases
<1>16. CASE EvaluationEnd
  <2>1. UNCHANGED <<queue, tasks>> BY <1>16 DEF EvaluationEnd
  <2> QED BY <1>0, <1>16, <2>1, ConstantsAssumption
          DEF EvaluationEnd, CurrentQueue, TypeInv, OutstandingInv, PhaseInv, StartInv, Starting, TrainInv, EvalInv,
              TrainOutstanding, EvalOutstanding, AfterEvaluation, EvaluatedTwice, TasksFor, Phases
<1>17. CASE PrefetchInfer
  <2>1. Request(SampledFrom) \in Rollouts
    BY SampledFromType, RequestType DEF TypeInv
  <2>2. CurrentQueue = phase /\ tasks' = tasks
    BY <1>0, <1>17 DEF CurrentQueue, PrefetchInfer, OutstandingInv, PhaseInv, Phases
  <2>3. /\ Len(queue'[phase]) = Len(queue[phase]) + 1
        /\ \A q \in Phases \ {phase} : queue'[q] = queue[q]
    BY <1>0, <1>17, <2>1, <2>2 DEF PrefetchInfer, TypeInv, TypeOK
  <2>4. TasksFor("train") = TasksFor("train")' /\ TasksFor("eval") = TasksFor("eval")'
    BY <2>2 DEF TasksFor
  <2>5. phase = "train" => TasksFor("train")
    BY <1>0, <1>17 DEF PrefetchInfer, TasksFor, OutstandingInv, StartInv, Starting
  <2> QED BY <1>0, <1>17, <2>2, <2>3, <2>4, <2>5
          DEF PrefetchInfer, TypeInv, Phases, OutstandingInv, PhaseInv, StartInv, Starting, TrainInv, EvalInv,
              TrainOutstanding, EvalOutstanding, AfterEvaluation, EvaluatedTwice
<1>18. CASE AsyncGenerateRollout
  <2>1. Request({}) \in Rollouts /\ Request({}).dest = CurrentQueue
    BY RequestType DEF TypeInv, Request
  <2>2. CurrentQueue = phase /\ queue' = queue
    BY <1>0, <1>18 DEF CurrentQueue, AsyncGenerateRollout, OutstandingInv, PhaseInv, Phases
  <2>3. tasks' = Append(tasks, Request({})) /\ tasks \in Seq(Rollouts)
    BY <1>18 DEF AsyncGenerateRollout, TypeInv, TypeOK
  <2>4. /\ Len(tasks') = Len(tasks) + 1
        /\ \A n \in Nat : n + Len(tasks) <= 1 => n + Len(tasks') <= 2
    BY <1>0, <2>1, <2>3
  <2>5. phase = "train" /\ TasksFor("train") => TasksFor("train")'
    BY <1>0, <2>1, <2>2, <2>3, <2>4 DEF TasksFor
  <2>6. phase = "eval" /\ TasksFor("eval") => TasksFor("eval")'
    BY <1>0, <2>1, <2>2, <2>3, <2>4 DEF TasksFor
  <2>7. /\ pc = "submit" /\ pc' = "get"
        /\ UNCHANGED <<phase, should_evaluate, closing, global_step, last_loaded>>
    BY <1>18 DEF AsyncGenerateRollout
  <2>8. phase = "train" => TrainOutstanding(2)'
    BY <1>0, <2>2, <2>4, <2>5, <2>7
       DEF OutstandingInv, TrainInv, TrainOutstanding
  <2>9. phase = "eval" => EvalOutstanding(2)'
    BY <1>0, <2>2, <2>4, <2>6, <2>7
       DEF OutstandingInv, EvalInv, EvalOutstanding, EvaluatedTwice
  <2> QED BY <1>0, <2>7, <2>8, <2>9
          DEF Phases, OutstandingInv, PhaseInv, StartInv, Starting, TrainInv, EvalInv
<1>19. CASE QueueGet
  <2>1. CurrentQueue = phase /\ tasks' = tasks
    BY <1>0, <1>19 DEF CurrentQueue, QueueGet, OutstandingInv, PhaseInv, Phases
  <2>2. /\ Len(queue'[phase]) = Len(queue[phase]) - 1
        /\ \A q \in Phases \ {phase} : queue'[q] = queue[q]
    BY <1>0, <1>19, <2>1 DEF QueueGet, TypeInv, TypeOK
  <2>3. TasksFor("train") = TasksFor("train")' /\ TasksFor("eval") = TasksFor("eval")'
    BY <2>1 DEF TasksFor
  <2> QED BY <1>0, <1>19, <2>1, <2>2, <2>3
          DEF QueueGet, TypeInv, Phases, OutstandingInv, PhaseInv, StartInv, Starting, TrainInv, EvalInv,
              TrainOutstanding, EvalOutstanding, AfterEvaluation, EvaluatedTwice
<1>20. CASE InferTaskStart
  <2>1. tasks \in Seq(Rollouts) /\ tasks # <<>> BY <1>20 DEF InferTaskStart, TypeInv, TypeOK
  <2>2. Len(tasks') = Len(tasks) /\ \A i \in 1..Len(tasks) : tasks'[i].dest = tasks[i].dest
    BY <1>0, <1>20, <2>1 DEF InferTaskStart, Rollouts
  <2>3. TasksFor("train") = TasksFor("train")' /\ TasksFor("eval") = TasksFor("eval")'
    BY <2>2 DEF TasksFor
  <2> QED BY <1>0, <1>20, <2>1, <2>2, <2>3
          DEF InferTaskStart, TypeInv, Phases, OutstandingInv, PhaseInv, StartInv, Starting, TrainInv, EvalInv,
              TrainOutstanding, EvalOutstanding, AfterEvaluation, EvaluatedTwice
<1>21. CASE InferTaskDone
  <2> DEFINE seen == tasks[1].seen \cup SampledFrom
             roll == [tasks[1] EXCEPT !.seen = seen]
  <2>1. tasks \in Seq(Rollouts) /\ tasks # <<>> /\ tasks[1] \in Rollouts
    BY <1>21 DEF InferTaskDone, TypeInv, TypeOK
  <2>2. SampledFrom \in SUBSET Versions BY SampledFromType DEF TypeInv
  <2>3. seen \in SUBSET Versions BY <2>1, <2>2 DEF Rollouts
  <2>4. roll \in Rollouts /\ roll.dest = tasks[1].dest /\ tasks[1].dest \in Phases
    BY <2>1, <2>3 DEF Rollouts
  <2> HIDE DEF seen, roll
  <2>5. queue' = [queue EXCEPT ![tasks[1].dest] = Append(@, roll)]
    BY <1>21, <2>4 DEF InferTaskDone, roll, seen
  <2>6. /\ Len(queue'[tasks[1].dest]) = Len(queue[tasks[1].dest]) + 1
        /\ \A q \in Phases \ {tasks[1].dest} : queue'[q] = queue[q]
    BY <2>4, <2>5 DEF TypeInv, TypeOK
  <2>7. /\ Len(tasks') = Len(tasks) - 1
        /\ \A i \in 1..Len(tasks') : tasks'[i] = tasks[i + 1]
    BY <1>21, <2>1 DEF InferTaskDone
  <2>8. TasksFor("train") => TasksFor("train")' /\ tasks[1].dest = "train"
    BY <1>0, <2>1, <2>7 DEF TasksFor
  <2>9. TasksFor("eval") => TasksFor("eval")' /\ tasks[1].dest = "eval"
    BY <1>0, <2>1, <2>7 DEF TasksFor
  <2> QED BY <1>0, <1>21, <2>1, <2>4, <2>6, <2>7, <2>8, <2>9
          DEF InferTaskDone, TypeInv, Phases, OutstandingInv, PhaseInv, StartInv, Starting, TrainInv, EvalInv,
              TrainOutstanding, EvalOutstanding, AfterEvaluation, EvaluatedTwice
<1>22. CASE InferTaskRaises
  <2>1. tasks \in Seq(Rollouts) /\ tasks # <<>>
    BY <1>22 DEF InferTaskRaises, TypeInv, TypeOK
  <2>2. /\ Len(tasks') = Len(tasks) - 1
        /\ \A i \in 1..Len(tasks') : tasks'[i] = tasks[i + 1]
    BY <1>22, <2>1 DEF InferTaskRaises
  <2>3. TasksFor("train") => TasksFor("train")' BY <1>0, <2>1, <2>2 DEF TasksFor
  <2>4. TasksFor("eval") => TasksFor("eval")' BY <1>0, <2>1, <2>2 DEF TasksFor
  <2> QED BY <1>0, <1>22, <2>1, <2>2, <2>3, <2>4
          DEF InferTaskRaises, TypeInv, Phases, OutstandingInv, PhaseInv, StartInv, Starting, TrainInv, EvalInv,
              TrainOutstanding, EvalOutstanding, AfterEvaluation, EvaluatedTwice
<1>23. CASE UNCHANGED vars
  BY <1>23 DEF vars, TasksFor, OutstandingInv, PhaseInv, StartInv, Starting, TrainInv, EvalInv,
              TrainOutstanding, EvalOutstanding, AfterEvaluation, EvaluatedTwice
<1> QED BY <1>1, <1>2, <1>3, <1>4, <1>5, <1>6, <1>7, <1>8, <1>9, <1>10, <1>11, <1>12, <1>13, <1>14, <1>15, <1>16, <1>17, <1>18, <1>19, <1>20, <1>21, <1>22, <1>23 DEF Next, MainThread, Worker

(* The counting invariant forces an empty executor during a weight update. *)
LEMMA OutstandingQuiet ==
    ASSUME TypeInv, OutstandingInv
    PROVE  QuietUpdate
BY DEF TypeInv, TypeOK, Phases, QuietUpdate, OutstandingInv, StartInv, Starting, TrainInv, EvalInv

(* Outside a weight update, sampling sees the policy of last_loaded only.  *)
LEMMA SampledFromLoaded ==
    ASSUME TypeInv, PolicyInv, pc \notin {"prefetch_load", "fast_load"}
    PROVE  SampledFrom = {last_loaded}
<1>1. 1 \in Groups BY ConstantsAssumption DEF Groups
<1> QED BY <1>1 DEF SampledFrom, PolicyInv

(* The policy invariant is inductive: outside a weight update all groups   *)
(* and the prefix cache hold one version, the one recorded in the tasks    *)
(* and in the rollouts requested from it.                                  *)
LEMMA PolicyStep ==
    ASSUME ~EvalOnStart, TypeInv, OutstandingInv, PolicyInv, [Next]_vars
    PROVE  PolicyInv'
<1> USE DEF threadVars, trainVars, serverVars, taskVars, histVars
<1>0. QuietUpdate BY OutstandingQuiet
<1>1. CASE OnTrainBegin
  BY <1>1 DEF OnTrainBegin, PolicyInv, SampledByRequestedPolicy, Groups, TypeInv, TypeOK
<1>2. CASE TrainingStep
  BY <1>2 DEF TrainingStep, PolicyInv, SampledByRequestedPolicy, Groups, TypeInv, TypeOK
<1>3. CASE Resample
  BY <1>3 DEF Resample, PolicyInv, SampledByRequestedPolicy, Groups, TypeInv, TypeOK
<1>4. CASE BufferInputs
  BY <1>4 DEF BufferInputs, PolicyInv, SampledByRequestedPolicy, Groups, TypeInv, TypeOK
<1>5. CASE StartEvaluation
  BY <1>5 DEF StartEvaluation, PolicyInv, SampledByRequestedPolicy, Groups, TypeInv, TypeOK
<1>6. CASE NextTrainingStep
  BY <1>6 DEF NextTrainingStep, PolicyInv, SampledByRequestedPolicy, Groups, TypeInv, TypeOK
<1>7. CASE OnEpochEnd
  BY <1>7 DEF OnEpochEnd, PolicyInv, SampledByRequestedPolicy, Groups, TypeInv, TypeOK
<1>8. CASE TrainEnd
  BY <1>8 DEF TrainEnd, PolicyInv, SampledByRequestedPolicy, Groups, TypeInv, TypeOK
<1>9. CASE EvaluationLoop
  BY <1>9 DEF EvaluationLoop, PolicyInv, SampledByRequestedPolicy, Groups, TypeInv, TypeOK
<1>10. CASE PredictionStep
  BY <1>10 DEF PredictionStep, PolicyInv, SampledByRequestedPolicy, Groups, TypeInv, TypeOK
<1>11. CASE EvaluationEnd
  BY <1>11 DEF EvaluationEnd, PolicyInv, SampledByRequestedPolicy, Groups, TypeInv, TypeOK
<1>12. CASE Prefetch
  BY <1>12 DEF Prefetch, PolicyInv, SampledByRequestedPolicy, Groups, TypeInv, TypeOK
<1>13. CASE FastInfer
  BY <1>13 DEF FastInfer, PolicyInv, SampledByRequestedPolicy, Groups, TypeInv, TypeOK
<1>14. CASE TrainLoss
  BY <1>14 DEF TrainLoss, PolicyInv, SampledByRequestedPolicy, Groups, TypeInv, TypeOK
<1>15. CASE LoadGroup
  <2>1. tasks = <<>> /\ UNCHANGED <<queue, tasks, busy, global_step, pc, last_loaded>>
    BY <1>0, <1>15 DEF LoadGroup, QuietUpdate
  <2>2. \A g \in Groups : g < loading' => vllm'[g] = global_step
    BY <1>15 DEF LoadGroup, PolicyInv, TypeInv, TypeOK, Groups, Versions
  <2>3. ~busy BY <2>1 DEF TypeInv
  <2>4. \A i \in 1..Len(tasks) : FALSE BY <2>1
  <2> QED BY <1>15, <2>1, <2>2, <2>3, <2>4
          DEF LoadGroup, PolicyInv, SampledByRequestedPolicy
<1>16. CASE FinishMove
  <2>1. tasks = <<>> /\ UNCHANGED <<queue, tasks, busy, vllm>>
    BY <1>0, <1>16 DEF FinishMove, QuietUpdate
  <2>2. \A g \in Groups : vllm'[g] = last_loaded'
    BY <1>16, ConstantsAssumption DEF FinishMove, PolicyInv, TypeInv, TypeOK, Groups
  <2>3. ~busy BY <2>1 DEF TypeInv
  <2>4. \A i \in 1..Len(tasks) : FALSE BY <2>1
  <2> QED BY <1>16, <2>1, <2>2, <2>3, <2>4
          DEF FinishMove, PolicyInv, SampledByRequestedPolicy
<1>17. CASE PrefetchInfer
  <2>1. SampledFrom = {last_loaded} BY <1>17, SampledFromLoaded DEF PrefetchInfer
  <2>2. /\ Request(SampledFrom) \in Rollouts
        /\ Request(SampledFrom).seen = {Request(SampledFrom).policy}
    BY <2>1, SampledFromType, RequestType DEF TypeInv, Request
  <2>3. CurrentQueue \in Phases BY DEF CurrentQueue, Phases
  <2>4. SampledByRequestedPolicy'
    BY <1>17, <2>2, <2>3, SMTT(30)
       DEF PrefetchInfer, TypeInv, TypeOK, PolicyInv, SampledByRequestedPolicy
  <2> QED BY <1>17, <2>1, <2>4 DEF PrefetchInfer, PolicyInv
<1>18. CASE AsyncGenerateRollout
  <2>1. Request({}) \in Rollouts /\ Request({}).policy = last_loaded
    BY RequestType DEF TypeInv, Request
  <2>2. tasks' = Append(tasks, Request({})) /\ tasks \in Seq(Rollouts)
    BY <1>18 DEF AsyncGenerateRollout, TypeInv, TypeOK
  <2>3. \A i \in 1..Len(tasks') : tasks'[i].policy = last_loaded
    BY <2>1, <2>2 DEF PolicyInv
  <2>4. busy => tasks'[1].seen = {last_loaded}
    BY <2>1, <2>2 DEF PolicyInv, TypeInv
  <2> QED BY <1>18, <2>3, <2>4
          DEF AsyncGenerateRollout, PolicyInv, SampledByRequestedPolicy
<1>19. CASE QueueGet
  <2>1. CurrentQueue \in Phases BY DEF CurrentQueue, Phases
  <2>2. SampledByRequestedPolicy'
    BY <1>19, <2>1 DEF QueueGet, TypeInv, TypeOK, PolicyInv, SampledByRequestedPolicy
  <2> QED BY <1>19, <2>2 DEF QueueGet, PolicyInv
<1>20. CASE InferTaskStart
  <2>1. pc \notin {"prefetch_load", "fast_load"}
    BY <1>0, <1>20 DEF InferTaskStart, QuietUpdate
  <2>2. SampledFrom = {last_loaded} BY <2>1, SampledFromLoaded
  <2>3. tasks \in Seq(Rollouts) /\ tasks # <<>> BY <1>20 DEF InferTaskStart, TypeInv, TypeOK
  <2>4. /\ Len(tasks') = Len(tasks) /\ tasks'[1].seen = {last_loaded}
        /\ \A i \in 1..Len(tasks) : tasks'[i].policy = tasks[i].policy
    BY <1>20, <2>2, <2>3 DEF InferTaskStart, Rollouts
  <2> QED BY <1>20, <2>1, <2>4 DEF InferTaskStart, PolicyInv, SampledByRequestedPolicy
<1>21. CASE InferTaskDone
  <2> DEFINE seen == tasks[1].seen \cup SampledFrom
             roll == [tasks[1] EXCEPT !.seen = seen]
  <2>1. tasks \in Seq(Rollouts) /\ tasks # <<>> /\ tasks[1] \in Rollouts
    BY <1>21 DEF InferTaskDone, TypeInv, TypeOK
  <2>2. pc \notin {"prefetch_load", "fast_load"} BY <1>0, <2>1 DEF QuietUpdate
  <2>3. SampledFrom = {last_loaded} BY <2>2, SampledFromLoaded
  <2>4. seen = {last_loaded} /\ tasks[1].policy = last_loaded
    BY <1>21, <2>1, <2>3 DEF PolicyInv, InferTaskDone
  <2>5. seen \in SUBSET Versions BY <2>4 DEF TypeInv, TypeOK, Versions
  <2>6. roll \in Rollouts /\ roll.dest \in Phases /\ roll.seen = {roll.policy}
    BY <2>1, <2>4, <2>5 DEF Rollouts
  <2> HIDE DEF seen, roll
  <2>7. queue' = [queue EXCEPT ![roll.dest] = Append(@, roll)] /\ cache' = cache \cup seen
    BY <1>21 DEF InferTaskDone, roll, seen
  <2>8. SampledByRequestedPolicy'
    BY <2>6, <2>7, SMTT(30) DEF TypeInv, TypeOK, PolicyInv, SampledByRequestedPolicy
  <2>9. \A i \in 1..Len(tasks') : tasks'[i].policy = last_loaded
    BY <1>21, <2>1 DEF InferTaskDone, PolicyInv
  <2> QED BY <1>21, <2>2, <2>4, <2>7, <2>8, <2>9 DEF InferTaskDone, PolicyInv
<1>22. CASE InferTaskRaises
  <2>1. tasks \in Seq(Rollouts) /\ tasks # <<>>
    BY <1>22 DEF InferTaskRaises, TypeInv, TypeOK
  <2>2. \A i \in 1..Len(tasks') : tasks'[i].policy = last_loaded
    BY <1>22, <2>1 DEF InferTaskRaises, PolicyInv
  <2> QED BY <1>22, <2>2 DEF InferTaskRaises, PolicyInv, SampledByRequestedPolicy
<1>23. CASE UNCHANGED vars
  BY <1>23 DEF vars, PolicyInv, SampledByRequestedPolicy
<1> QED BY <1>1, <1>2, <1>3, <1>4, <1>5, <1>6, <1>7, <1>8, <1>9, <1>10, <1>11, <1>12, <1>13, <1>14, <1>15, <1>16, <1>17, <1>18, <1>19, <1>20, <1>21, <1>22, <1>23 DEF Next, MainThread, Worker

(* The whole strengthened invariant holds in every reachable state when    *)
(* training does not start with an evaluation.                             *)
LEMMA IInvariance == ASSUME ~EvalOnStart PROVE Spec => []IInv
<1>1. Init => OutstandingInv /\ PolicyInv
  <2> SUFFICES ASSUME Init PROVE OutstandingInv /\ PolicyInv
    OBVIOUS
  <2>1. \A q \in Phases : queue[q] = <<>> BY DEF Init
  <2>2. SampledByRequestedPolicy BY <2>1 DEF SampledByRequestedPolicy
  <2>3. tasks = <<>> /\ \A i \in 1..Len(tasks) : FALSE BY DEF Init
  <2>4. OutstandingInv
    BY <2>1, <2>3 DEF Init, Phases, OutstandingInv, PhaseInv, StartInv, Starting, TrainInv, EvalInv
  <2>5. PolicyInv BY <2>2, <2>3 DEF Init, PolicyInv
  <2> QED BY <2>4, <2>5
<1>2. TypeInv /\ OutstandingInv /\ PolicyInv /\ [Next]_vars
        => (OutstandingInv /\ PolicyInv)'
  BY OutstandingStep, PolicyStep
<1> QED BY <1>1, <1>2, TypeInvariance, PTL DEF Spec, IInv

(* No weight update while an inference task is running or queued, for any  *)
(* number of groups, steps, resamplings and raising tasks, provided        *)
(* training does not start with an evaluation (eval_on_start).             *)
THEOREM UpdatesAreQuiet == ASSUME ~EvalOnStart PROVE Spec => []QuietUpdate
<1>1. IInv => QuietUpdate BY OutstandingQuiet DEF IInv
<1> QED BY <1>1, IInvariance, PTL

(* Every rollout in a queue was sampled from the single policy that was    *)
(* synced when it was requested.                                           *)
THEOREM RolloutsAreUntorn == ASSUME ~EvalOnStart PROVE Spec => []SampledByRequestedPolicy
<1>1. IInv => SampledByRequestedPolicy BY DEF IInv, PolicyInv
<1> QED BY <1>1, IInvariance, PTL
-----------------------------------------------------------------------------
(* Staleness: the arithmetic of micro steps, updates and generations.      *)

(* The periods of the training loop are positive.                          *)
LEMMA PeriodFacts ==
    /\ GenerateEvery \in Nat \ {0} /\ EpochSteps \in Nat \ {0}
    /\ EpochUpdates \in Nat \ {0} /\ GradAccum \in Nat \ {0}
    /\ EpochSteps = EpochGenerations * GenerateEvery
<1>1. \A a, b \in Nat \ {0} : a * b \in Nat \ {0} OBVIOUS
<1>2. GenerateEvery \in Nat \ {0} BY <1>1, ConstantsAssumption DEF GenerateEvery
<1>3. EpochSteps \in Nat \ {0} BY <1>1, <1>2, ConstantsAssumption DEF EpochSteps
<1>4. EpochSteps - 1 \in Nat BY <1>3
<1>5. (EpochSteps - 1) \div GradAccum \in Nat BY <1>4, ConstantsAssumption, DivFacts
<1>6. EpochUpdates \in Nat \ {0} BY <1>5 DEF EpochUpdates
<1> QED BY <1>2, <1>3, <1>6, ConstantsAssumption DEF EpochSteps

(* Updates counts: it is a number, 0 at the beginning of training.         *)
LEMMA UpdatesType ==
    ASSUME NEW s \in Nat
    PROVE  Updates(s) \in Nat
<1>1. s \div EpochSteps \in Nat /\ s % EpochSteps \in Nat BY PeriodFacts, DivMod
<1>2. (s % EpochSteps) \div GradAccum \in Nat BY <1>1, PeriodFacts, DivFacts
<1>3. (s \div EpochSteps) * EpochUpdates \in Nat BY <1>1, PeriodFacts
<1> QED BY <1>2, <1>3 DEF Updates

(* Updates counts one for each micro step that syncs the gradients.        *)
LEMMA UpdatesStep ==
    ASSUME step \in Nat
    PROVE  Updates(step + 1) = IF SyncGradients THEN Updates(step) + 1 ELSE Updates(step)
<1> DEFINE q == step \div EpochSteps
           e == step % EpochSteps
           d == e \div GradAccum
<1>0. /\ q \in Nat /\ e \in Nat /\ e < EpochSteps /\ GradAccum \in Nat \ {0}
      /\ EpochUpdates \in Nat /\ EpochSteps \in Nat \ {0}
  BY PeriodFacts, DivMod
<1>1. d \in Nat /\ e % GradAccum \in Nat /\ e % GradAccum < GradAccum BY <1>0, DivMod
<1>2. SyncGradients <=> (e + 1) % GradAccum = 0 \/ e + 1 = EpochSteps BY DEF SyncGradients
<1>3. Updates(step) = q * EpochUpdates + d BY DEF Updates
<1>4. q * EpochUpdates \in Nat BY <1>0
<1>5. CASE e + 1 < EpochSteps
  <2>1. (step + 1) \div EpochSteps = q /\ (step + 1) % EpochSteps = e + 1
    BY <1>0, <1>5, SuccDivMod
  <2>2. Updates(step + 1) = q * EpochUpdates + ((e + 1) \div GradAccum)
    BY <2>1 DEF Updates
  <2>3. CASE (e % GradAccum) + 1 = GradAccum
    <3>1. (e + 1) \div GradAccum = d + 1 /\ (e + 1) % GradAccum = 0
      BY <1>0, <2>3, SuccDivMod
    <3> HIDE DEF q, e, d
    <3> QED BY <1>1, <1>2, <1>3, <1>4, <2>2, <3>1
  <2>4. CASE (e % GradAccum) + 1 < GradAccum
    <3>1. (e + 1) \div GradAccum = d /\ (e + 1) % GradAccum = (e % GradAccum) + 1
      BY <1>0, <2>4, SuccDivMod
    <3>2. (e + 1) % GradAccum # 0 BY <1>1, <3>1
    <3>3. ~SyncGradients BY <1>0, <1>2, <1>5, <3>2
    <3> HIDE DEF q, e, d
    <3> QED BY <1>3, <2>2, <3>1, <3>3
  <2> QED BY <1>0, <1>1, <2>3, <2>4
<1>6. CASE e + 1 = EpochSteps
  <2>1. (step + 1) \div EpochSteps = q + 1 /\ (step + 1) % EpochSteps = 0
    BY <1>0, <1>6, SuccDivMod
  <2>2. 0 \div GradAccum = 0 BY <1>0
  <2>3. Updates(step + 1) = (q + 1) * EpochUpdates + 0 BY <2>1, <2>2 DEF Updates
  <2>4. EpochUpdates = d + 1
    <3>1. EpochSteps - 1 = e BY <1>0, <1>6
    <3> QED BY <3>1 DEF EpochUpdates
  <2> HIDE DEF q, e, d
  <2>5. (q + 1) * EpochUpdates = q * EpochUpdates + EpochUpdates BY <1>0
  <2>6. Updates(step + 1) = Updates(step) + 1 BY <1>0, <1>1, <1>3, <1>4, <2>3, <2>4, <2>5
  <2> QED BY <1>2, <1>6, <2>6
<1> QED BY <1>0, <1>5, <1>6

(* No update is ever taken back.                                           *)
LEMMA UpdatesMonotone ==
    ASSUME NEW s \in Nat, NEW t \in Nat, s <= t
    PROVE  Updates(s) <= Updates(t)
<1> DEFINE q == s \div EpochSteps
           e == s % EpochSteps
           d == e \div GradAccum
           p == t \div EpochSteps
           f == t % EpochSteps
           c == f \div GradAccum
<1>0. /\ GradAccum \in Nat \ {0} /\ EpochUpdates \in Nat /\ EpochSteps \in Nat \ {0}
  BY PeriodFacts
<1>1. /\ q \in Nat /\ e \in Nat /\ e < EpochSteps /\ q * EpochSteps \in Nat
      /\ s = q * EpochSteps + e
  BY <1>0, DivMod
<1>2. /\ p \in Nat /\ f \in Nat /\ f < EpochSteps /\ p * EpochSteps \in Nat
      /\ t = p * EpochSteps + f
  BY <1>0, DivMod
<1>3. q <= p BY <1>0, DivMonotone
<1>4. d \in Nat /\ c \in Nat BY <1>0, <1>1, <1>2, DivFacts
<1>5. Updates(s) = q * EpochUpdates + d /\ Updates(t) = p * EpochUpdates + c BY DEF Updates
<1>6. q * EpochUpdates \in Nat /\ p * EpochUpdates \in Nat BY <1>0, <1>1, <1>2
<1>7. CASE q = p
  <2>1. e <= f
    <3> HIDE DEF q, e, p, f
    <3> QED BY <1>1, <1>2, <1>7
  <2>2. d <= c BY <1>0, <1>1, <1>2, <2>1, DivMonotone
  <2> HIDE DEF q, e, d, p, f, c
  <2> QED BY <1>4, <1>5, <1>6, <1>7, <2>2
<1>8. CASE q + 1 <= p
  <2>1. d <= (EpochSteps - 1) \div GradAccum BY <1>0, <1>1, DivMonotone
  <2>2. EpochUpdates = ((EpochSteps - 1) \div GradAccum) + 1 BY DEF EpochUpdates
  <2>3. (EpochSteps - 1) \div GradAccum \in Nat BY <1>0, DivFacts
  <2>4. (q + 1) * EpochUpdates <= p * EpochUpdates BY <1>0, <1>1, <1>2, <1>8, TimesMonotone
  <2> HIDE DEF q, e, d, p, f, c
  <2>5. (q + 1) * EpochUpdates = q * EpochUpdates + EpochUpdates BY <1>0, <1>1
  <2>6. d <= EpochUpdates BY <1>0, <1>4, <2>1, <2>2, <2>3
  <2> QED BY <1>0, <1>4, <1>5, <1>6, <2>4, <2>5, <2>6
<1> QED BY <1>1, <1>2, <1>3, <1>7, <1>8

(* The updates of one generation's micro steps are at most                 *)
(* UpdatesPerGeneration, at the end of an epoch too.                       *)
LEMMA UpdatesOfGeneration ==
    ASSUME NEW s \in Nat, s % GenerateEvery = 0
    PROVE  Updates(s + GenerateEvery) <= Updates(s) + UpdatesPerGeneration
<1> DEFINE q == s \div EpochSteps
           a == s % EpochSteps
           k == s \div GenerateEvery
           j == k - q * EpochGenerations
           ceil == (GenerateEvery + GradAccum - 1) \div GradAccum
<1>0. /\ GradAccum \in Nat \ {0} /\ EpochUpdates \in Nat /\ EpochSteps \in Nat \ {0}
      /\ GenerateEvery \in Nat \ {0} /\ EpochSteps = EpochGenerations * GenerateEvery
      /\ EpochGenerations \in Nat \ {0}
  BY PeriodFacts, ConstantsAssumption
<1>1. /\ q \in Nat /\ a \in Nat /\ a < EpochSteps /\ q * EpochSteps \in Nat
      /\ s = q * EpochSteps + a
  BY <1>0, DivMod
<1>2. k \in Nat /\ s = k * GenerateEvery
  <2>1. k \in Nat /\ k * GenerateEvery \in Nat /\ s = k * GenerateEvery + (s % GenerateEvery)
    BY <1>0, DivMod
  <2> QED BY <2>1
<1>3. j \in Int /\ a = j * GenerateEvery
  <2> HIDE DEF q, a, k
  <2>1. q * EpochGenerations \in Int BY <1>0, <1>1
  <2>2. q * EpochSteps = (q * EpochGenerations) * GenerateEvery BY <1>0, <1>1
  <2>3. j * GenerateEvery = k * GenerateEvery - (q * EpochGenerations) * GenerateEvery
    BY <1>0, <1>2, <2>1
  <2> QED BY <1>1, <1>2, <2>1, <2>2, <2>3
<1> HIDE DEF j
<1>4. j + 1 <= EpochGenerations /\ j >= 0
  <2> HIDE DEF q, a, k
  <2>1. ASSUME EpochGenerations <= j PROVE FALSE
    <3>1. EpochGenerations * GenerateEvery <= j * GenerateEvery
      BY <1>0, <1>3, <2>1, TimesMonotone
    <3> QED BY <1>0, <1>1, <1>3, <3>1
  <2>2. ASSUME j <= -1 PROVE FALSE
    <3>1. -j \in Nat /\ 1 <= -j BY <1>3, <2>2
    <3>2. 1 * GenerateEvery <= (-j) * GenerateEvery BY <1>0, <3>1, TimesMonotone
    <3>3. (-j) * GenerateEvery = -(j * GenerateEvery) BY <1>0, <1>3
    <3>4. 1 * GenerateEvery = GenerateEvery BY <1>0
    <3> QED BY <1>0, <1>1, <1>3, <3>2, <3>3, <3>4
  <2> QED BY <1>0, <1>3, <2>1, <2>2
<1>5. a + GenerateEvery <= EpochSteps
  <2>1. (j + 1) * GenerateEvery <= EpochGenerations * GenerateEvery
    BY <1>0, <1>3, <1>4, TimesMonotone
  <2>2. (j + 1) * GenerateEvery = j * GenerateEvery + GenerateEvery BY <1>0, <1>3
  <2> QED BY <1>0, <1>3, <2>1, <2>2
<1>6. /\ a \div GradAccum \in Nat /\ ceil \in Nat
      /\ (a + GenerateEvery) \div GradAccum <= (a \div GradAccum) + ceil
      /\ (a + GenerateEvery) \div GradAccum \in Nat
  <2>1. GenerateEvery + GradAccum - 1 \in Nat /\ a + GenerateEvery \in Nat BY <1>0, <1>1
  <2> QED BY <1>0, <1>1, <2>1, DivFacts, DivDifference
<1>7. Updates(s) = q * EpochUpdates + (a \div GradAccum) BY DEF Updates
<1>8. q * EpochUpdates \in Nat BY <1>0, <1>1
<1>9. UpdatesPerGeneration \in Nat /\ UpdatesPerGeneration >= ceil
  <2>1. UpdatesPerGeneration = ceil \/ UpdatesPerGeneration = ceil + 1
    BY <1>6 DEF UpdatesPerGeneration
  <2> HIDE DEF ceil
  <2> QED BY <1>6, <2>1
<1>10. CASE a + GenerateEvery < EpochSteps
  <2>1. s + GenerateEvery = q * EpochSteps + (a + GenerateEvery) BY <1>0, <1>1
  <2>2. a + GenerateEvery \in Nat BY <1>0, <1>1
  <2>3. /\ (s + GenerateEvery) \div EpochSteps = q
        /\ (s + GenerateEvery) % EpochSteps = a + GenerateEvery
    <3> HIDE DEF q, a, k, ceil
    <3>1. /\ (q * EpochSteps + (a + GenerateEvery)) \div EpochSteps = q
          /\ (q * EpochSteps + (a + GenerateEvery)) % EpochSteps = a + GenerateEvery
      BY <1>0, <1>1, <1>10, <2>2, DivUnique
    <3> QED BY <2>1, <3>1
  <2>4. Updates(s + GenerateEvery)
          = q * EpochUpdates + ((a + GenerateEvery) \div GradAccum)
    BY <2>3 DEF Updates
  <2> HIDE DEF q, a, k, ceil
  <2> QED BY <1>6, <1>7, <1>8, <1>9, <2>4
<1>11. CASE a + GenerateEvery = EpochSteps
  <2>1. s + GenerateEvery = (q + 1) * EpochSteps + 0
    <3> HIDE DEF q, a, k, ceil
    <3>1. (q + 1) * EpochSteps = q * EpochSteps + EpochSteps BY <1>0, <1>1
    <3> QED BY <1>0, <1>1, <1>11, <3>1
  <2>2. q + 1 \in Nat /\ 0 \in Nat /\ 0 < EpochSteps BY <1>0, <1>1
  <2>3. /\ ((q + 1) * EpochSteps + 0) \div EpochSteps = q + 1
        /\ ((q + 1) * EpochSteps + 0) % EpochSteps = 0
    BY <1>0, <2>2, DivUnique
  <2>4. 0 \div GradAccum = 0 BY <1>0
  <2>5. Updates(s + GenerateEvery) = (q + 1) * EpochUpdates + 0
    BY <2>1, <2>3, <2>4 DEF Updates
  <2>6. EpochUpdates <= (a \div GradAccum) + UpdatesPerGeneration
    <3> DEFINE d == (EpochSteps - 1) \div GradAccum
               u == EpochSteps \div GradAccum
    <3>0. d \in Nat /\ u \in Nat /\ EpochUpdates = d + 1
      BY <1>0, DivFacts DEF EpochUpdates
    <3>1. u <= (a \div GradAccum) + ceil BY <1>6, <1>11
    <3>2. CASE EpochSteps % GradAccum = 0
      <4>0. EpochSteps - 1 \in Nat /\ (EpochSteps - 1) + 1 = EpochSteps BY <1>0
      <4>1. (EpochSteps - 1) % GradAccum \in Nat /\ (EpochSteps - 1) % GradAccum < GradAccum
        BY <1>0, <4>0, DivMod
      <4>2. CASE ((EpochSteps - 1) % GradAccum) + 1 = GradAccum
        <5>1. ((EpochSteps - 1) + 1) \div GradAccum = d + 1
          BY <1>0, <4>0, <4>2, SuccDivMod
        <5>2. u = d + 1 BY <4>0, <5>1
        <5> HIDE DEF q, a, k, ceil, d, u
        <5> QED BY <1>6, <1>9, <3>0, <3>1, <5>2
      <4>3. CASE ((EpochSteps - 1) % GradAccum) + 1 < GradAccum
        <5>1. ((EpochSteps - 1) + 1) % GradAccum = ((EpochSteps - 1) % GradAccum) + 1
          BY <1>0, <4>0, <4>3, SuccDivMod
        <5> QED BY <3>2, <4>0, <4>1, <5>1
      <4> QED BY <1>0, <4>1, <4>2, <4>3
    <3>3. CASE EpochGenerations = 1
      <4>1. EpochSteps = GenerateEvery BY <1>0, <3>3
      <4>2. GenerateEvery + GradAccum - 1 = 1 * GradAccum + (EpochSteps - 1) BY <1>0, <4>1
      <4>3. ceil <= EpochUpdates /\ EpochUpdates <= ceil
        <5>1. EpochSteps - 1 = d * GradAccum + ((EpochSteps - 1) % GradAccum)
          BY <1>0, DivMod
        <5>2. (EpochSteps - 1) % GradAccum \in Nat /\ (EpochSteps - 1) % GradAccum < GradAccum
          BY <1>0, DivMod
        <5> DEFINE m == (EpochSteps - 1) % GradAccum
        <5> HIDE DEF d, m
        <5>3. (d + 1) * GradAccum + m = d * GradAccum + GradAccum + m
          <6>1. (d + 1) * GradAccum = d * GradAccum + GradAccum BY <1>0, <3>0
          <6> QED BY <6>1
        <5>4. GenerateEvery + GradAccum - 1 = (d + 1) * GradAccum + m
          <6>1. d * GradAccum \in Nat BY <1>0, <3>0
          <6>2. EpochSteps - 1 = d * GradAccum + m BY <5>1 DEF m
          <6>3. m \in Nat BY <5>2 DEF m
          <6> QED BY <1>0, <4>1, <5>3, <6>1, <6>2, <6>3
        <5>5. m \in Nat /\ m < GradAccum BY <5>2 DEF m
        <5>6. d + 1 \in Nat BY <3>0
        <5>7. ((d + 1) * GradAccum + m) \div GradAccum = d + 1
          BY <1>0, <5>5, <5>6, DivUnique
        <5>8. ceil = d + 1 BY <5>4, <5>7
        <5> HIDE DEF ceil
        <5> QED BY <3>0, <5>8
      <4> HIDE DEF q, a, k, ceil, d, u
      <4> QED BY <1>0, <1>6, <1>9, <4>3
    <3>4. CASE EpochGenerations > 1 /\ EpochSteps % GradAccum # 0
      <4>1. UpdatesPerGeneration = ceil + 1 BY <1>6, <3>4 DEF UpdatesPerGeneration
      <4>2. d <= u BY <1>0, DivMonotone
      <4> HIDE DEF q, a, k, ceil, d, u
      <4> QED BY <1>6, <3>0, <3>1, <4>1, <4>2
    <3> QED BY <1>0, <3>2, <3>3, <3>4
  <2> HIDE DEF q, a, k, ceil
  <2>7. (q + 1) * EpochUpdates = q * EpochUpdates + EpochUpdates BY <1>0, <1>1
  <2> QED BY <1>0, <1>6, <1>7, <1>8, <1>9, <2>5, <2>6, <2>7
<1> HIDE DEF q, a, k, ceil
<1> QED BY <1>0, <1>1, <1>5, <1>10, <1>11

(* A generation is finished at a micro step that is not in the future; at  *)
(* the beginning of the next one, it is GenerateEvery micro steps ago.     *)
LEMMA GenerationFacts ==
    ASSUME TypeOK
    PROVE  /\ LastGeneration \in Nat /\ LastGeneration <= step
           /\ step % GenerateEvery # 0 =>
                LastGeneration = step - (step % GenerateEvery)
           /\ (pc # "loss" /\ step % GenerateEvery = 0 /\ step > 0) =>
                LastGeneration + GenerateEvery = step /\ LastGeneration % GenerateEvery = 0
<1> DEFINE a == step - 1
           m == a % GenerateEvery
           p == a \div GenerateEvery
<1>0. step \in Nat /\ GenerateEvery \in Nat \ {0} BY PeriodFacts DEF TypeOK
<1>1. step % GenerateEvery \in Nat /\ step % GenerateEvery <= step
  <2>1. /\ step % GenerateEvery \in Nat /\ (step \div GenerateEvery) * GenerateEvery \in Nat
        /\ step = (step \div GenerateEvery) * GenerateEvery + (step % GenerateEvery)
    BY <1>0, DivMod
  <2> QED BY <1>0, <2>1
<1>2. CASE step = 0
  <2>1. step % GenerateEvery = 0 BY <1>0, <1>1, <1>2
  <2> QED BY <1>0, <1>1, <1>2, <2>1 DEF LastGeneration
<1>3. CASE step > 0
  <2>0. a \in Nat /\ a + 1 = step BY <1>0, <1>3
  <2>1. /\ m \in Nat /\ m < GenerateEvery /\ p \in Nat /\ p * GenerateEvery \in Nat
        /\ a = p * GenerateEvery + m
    BY <1>0, <2>0, DivMod
  <2>2. pc # "loss" => LastGeneration = a - m BY <1>3 DEF LastGeneration
  <2>3. pc = "loss" => LastGeneration = step - (step % GenerateEvery) BY DEF LastGeneration
  <2>4. m + 1 < GenerateEvery => step % GenerateEvery = m + 1
    <3>1. m + 1 < GenerateEvery => (a + 1) % GenerateEvery = m + 1
      BY <1>0, <2>0, SuccDivMod
    <3> QED BY <2>0, <3>1
  <2>5. m + 1 = GenerateEvery => step % GenerateEvery = 0
    <3>1. m + 1 = GenerateEvery => (a + 1) % GenerateEvery = 0
      BY <1>0, <2>0, SuccDivMod
    <3> QED BY <2>0, <3>1
  <2>6. (p * GenerateEvery + 0) % GenerateEvery = 0 BY <1>0, <2>1, DivUnique
  <2> HIDE DEF a, m, p
  <2>7. p * GenerateEvery + 0 = a - m BY <2>0, <2>1
  <2>8. (a - m) % GenerateEvery = 0 BY <2>6, <2>7
  <2>9. CASE pc = "loss" BY <1>0, <1>1, <2>3, <2>9
  <2>10. CASE pc # "loss"
    <3>1. LastGeneration = a - m BY <2>2, <2>10
    <3>2. LastGeneration \in Nat /\ LastGeneration <= step BY <1>0, <2>0, <2>1, <3>1
    <3>3. step % GenerateEvery # 0 => LastGeneration = step - (step % GenerateEvery)
      BY <1>0, <2>0, <2>1, <2>4, <2>5, <3>1
    <3>4. step % GenerateEvery = 0 =>
            LastGeneration + GenerateEvery = step /\ LastGeneration % GenerateEvery = 0
      BY <1>0, <2>0, <2>1, <2>4, <2>5, <2>8, <3>1
    <3> QED BY <3>2, <3>3, <3>4
  <2> QED BY <2>9, <2>10
<1> QED BY <1>0, <1>2, <1>3

(* A step that neither takes a micro step nor touches the rollouts, and    *)
(* that does not send older weights, keeps the staleness invariant.        *)
LEMMA StalenessFrame ==
    ASSUME TypeOK, TypeOK', StalenessInv,
           UNCHANGED <<step, global_step, buffered, queue, delivered>>,
           LastGeneration' = LastGeneration,
           last_loaded' = last_loaded \/ last_loaded' = global_step,
           Starting' => Starting, Generating' => Generating,
           ~Starting' => ~Starting \/ last_loaded' = global_step,
           pc' \notin {"score", "loss"}, phase' = "train" => pc' # "get"
    PROVE  StalenessInv'
<1>1. LastGeneration \in Nat /\ LastGeneration <= step /\ step \in Nat
  BY GenerationFacts DEF TypeOK
<1>2. global_step >= Updates(LastGeneration)
  BY <1>1, UpdatesMonotone, UpdatesType DEF StalenessInv, StepInv
<1>3. StepInv' BY DEF StalenessInv, StepInv, Updates, EpochUpdates, EpochSteps, GenerateEvery
<1>4. FreshInv'
  BY <1>2 DEF StalenessInv, FreshInv, Updates, EpochUpdates, EpochSteps, GenerateEvery
<1> QED BY <1>3, <1>4 DEF StalenessInv

(* The staleness invariant is inductive: every request is made with the    *)
(* weights of the moment, every generation takes what the one before left, *)
(* and only the micro steps of one generation lie between them.            *)
LEMMA StalenessStep ==
    ASSUME ~EvalOnStart, TypeInv, TypeInv', OutstandingInv, PolicyInv, StalenessInv,
           [Next]_vars
    PROVE  StalenessInv'
<1> USE DEF threadVars, trainVars, serverVars, taskVars, histVars
<1>0. TypeOK /\ TypeOK' BY DEF TypeInv
<1>1. CASE OnTrainBegin
  <2>1. LastGeneration' = LastGeneration
    BY <1>1 DEF OnTrainBegin, LastGeneration, GenerateEvery
  <2>2. /\ UNCHANGED <<step, global_step, buffered, queue, delivered>>
        /\ last_loaded' = last_loaded \/ last_loaded' = global_step
        /\ Starting' => Starting
        /\ Generating' => Generating
        /\ ~Starting' => ~Starting \/ last_loaded' = global_step
        /\ pc' \notin {"score", "loss"} /\ (phase' = "train" => pc' # "get")
    BY <1>0, <1>1 DEF OnTrainBegin, Starting, Generating, TypeInv
  <2> QED BY <1>0, <2>1, <2>2, StalenessFrame
<1>2. CASE Prefetch
  <2>1. LastGeneration' = LastGeneration
    BY <1>2 DEF Prefetch, LastGeneration, GenerateEvery
  <2>2. /\ UNCHANGED <<step, global_step, buffered, queue, delivered>>
        /\ last_loaded' = last_loaded \/ last_loaded' = global_step
        /\ Starting' => Starting
        /\ Generating' => Generating
        /\ ~Starting' => ~Starting \/ last_loaded' = global_step
        /\ pc' \notin {"score", "loss"} /\ (phase' = "train" => pc' # "get")
    BY <1>0, <1>2 DEF Prefetch, Starting, Generating, TypeInv
  <2> QED BY <1>0, <2>1, <2>2, StalenessFrame
<1>3. CASE FastInfer
  <2>1. LastGeneration' = LastGeneration
    BY <1>3 DEF FastInfer, LastGeneration, GenerateEvery
  <2>2. /\ UNCHANGED <<step, global_step, buffered, queue, delivered>>
        /\ last_loaded' = last_loaded \/ last_loaded' = global_step
        /\ Starting' => Starting
        /\ Generating' => Generating
        /\ ~Starting' => ~Starting \/ last_loaded' = global_step
        /\ pc' \notin {"score", "loss"} /\ (phase' = "train" => pc' # "get")
    BY <1>0, <1>3 DEF FastInfer, Starting, Generating, TypeInv
  <2> QED BY <1>0, <2>1, <2>2, StalenessFrame
<1>4. CASE LoadGroup
  <2>1. LastGeneration' = LastGeneration
    BY <1>4 DEF LoadGroup, LastGeneration, GenerateEvery
  <2>2. /\ UNCHANGED <<step, global_step, buffered, queue, delivered>>
        /\ last_loaded' = last_loaded \/ last_loaded' = global_step
        /\ Starting' => Starting
        /\ Generating' => Generating
        /\ ~Starting' => ~Starting \/ last_loaded' = global_step
        /\ pc' \notin {"score", "loss"} /\ (phase' = "train" => pc' # "get")
    BY <1>0, <1>4 DEF LoadGroup, Starting, Generating, TypeInv
  <2> QED BY <1>0, <2>1, <2>2, StalenessFrame
<1>5. CASE FinishMove
  <2>1. LastGeneration' = LastGeneration
    BY <1>5 DEF FinishMove, LastGeneration, GenerateEvery
  <2>2. /\ UNCHANGED <<step, global_step, buffered, queue, delivered>>
        /\ last_loaded' = last_loaded \/ last_loaded' = global_step
        /\ Starting' => Starting
        /\ Generating' => Generating
        /\ ~Starting' => ~Starting \/ last_loaded' = global_step
        /\ pc' \notin {"score", "loss"} /\ (phase' = "train" => pc' # "get")
    BY <1>0, <1>5 DEF FinishMove, Starting, Generating, TypeInv
  <2> QED BY <1>0, <2>1, <2>2, StalenessFrame
<1>6. CASE Resample
  <2>1. LastGeneration' = LastGeneration
    BY <1>6 DEF Resample, LastGeneration, GenerateEvery
  <2>2. /\ UNCHANGED <<step, global_step, buffered, queue, delivered>>
        /\ last_loaded' = last_loaded \/ last_loaded' = global_step
        /\ Starting' => Starting
        /\ Generating' => Generating
        /\ ~Starting' => ~Starting \/ last_loaded' = global_step
        /\ pc' \notin {"score", "loss"} /\ (phase' = "train" => pc' # "get")
    BY <1>0, <1>6 DEF Resample, Starting, Generating, TypeInv
  <2> QED BY <1>0, <2>1, <2>2, StalenessFrame
<1>7. CASE StartEvaluation
  <2>1. LastGeneration' = LastGeneration
    BY <1>7 DEF StartEvaluation, LastGeneration, GenerateEvery
  <2>2. /\ UNCHANGED <<step, global_step, buffered, queue, delivered>>
        /\ last_loaded' = last_loaded \/ last_loaded' = global_step
        /\ Starting' => Starting
        /\ Generating' => Generating
        /\ ~Starting' => ~Starting \/ last_loaded' = global_step
        /\ pc' \notin {"score", "loss"} /\ (phase' = "train" => pc' # "get")
    BY <1>0, <1>7 DEF StartEvaluation, Starting, Generating, TypeInv
  <2> QED BY <1>0, <2>1, <2>2, StalenessFrame
<1>8. CASE NextTrainingStep
  <2>1. LastGeneration' = LastGeneration
    BY <1>8 DEF NextTrainingStep, LastGeneration, GenerateEvery
  <2>2. /\ UNCHANGED <<step, global_step, buffered, queue, delivered>>
        /\ last_loaded' = last_loaded \/ last_loaded' = global_step
        /\ Starting' => Starting
        /\ Generating' => Generating
        /\ ~Starting' => ~Starting \/ last_loaded' = global_step
        /\ pc' \notin {"score", "loss"} /\ (phase' = "train" => pc' # "get")
    BY <1>0, <1>8 DEF NextTrainingStep, Starting, Generating, TypeInv
  <2> QED BY <1>0, <2>1, <2>2, StalenessFrame
<1>9. CASE OnEpochEnd
  <2>1. LastGeneration' = LastGeneration
    BY <1>9 DEF OnEpochEnd, LastGeneration, GenerateEvery
  <2>2. /\ UNCHANGED <<step, global_step, buffered, queue, delivered>>
        /\ last_loaded' = last_loaded \/ last_loaded' = global_step
        /\ Starting' => Starting
        /\ Generating' => Generating
        /\ ~Starting' => ~Starting \/ last_loaded' = global_step
        /\ pc' \notin {"score", "loss"} /\ (phase' = "train" => pc' # "get")
    BY <1>0, <1>9 DEF OnEpochEnd, Starting, Generating, TypeInv
  <2> QED BY <1>0, <2>1, <2>2, StalenessFrame
<1>10. CASE TrainEnd
  <2>1. LastGeneration' = LastGeneration
    BY <1>10 DEF TrainEnd, LastGeneration, GenerateEvery
  <2>2. /\ UNCHANGED <<step, global_step, buffered, queue, delivered>>
        /\ last_loaded' = last_loaded \/ last_loaded' = global_step
        /\ Starting' => Starting
        /\ Generating' => Generating
        /\ ~Starting' => ~Starting \/ last_loaded' = global_step
        /\ pc' \notin {"score", "loss"} /\ (phase' = "train" => pc' # "get")
    BY <1>0, <1>10 DEF TrainEnd, Starting, Generating, TypeInv
  <2> QED BY <1>0, <2>1, <2>2, StalenessFrame
<1>11. CASE EvaluationLoop
  <2>1. LastGeneration' = LastGeneration
    BY <1>11 DEF EvaluationLoop, LastGeneration, GenerateEvery
  <2>2. /\ UNCHANGED <<step, global_step, buffered, queue, delivered>>
        /\ last_loaded' = last_loaded \/ last_loaded' = global_step
        /\ Starting' => Starting
        /\ Generating' => Generating
        /\ ~Starting' => ~Starting \/ last_loaded' = global_step
        /\ pc' \notin {"score", "loss"} /\ (phase' = "train" => pc' # "get")
    BY <1>0, <1>11 DEF EvaluationLoop, Starting, Generating, TypeInv
  <2> QED BY <1>0, <2>1, <2>2, StalenessFrame
<1>12. CASE PredictionStep
  <2>1. LastGeneration' = LastGeneration
    BY <1>12 DEF PredictionStep, LastGeneration, GenerateEvery
  <2>2. /\ UNCHANGED <<step, global_step, buffered, queue, delivered>>
        /\ last_loaded' = last_loaded \/ last_loaded' = global_step
        /\ Starting' => Starting
        /\ Generating' => Generating
        /\ ~Starting' => ~Starting \/ last_loaded' = global_step
        /\ pc' \notin {"score", "loss"} /\ (phase' = "train" => pc' # "get")
    BY <1>0, <1>12 DEF PredictionStep, Starting, Generating, TypeInv
  <2> QED BY <1>0, <2>1, <2>2, StalenessFrame
<1>13. CASE EvaluationEnd
  <2>1. LastGeneration' = LastGeneration
    BY <1>13 DEF EvaluationEnd, LastGeneration, GenerateEvery
  <2>2. /\ UNCHANGED <<step, global_step, buffered, queue, delivered>>
        /\ last_loaded' = last_loaded \/ last_loaded' = global_step
        /\ Starting' => Starting
        /\ Generating' => Generating
        /\ ~Starting' => ~Starting \/ last_loaded' = global_step
        /\ pc' \notin {"score", "loss"} /\ (phase' = "train" => pc' # "get")
    BY <1>0, <1>13 DEF EvaluationEnd, Starting, Generating, TypeInv
  <2> QED BY <1>0, <2>1, <2>2, StalenessFrame
<1>14. /\ LastGeneration \in Nat /\ LastGeneration <= step /\ step \in Nat
       /\ Updates(LastGeneration) \in Nat /\ global_step >= Updates(LastGeneration)
       /\ global_step = Updates(step) /\ global_step \in Nat /\ last_loaded \in Int
       /\ queue["train"] \in Seq(Rollouts) /\ queue["eval"] \in Seq(Rollouts)
       /\ tasks \in Seq(Rollouts) /\ phase \in Phases
  <2>1. LastGeneration \in Nat /\ LastGeneration <= step /\ step \in Nat
    BY <1>0, GenerationFacts DEF TypeOK
  <2>2. Updates(LastGeneration) \in Nat /\ Updates(LastGeneration) <= Updates(step)
    BY <2>1, UpdatesMonotone, UpdatesType
  <2>3. /\ global_step \in Nat /\ last_loaded \in Int /\ tasks \in Seq(Rollouts)
        /\ queue["train"] \in Seq(Rollouts) /\ queue["eval"] \in Seq(Rollouts)
        /\ phase \in Phases
    BY <1>0 DEF TypeOK, Phases, Versions
  <2>4. global_step = Updates(step) BY DEF StalenessInv, StepInv
  <2> QED BY <2>1, <2>2, <2>3, <2>4
<1> DEFINE G == Updates(LastGeneration)
<1>15. \A s : Updates(s)' = Updates(s)
  BY DEF Updates, EpochUpdates, EpochSteps, GenerateEvery
<1>16. CASE PrefetchInfer
  <2>1. /\ LastGeneration' = LastGeneration
        /\ UNCHANGED <<step, global_step, buffered, delivered, last_loaded>>
    BY <1>16 DEF PrefetchInfer, LastGeneration, GenerateEvery
  <2>2. pc' \in {"step", "eval_step"} BY <1>16 DEF PrefetchInfer
  <2>3. last_loaded = global_step BY <1>16 DEF PrefetchInfer, OutstandingInv, EvalInv
  <2>4. /\ Request(SampledFrom) \in Rollouts /\ Request(SampledFrom).policy = last_loaded
    BY <1>0, SampledFromType, RequestType DEF Request
  <2>5. queue' = [queue EXCEPT ![CurrentQueue] = Append(@, Request(SampledFrom))]
    BY <1>16 DEF PrefetchInfer
  <2>6. \A i \in 1..Len(queue'["train"]) : queue'["train"][i].policy >= G
    <3>1. \A i \in 1..Len(queue["train"]) : queue["train"][i].policy >= G
      BY DEF StalenessInv, FreshInv
    <3>2. CurrentQueue \in Phases BY DEF CurrentQueue, Phases
    <3>3. CASE CurrentQueue = "train"
      <4>1. queue'["train"] = Append(queue["train"], Request(SampledFrom))
        BY <1>0, <2>5, <3>3 DEF TypeOK, Phases
      <4> QED BY <1>14, <2>3, <2>4, <3>1, <4>1, AppendFacts
    <3>4. CASE CurrentQueue = "eval"
      <4>1. queue'["train"] = queue["train"] BY <1>0, <2>5, <3>4 DEF TypeOK, Phases
      <4> QED BY <3>1, <4>1
    <3> QED BY <3>2, <3>3, <3>4 DEF Phases
  <2>7. StepInv'
    BY <1>0, <2>1, <2>2
       DEF StalenessInv, StepInv, Starting, Generating, Updates, EpochUpdates, EpochSteps, GenerateEvery
  <2>8. FreshInv' BY <1>14, <1>15, <2>1, <2>2, <2>3, <2>6 DEF FreshInv
  <2> QED BY <2>7, <2>8 DEF StalenessInv
<1>17. CASE AsyncGenerateRollout
  <2>1. /\ LastGeneration' = LastGeneration
        /\ UNCHANGED <<step, global_step, buffered, delivered, last_loaded, queue, phase>>
        /\ pc = "submit" /\ pc' = "get"
    BY <1>17 DEF AsyncGenerateRollout, LastGeneration, GenerateEvery
  <2>2. phase = "train" => Len(queue["train"]) <= 1
    <3>1. Len(queue["train"]) \in Nat /\ Len(tasks) \in Nat BY <1>14, LenFacts
    <3> QED BY <2>1, <3>1 DEF OutstandingInv, TrainInv, TrainOutstanding
  <2>3. StepInv'
    BY <1>0, <2>1
       DEF StalenessInv, StepInv, Starting, Generating, Updates, EpochUpdates, EpochSteps, GenerateEvery
  <2>4. FreshInv'
    <3>1. Len(queue["train"]) \in Nat BY <1>14, LenFacts
    <3>2. phase = "train" => \A i \in 2..Len(queue["train"]) : FALSE BY <2>2, <3>1
    <3> QED BY <1>15, <2>1, <3>2 DEF StalenessInv, FreshInv, Starting
  <2> QED BY <2>3, <2>4 DEF StalenessInv
<1>18. CASE QueueGet
  <2>1. /\ LastGeneration' = LastGeneration
        /\ UNCHANGED <<step, global_step, buffered, last_loaded, phase>>
        /\ pc = "get" /\ pc' = IF phase = "train" THEN "score" ELSE "eval_step"
    BY <1>18 DEF QueueGet, LastGeneration, GenerateEvery
  <2>2. CurrentQueue = phase
    BY <1>14, <2>1 DEF CurrentQueue, OutstandingInv, PhaseInv, Phases
  <2>3. StepInv'
    BY <1>0, <2>1
       DEF StalenessInv, StepInv, Starting, Generating, Updates, EpochUpdates, EpochSteps, GenerateEvery
  <2>4. last_loaded = global_step BY <2>1 DEF OutstandingInv, EvalInv
  <2>5. CASE phase = "train"
    <3>1. /\ queue["train"] # <<>>
          /\ queue'["train"] = Tail(queue["train"])
          /\ delivered'["train"] = Head(queue["train"])
      BY <1>0, <1>18, <2>2, <2>5 DEF QueueGet, TypeOK, Phases
    <3>2. /\ Len(queue["train"]) \in Nat /\ Len(queue["train"]) >= 1
          /\ Len(Tail(queue["train"])) = Len(queue["train"]) - 1
          /\ Head(queue["train"]) = queue["train"][1]
          /\ \A i \in 1..Len(Tail(queue["train"])) :
               Tail(queue["train"])[i] = queue["train"][i + 1]
      BY <1>14, <3>1, TailFacts
    <3>3. delivered'["train"].policy >= G
      BY <3>1, <3>2 DEF StalenessInv, FreshInv
    <3>4. \A i \in 1..Len(queue'["train"]) : queue'["train"][i].policy = last_loaded
      <4>1. \A i \in 2..Len(queue["train"]) : queue["train"][i].policy = last_loaded
        BY <2>1, <2>5 DEF StalenessInv, FreshInv
      <4>2. \A i \in 1..(Len(queue["train"]) - 1) : i + 1 \in 2..Len(queue["train"]) BY <3>2
      <4> QED BY <3>1, <3>2, <4>1, <4>2
    <3> QED BY <1>14, <1>15, <2>1, <2>3, <2>4, <2>5, <3>3, <3>4 DEF StalenessInv, FreshInv
  <2>6. CASE phase = "eval"
    <3>1. queue'["train"] = queue["train"]
      BY <1>0, <1>18, <2>2, <2>6 DEF QueueGet, TypeOK, Phases
    <3>2. ~Starting BY <2>1 DEF Starting
    <3> QED BY <1>15, <2>1, <2>3, <2>6, <3>1, <3>2 DEF StalenessInv, FreshInv
  <2> QED BY <1>14, <2>5, <2>6 DEF Phases
<1>19. CASE TrainingStep
  <2>1. /\ UNCHANGED <<step, global_step, buffered, last_loaded, phase, queue, delivered>>
        /\ pc = "step" /\ phase = "train"
        /\ pc' = IF step % GenerateEvery = 0 \/ ~buffered THEN "fast" ELSE "loss"
    BY <1>19 DEF TrainingStep, TypeInv
  <2>2. step % GenerateEvery = 0 \/ ~buffered => step % GenerateEvery = 0
    <3>1. ~buffered => step = 0 BY <1>14 DEF StalenessInv, StepInv
    <3>2. 0 % GenerateEvery = 0 BY PeriodFacts
    <3> QED BY <3>1, <3>2
  <2>3. LastGeneration' = LastGeneration
    <3>1. CASE pc' = "fast" BY <2>1, <3>1 DEF LastGeneration, GenerateEvery
    <3>2. CASE pc' = "loss"
      <4>1. LastGeneration' = step - (step % GenerateEvery)
        BY <2>1, <3>2 DEF LastGeneration, GenerateEvery
      <4> QED BY <1>0, <2>1, <3>2, <4>1, GenerationFacts
    <3> QED BY <2>1, <3>1, <3>2
  <2>4. StepInv'
    BY <1>0, <2>1, <2>2
       DEF StalenessInv, StepInv, Starting, Generating, Updates, EpochUpdates, EpochSteps, GenerateEvery
  <2>5. FreshInv' BY <1>15, <2>1, <2>3 DEF StalenessInv, FreshInv, Starting
  <2> QED BY <2>4, <2>5 DEF StalenessInv
<1>20. CASE BufferInputs
  <2>1. /\ UNCHANGED <<step, global_step, last_loaded, phase, queue, delivered>>
        /\ pc = "score" /\ pc' = "loss" /\ buffered' = TRUE /\ phase = "train"
    BY <1>20 DEF BufferInputs, TypeInv
  <2>2. step % GenerateEvery = 0 BY <2>1 DEF StalenessInv, StepInv, Generating
  <2>3. LastGeneration' = step
    <3>1. LastGeneration' = step - (step % GenerateEvery)
      BY <2>1 DEF LastGeneration, GenerateEvery
    <3> QED BY <1>14, <2>2, <3>1
  <2>4. StepInv'
    BY <1>0, <2>1
       DEF StalenessInv, StepInv, Starting, Generating, Updates, EpochUpdates, EpochSteps, GenerateEvery
  <2>5. FreshInv' BY <1>14, <1>15, <2>1, <2>3 DEF StalenessInv, FreshInv, Starting
  <2> QED BY <2>4, <2>5 DEF StalenessInv
<1>21. CASE TrainLoss
  <2>1. /\ UNCHANGED <<buffered, last_loaded, phase, queue, delivered>>
        /\ pc = "loss" /\ pc' \in {"step", "step_end"} /\ step' = step + 1
        /\ phase = "train"
        /\ global_step' = IF SyncGradients THEN global_step + 1 ELSE global_step
    BY <1>21 DEF TrainLoss, TypeInv
  <2>2. LastGeneration' = LastGeneration
    <3>1. LastGeneration' = ((step + 1) - 1) - (((step + 1) - 1) % GenerateEvery)
      BY <1>14, <2>1 DEF LastGeneration, GenerateEvery
    <3>2. (step + 1) - 1 = step BY <1>14
    <3> QED BY <2>1, <3>1, <3>2 DEF LastGeneration
  <2>3. (global_step = Updates(step))'
    <3>1. Updates(step + 1) = global_step' BY <1>14, <2>1, UpdatesStep
    <3> QED BY <2>1, <3>1 DEF Updates, EpochUpdates, EpochSteps, GenerateEvery
  <2>4. StepInv'
    BY <2>1, <2>3
       DEF StalenessInv, StepInv, Starting, Generating
  <2>5. FreshInv' BY <1>15, <2>1, <2>2 DEF StalenessInv, FreshInv, Starting
  <2> QED BY <2>4, <2>5 DEF StalenessInv
<1>22. CASE InferTaskStart
  <2>1. /\ LastGeneration' = LastGeneration
        /\ UNCHANGED <<step, global_step, buffered, last_loaded, phase, pc, queue, delivered>>
    BY <1>22 DEF InferTaskStart, LastGeneration, GenerateEvery
  <2> QED BY <2>1
          DEF StalenessInv, StepInv, FreshInv, Starting, Generating,
              Updates, EpochUpdates, EpochSteps, GenerateEvery
<1>23. CASE InferTaskDone
  <2> DEFINE seen == tasks[1].seen \cup SampledFrom
             roll == [tasks[1] EXCEPT !.seen = seen]
  <2>1. /\ LastGeneration' = LastGeneration
        /\ UNCHANGED <<step, global_step, buffered, last_loaded, phase, pc, delivered>>
    BY <1>23 DEF InferTaskDone, LastGeneration, GenerateEvery
  <2>2. tasks # <<>> /\ tasks[1] \in Rollouts /\ tasks[1].policy = last_loaded
    <3>1. tasks # <<>> BY <1>23 DEF InferTaskDone, TypeInv
    <3>2. 1 \in 1..Len(tasks) /\ tasks[1] \in Rollouts BY <1>14, <3>1, LenFacts
    <3> QED BY <3>1, <3>2 DEF PolicyInv
  <2>3. seen \in SUBSET Versions BY <1>0, <2>2, SampledFromType DEF Rollouts
  <2>4. /\ roll \in Rollouts /\ roll.policy = last_loaded /\ roll.dest \in Phases
    BY <2>2, <2>3 DEF Rollouts
  <2> HIDE DEF seen, roll
  <2>5. queue' = [queue EXCEPT ![roll.dest] = Append(@, roll)]
    BY <1>23 DEF InferTaskDone, roll, seen
  <2>6. ~Starting BY <2>2 DEF OutstandingInv, StartInv
  <2>7. last_loaded >= G BY <2>6 DEF StalenessInv, FreshInv
  <2>8. CASE roll.dest = "train"
    <3>1. queue'["train"] = Append(queue["train"], roll)
      BY <1>0, <2>5, <2>8 DEF TypeOK, Phases
    <3>2. /\ Len(queue["train"]) \in Nat /\ Len(queue'["train"]) = Len(queue["train"]) + 1
          /\ \A i \in 1..Len(queue["train"]) : queue'["train"][i] = queue["train"][i]
          /\ queue'["train"][Len(queue["train"]) + 1] = roll
      BY <1>14, <2>4, <3>1, AppendFacts
    <3>3. \A i \in 1..Len(queue'["train"]) :
             i \in 1..Len(queue["train"]) \/ queue'["train"][i].policy = last_loaded
      BY <2>4, <3>2
    <3>4. \A i \in 1..Len(queue'["train"]) : queue'["train"][i].policy >= G
      BY <1>14, <2>7, <3>2, <3>3 DEF StalenessInv, FreshInv
    <3>5. (phase = "train" /\ pc = "get") =>
             \A i \in 2..Len(queue'["train"]) : queue'["train"][i].policy = last_loaded
      <4>1. \A i \in 2..Len(queue'["train"]) :
              /\ i \in 1..Len(queue'["train"])
              /\ i \in 1..Len(queue["train"]) => i \in 2..Len(queue["train"])
        BY <3>2
      <4> QED BY <3>2, <3>3, <4>1 DEF StalenessInv, FreshInv
    <3>6. pc = "score" =>
             \A i \in 1..Len(queue'["train"]) : queue'["train"][i].policy = last_loaded
      BY <3>2, <3>3 DEF StalenessInv, FreshInv
    <3>7. StepInv'
      BY <2>1
         DEF StalenessInv, StepInv, Starting, Generating,
             Updates, EpochUpdates, EpochSteps, GenerateEvery
    <3>8. FreshInv'
      BY <1>15, <2>1, <2>7, <3>4, <3>5, <3>6 DEF StalenessInv, FreshInv
    <3> QED BY <3>7, <3>8 DEF StalenessInv
  <2>9. CASE roll.dest = "eval"
    <3>1. queue'["train"] = queue["train"] BY <1>0, <2>5, <2>9 DEF TypeOK, Phases
    <3> QED BY <2>1, <3>1
            DEF StalenessInv, StepInv, FreshInv, Starting, Generating,
                Updates, EpochUpdates, EpochSteps, GenerateEvery
  <2> QED BY <2>4, <2>8, <2>9 DEF Phases
<1>24. CASE InferTaskRaises
  <2>1. /\ LastGeneration' = LastGeneration
        /\ UNCHANGED <<step, global_step, buffered, last_loaded, phase, pc, queue, delivered>>
    BY <1>24 DEF InferTaskRaises, LastGeneration, GenerateEvery
  <2> QED BY <2>1
          DEF StalenessInv, StepInv, FreshInv, Starting, Generating,
              Updates, EpochUpdates, EpochSteps, GenerateEvery
<1>25. CASE UNCHANGED vars
  BY <1>25
     DEF vars, StalenessInv, StepInv, FreshInv, Starting, Generating, LastGeneration,
         Updates, EpochUpdates, EpochSteps, GenerateEvery
<1> QED BY <1>1, <1>2, <1>3, <1>4, <1>5, <1>6, <1>7, <1>8, <1>9, <1>10, <1>11, <1>12,
           <1>13, <1>16, <1>17, <1>18, <1>19, <1>20, <1>21, <1>22, <1>23, <1>24, <1>25
        DEF Next, MainThread, Worker

(* The invariants of training with rollouts that may raise.                *)
LEMMA StalenessInvariance == ASSUME ~EvalOnStart PROVE Spec => [](IInv /\ StalenessInv)
<1>1. Init => StalenessInv
  <2> SUFFICES ASSUME Init PROVE StalenessInv OBVIOUS
  <2>1. step = 0 /\ global_step = 0 /\ pc = "begin" /\ queue["train"] = <<>>
    BY DEF Init, Phases
  <2>2. Updates(0) = 0
    <3>1. 0 \div EpochSteps = 0 /\ 0 % EpochSteps = 0 /\ 0 \div GradAccum = 0
      BY PeriodFacts
    <3>2. 0 * EpochUpdates = 0 BY PeriodFacts
    <3> QED BY <3>1, <3>2 DEF Updates
  <2>3. Starting /\ ~Generating BY <2>1 DEF Starting, Generating
  <2>4. Len(queue["train"]) = 0 BY <2>1
  <2> QED BY <2>1, <2>2, <2>3, <2>4 DEF StalenessInv, StepInv, FreshInv
<1>2. IInv /\ IInv' /\ StalenessInv /\ [Next]_vars => StalenessInv'
  BY StalenessStep DEF IInv
<1>3. Spec => []IInv BY IInvariance
<1> QED BY <1>1, <1>2, <1>3, PTL DEF Spec

(* Training receives a rollout that is behind by no more updates than fit  *)
(* between two generations, whatever the shape of epochs, accumulations    *)
(* and generations, through evaluations, resampling and tasks that raise.  *)
THEOREM StalenessIsBounded == ASSUME ~EvalOnStart PROVE Spec => []BoundedStaleness
<1>1. IInv /\ StalenessInv => BoundedStaleness
  <2> SUFFICES ASSUME IInv, StalenessInv, pc = "score", delivered["train"] # NoRollout
               PROVE  global_step - delivered["train"].policy <= UpdatesPerGeneration
    BY DEF BoundedStaleness
  <2>0. TypeOK BY DEF IInv, TypeInv
  <2>1. delivered["train"].policy \in Int
    BY <2>0 DEF TypeOK, Phases, Rollouts, Versions
  <2>2. delivered["train"].policy >= Updates(LastGeneration) BY DEF StalenessInv, FreshInv
  <2>3. step \in Nat /\ global_step = Updates(step) /\ LastGeneration \in Nat
    BY <2>0, GenerationFacts DEF StalenessInv, StepInv, TypeOK
  <2>4. Updates(step) \in Nat /\ Updates(LastGeneration) \in Nat BY <2>3, UpdatesType
  <2>5. UpdatesPerGeneration \in Nat
    <3>1. GenerateEvery + GradAccum - 1 \in Nat BY PeriodFacts
    <3>2. (GenerateEvery + GradAccum - 1) \div GradAccum \in Nat BY <3>1, PeriodFacts, DivFacts
    <3> QED BY <3>2 DEF UpdatesPerGeneration
  <2>6. step % GenerateEvery = 0
    BY <2>0 DEF IInv, TypeInv, StalenessInv, StepInv, Generating
  <2>7. CASE step = 0
    <3>1. LastGeneration = 0 BY <2>7 DEF LastGeneration
    <3> QED BY <2>1, <2>2, <2>3, <2>4, <2>5, <2>7, <3>1
  <2>8. CASE step > 0
    <3>1. LastGeneration + GenerateEvery = step /\ LastGeneration % GenerateEvery = 0
      BY <2>0, <2>6, <2>8, GenerationFacts
    <3>2. Updates(step) <= Updates(LastGeneration) + UpdatesPerGeneration
      <4>1. Updates(LastGeneration + GenerateEvery)
              <= Updates(LastGeneration) + UpdatesPerGeneration
        BY <2>3, <3>1, UpdatesOfGeneration
      <4> QED BY <3>1, <4>1
    <3> QED BY <2>1, <2>2, <2>3, <2>4, <2>5, <3>2
  <2> QED BY <2>3, <2>7, <2>8
<1>2. Spec => [](IInv /\ StalenessInv) BY StalenessInvariance
<1> QED BY <1>1, <1>2, PTL
-----------------------------------------------------------------------------
(* The refinement of OneStepOffPolicy.                                     *)

(* Training stops at max_steps and sends the weights it has.               *)
LEMMA BoundStep ==
    ASSUME ~EvalOnStart, TypeInv, BoundInv, [Next]_vars
    PROVE  BoundInv'
<1> USE DEF threadVars, trainVars, serverVars, taskVars, histVars
<1>0. MaxSteps \in Nat \ {0} /\ global_step \in Nat /\ last_loaded \in Int
  BY ConstantsAssumption DEF TypeInv, TypeOK, Versions
<1>1. CASE OnTrainBegin BY <1>0, <1>1 DEF OnTrainBegin, BoundInv, TypeInv, TypeOK, Versions
<1>2. CASE Prefetch BY <1>0, <1>2 DEF Prefetch, BoundInv, TypeInv, TypeOK, Versions
<1>3. CASE FastInfer BY <1>0, <1>3 DEF FastInfer, BoundInv, TypeInv, TypeOK, Versions
<1>4. CASE LoadGroup BY <1>0, <1>4 DEF LoadGroup, BoundInv, TypeInv, TypeOK, Versions
<1>5. CASE FinishMove BY <1>0, <1>5 DEF FinishMove, BoundInv, TypeInv, TypeOK, Versions
<1>6. CASE PrefetchInfer BY <1>0, <1>6 DEF PrefetchInfer, BoundInv, TypeInv, TypeOK, Versions
<1>7. CASE AsyncGenerateRollout BY <1>0, <1>7 DEF AsyncGenerateRollout, BoundInv, TypeInv, TypeOK, Versions
<1>8. CASE QueueGet BY <1>0, <1>8 DEF QueueGet, BoundInv, TypeInv, TypeOK, Versions
<1>9. CASE TrainingStep BY <1>0, <1>9 DEF TrainingStep, BoundInv, TypeInv, TypeOK, Versions
<1>10. CASE Resample BY <1>0, <1>10 DEF Resample, BoundInv, TypeInv, TypeOK, Versions
<1>11. CASE BufferInputs BY <1>0, <1>11 DEF BufferInputs, BoundInv, TypeInv, TypeOK, Versions
<1>12. CASE TrainLoss BY <1>0, <1>12 DEF TrainLoss, BoundInv, TypeInv, TypeOK, Versions
<1>13. CASE StartEvaluation BY <1>0, <1>13 DEF StartEvaluation, BoundInv, TypeInv, TypeOK, Versions
<1>14. CASE NextTrainingStep BY <1>0, <1>14 DEF NextTrainingStep, BoundInv, TypeInv, TypeOK, Versions
<1>15. CASE OnEpochEnd BY <1>0, <1>15 DEF OnEpochEnd, BoundInv, TypeInv, TypeOK, Versions
<1>16. CASE TrainEnd BY <1>0, <1>16 DEF TrainEnd, BoundInv, TypeInv, TypeOK, Versions
<1>17. CASE EvaluationLoop BY <1>0, <1>17 DEF EvaluationLoop, BoundInv, TypeInv, TypeOK, Versions
<1>18. CASE PredictionStep BY <1>0, <1>18 DEF PredictionStep, BoundInv, TypeInv, TypeOK, Versions
<1>19. CASE EvaluationEnd BY <1>0, <1>19 DEF EvaluationEnd, BoundInv, TypeInv, TypeOK, Versions
<1>20. CASE InferTaskStart BY <1>0, <1>20 DEF InferTaskStart, BoundInv, TypeInv, TypeOK, Versions
<1>21. CASE InferTaskDone BY <1>0, <1>21 DEF InferTaskDone, BoundInv, TypeInv, TypeOK, Versions
<1>22. CASE InferTaskRaises BY <1>0, <1>22 DEF InferTaskRaises, BoundInv, TypeInv, TypeOK, Versions
<1>23. CASE UNCHANGED vars BY <1>23 DEF vars, BoundInv
<1> QED BY <1>1, <1>2, <1>3, <1>4, <1>5, <1>6, <1>7, <1>8, <1>9, <1>10, <1>11, <1>12, <1>13, <1>14, <1>15, <1>16, <1>17, <1>18, <1>19, <1>20, <1>21, <1>22, <1>23
        DEF Next, MainThread, Worker

(* Where the outstanding rollouts are.                                     *)
LEMMA TaskFacts ==
    ASSUME TypeOK
    PROVE  /\ Len(tasks) \in Nat /\ TrainTasks \in Nat /\ Len(queue["train"]) \in Nat
           /\ queue["train"] \in Seq(Rollouts) /\ queue["eval"] \in Seq(Rollouts)
           /\ tasks \in Seq(Rollouts)
           /\ TasksFor("train") => TrainTasks = Len(tasks)
           /\ TasksFor("eval") => TrainTasks = 0
           /\ tasks = <<>> => TrainTasks = 0
<1>1. /\ queue["train"] \in Seq(Rollouts) /\ queue["eval"] \in Seq(Rollouts)
      /\ tasks \in Seq(Rollouts)
  BY DEF TypeOK, Phases
<1>2. /\ Len(tasks) \in Nat /\ Len(queue["train"]) \in Nat
      /\ tasks = <<>> <=> Len(tasks) = 0
  BY <1>1, LenFacts
<1>3. TasksFor("eval") /\ TasksFor("train") => Len(tasks) = 0
  <2> SUFFICES ASSUME TasksFor("eval"), TasksFor("train"), Len(tasks) # 0 PROVE FALSE OBVIOUS
  <2>1. 1 \in 1..Len(tasks) BY <1>2
  <2> QED BY <2>1 DEF TasksFor
<1> QED BY <1>1, <1>2, <1>3 DEF TrainTasks

(* A step that leaves the rollouts alone keeps the delay line.             *)
LEMMA DelayFrame ==
    ASSUME TypeOK, BoundInv, DelayInv, UNCHANGED <<queue, tasks, requested>>,
           Starting' = Starting,
           (phase' = "train" /\ pc' = "get") = (phase = "train" /\ pc = "get"),
           last_loaded' = last_loaded \/ last_loaded' = global_step
    PROVE  DelayInv'
<1>1. TrainTasks' = TrainTasks /\ TrainCount' = TrainCount
  BY DEF TrainTasks, TrainCount, TasksFor
<1>2. /\ last_loaded \in Int /\ global_step \in Nat /\ last_loaded <= last_loaded'
      /\ last_loaded' \in Int
  BY DEF TypeOK, BoundInv, Versions
<1>3. \A p : p \in 0..last_loaded => p \in 0..last_loaded' BY <1>2
<1> QED BY <1>1, <1>2, <1>3 DEF DelayInv, TasksFor

(* The delay line is inductive.                                            *)
LEMMA DelayStep ==
    ASSUME ~EvalOnStart, MaxFailures = 0, TypeInv, TypeInv', OutstandingInv, PolicyInv,
           BoundInv, DelayInv, [Next]_vars
    PROVE  DelayInv'
<1> USE DEF threadVars, trainVars, serverVars, taskVars, histVars
<1>0. TypeOK /\ TypeOK' BY DEF TypeInv
<1>1. CASE OnTrainBegin
  <2>1. /\ UNCHANGED <<queue, tasks, requested>> /\ Starting' = Starting
        /\ (phase' = "train" /\ pc' = "get") = (phase = "train" /\ pc = "get")
        /\ last_loaded' = last_loaded \/ last_loaded' = global_step
    BY <1>0, <1>1 DEF OnTrainBegin, Starting, TypeInv, PhaseInv, OutstandingInv
  <2> QED BY <1>0, <2>1, DelayFrame
<1>2. CASE Prefetch
  <2>1. /\ UNCHANGED <<queue, tasks, requested>> /\ Starting' = Starting
        /\ (phase' = "train" /\ pc' = "get") = (phase = "train" /\ pc = "get")
        /\ last_loaded' = last_loaded \/ last_loaded' = global_step
    BY <1>0, <1>2 DEF Prefetch, Starting, TypeInv, PhaseInv, OutstandingInv
  <2> QED BY <1>0, <2>1, DelayFrame
<1>3. CASE FastInfer
  <2>1. /\ UNCHANGED <<queue, tasks, requested>> /\ Starting' = Starting
        /\ (phase' = "train" /\ pc' = "get") = (phase = "train" /\ pc = "get")
        /\ last_loaded' = last_loaded \/ last_loaded' = global_step
    BY <1>0, <1>3 DEF FastInfer, Starting, TypeInv, PhaseInv, OutstandingInv
  <2> QED BY <1>0, <2>1, DelayFrame
<1>4. CASE LoadGroup
  <2>1. /\ UNCHANGED <<queue, tasks, requested>> /\ Starting' = Starting
        /\ (phase' = "train" /\ pc' = "get") = (phase = "train" /\ pc = "get")
        /\ last_loaded' = last_loaded \/ last_loaded' = global_step
    BY <1>0, <1>4 DEF LoadGroup, Starting, TypeInv, PhaseInv, OutstandingInv
  <2> QED BY <1>0, <2>1, DelayFrame
<1>5. CASE FinishMove
  <2>1. /\ UNCHANGED <<queue, tasks, requested>> /\ Starting' = Starting
        /\ (phase' = "train" /\ pc' = "get") = (phase = "train" /\ pc = "get")
        /\ last_loaded' = last_loaded \/ last_loaded' = global_step
    BY <1>0, <1>5 DEF FinishMove, Starting, TypeInv, PhaseInv, OutstandingInv
  <2> QED BY <1>0, <2>1, DelayFrame
<1>6. CASE TrainingStep
  <2>1. /\ UNCHANGED <<queue, tasks, requested>> /\ Starting' = Starting
        /\ (phase' = "train" /\ pc' = "get") = (phase = "train" /\ pc = "get")
        /\ last_loaded' = last_loaded \/ last_loaded' = global_step
    BY <1>0, <1>6 DEF TrainingStep, Starting, TypeInv, PhaseInv, OutstandingInv
  <2> QED BY <1>0, <2>1, DelayFrame
<1>7. CASE Resample
  <2>1. /\ UNCHANGED <<queue, tasks, requested>> /\ Starting' = Starting
        /\ (phase' = "train" /\ pc' = "get") = (phase = "train" /\ pc = "get")
        /\ last_loaded' = last_loaded \/ last_loaded' = global_step
    BY <1>0, <1>7 DEF Resample, Starting, TypeInv, PhaseInv, OutstandingInv
  <2> QED BY <1>0, <2>1, DelayFrame
<1>8. CASE BufferInputs
  <2>1. /\ UNCHANGED <<queue, tasks, requested>> /\ Starting' = Starting
        /\ (phase' = "train" /\ pc' = "get") = (phase = "train" /\ pc = "get")
        /\ last_loaded' = last_loaded \/ last_loaded' = global_step
    BY <1>0, <1>8 DEF BufferInputs, Starting, TypeInv, PhaseInv, OutstandingInv
  <2> QED BY <1>0, <2>1, DelayFrame
<1>9. CASE TrainLoss
  <2>1. /\ UNCHANGED <<queue, tasks, requested>> /\ Starting' = Starting
        /\ (phase' = "train" /\ pc' = "get") = (phase = "train" /\ pc = "get")
        /\ last_loaded' = last_loaded \/ last_loaded' = global_step
    BY <1>0, <1>9 DEF TrainLoss, Starting, TypeInv, PhaseInv, OutstandingInv
  <2> QED BY <1>0, <2>1, DelayFrame
<1>10. CASE StartEvaluation
  <2>1. /\ UNCHANGED <<queue, tasks, requested>> /\ Starting' = Starting
        /\ (phase' = "train" /\ pc' = "get") = (phase = "train" /\ pc = "get")
        /\ last_loaded' = last_loaded \/ last_loaded' = global_step
    BY <1>0, <1>10 DEF StartEvaluation, Starting, TypeInv, PhaseInv, OutstandingInv
  <2> QED BY <1>0, <2>1, DelayFrame
<1>11. CASE NextTrainingStep
  <2>1. /\ UNCHANGED <<queue, tasks, requested>> /\ Starting' = Starting
        /\ (phase' = "train" /\ pc' = "get") = (phase = "train" /\ pc = "get")
        /\ last_loaded' = last_loaded \/ last_loaded' = global_step
    BY <1>0, <1>11 DEF NextTrainingStep, Starting, TypeInv, PhaseInv, OutstandingInv
  <2> QED BY <1>0, <2>1, DelayFrame
<1>12. CASE OnEpochEnd
  <2>1. /\ UNCHANGED <<queue, tasks, requested>> /\ Starting' = Starting
        /\ (phase' = "train" /\ pc' = "get") = (phase = "train" /\ pc = "get")
        /\ last_loaded' = last_loaded \/ last_loaded' = global_step
    BY <1>0, <1>12 DEF OnEpochEnd, Starting, TypeInv, PhaseInv, OutstandingInv
  <2> QED BY <1>0, <2>1, DelayFrame
<1>13. CASE TrainEnd
  <2>1. /\ UNCHANGED <<queue, tasks, requested>> /\ Starting' = Starting
        /\ (phase' = "train" /\ pc' = "get") = (phase = "train" /\ pc = "get")
        /\ last_loaded' = last_loaded \/ last_loaded' = global_step
    BY <1>0, <1>13 DEF TrainEnd, Starting, TypeInv, PhaseInv, OutstandingInv
  <2> QED BY <1>0, <2>1, DelayFrame
<1>14. CASE EvaluationLoop
  <2>1. /\ UNCHANGED <<queue, tasks, requested>> /\ Starting' = Starting
        /\ (phase' = "train" /\ pc' = "get") = (phase = "train" /\ pc = "get")
        /\ last_loaded' = last_loaded \/ last_loaded' = global_step
    BY <1>0, <1>14 DEF EvaluationLoop, Starting, TypeInv, PhaseInv, OutstandingInv
  <2> QED BY <1>0, <2>1, DelayFrame
<1>15. CASE PredictionStep
  <2>1. /\ UNCHANGED <<queue, tasks, requested>> /\ Starting' = Starting
        /\ (phase' = "train" /\ pc' = "get") = (phase = "train" /\ pc = "get")
        /\ last_loaded' = last_loaded \/ last_loaded' = global_step
    BY <1>0, <1>15 DEF PredictionStep, Starting, TypeInv, PhaseInv, OutstandingInv
  <2> QED BY <1>0, <2>1, DelayFrame
<1>16. CASE EvaluationEnd
  <2>1. /\ UNCHANGED <<queue, tasks, requested>> /\ Starting' = Starting
        /\ (phase' = "train" /\ pc' = "get") = (phase = "train" /\ pc = "get")
        /\ last_loaded' = last_loaded \/ last_loaded' = global_step
    BY <1>0, <1>16 DEF EvaluationEnd, Starting, TypeInv, PhaseInv, OutstandingInv
  <2> QED BY <1>0, <2>1, DelayFrame
<1> DEFINE L == Len(queue["train"])
           R == requested["train"]
<1>20. /\ Len(tasks) \in Nat /\ TrainTasks \in Nat /\ L \in Nat /\ R \in Nat
       /\ TrainCount = L + TrainTasks /\ last_loaded \in Int /\ phase \in Phases
       /\ queue["train"] \in Seq(Rollouts) /\ tasks \in Seq(Rollouts)
       /\ TrainCount' = Len(queue'["train"]) + TrainTasks'
  BY <1>0, TaskFacts DEF TrainCount, TypeOK, Versions, Phases
<1>21. \A i \in 1..L :
         /\ queue["train"][i].batch = "train"
         /\ queue["train"][i].no = R - TrainCount + i
         /\ queue["train"][i].policy \in 0..last_loaded
  BY DEF DelayInv
<1>22. CASE PrefetchInfer
  <2>1. /\ pc = "prefetch_infer" /\ pc' \in {"step", "eval_step"}
        /\ UNCHANGED <<tasks, last_loaded>>
        /\ queue' = [queue EXCEPT ![CurrentQueue] = Append(@, Request(SampledFrom))]
        /\ requested' = [requested EXCEPT ![phase] = @ + 1]
    BY <1>22 DEF PrefetchInfer
  <2>2. CurrentQueue = phase
    BY <1>20, <2>1 DEF CurrentQueue, OutstandingInv, PhaseInv, Phases
  <2>3. last_loaded = global_step /\ last_loaded >= 0
    BY <1>0, <2>1 DEF OutstandingInv, EvalInv, TypeOK
  <2>4. TrainTasks' = TrainTasks /\ (TasksFor("train") \/ TasksFor("eval"))'
    BY <2>1 DEF TrainTasks, TasksFor, DelayInv
  <2>5. ~Starting' BY <2>1 DEF Starting
  <2>6. CASE phase = "train"
    <3> DEFINE x == Request(SampledFrom)
    <3>1. x \in Rollouts /\ x.batch = "train" /\ x.no = R + 1 /\ x.policy = last_loaded
      BY <1>0, <2>6, SampledFromType, RequestType DEF Request
    <3> HIDE DEF x
    <3>2. Starting /\ tasks = <<>> /\ queue["train"] = <<>> /\ R = 0
      BY <2>1, <2>6 DEF Starting, OutstandingInv, StartInv, DelayInv
    <3>3. queue'["train"] = Append(queue["train"], x) /\ requested'["train"] = R + 1
      BY <1>0, <2>1, <2>2, <2>6 DEF TypeOK, Phases, x
    <3>4. L = 0 /\ TrainTasks = 0 BY <1>0, <3>2, TaskFacts
    <3>5. Len(queue'["train"]) = 1 /\ queue'["train"][1] = x
      BY <1>20, <3>1, <3>3, <3>4, AppendFacts
    <3>6. TrainCount' = 1 /\ requested'["train"] = 1 BY <1>20, <2>4, <3>2, <3>3, <3>4, <3>5
    <3>7. \A i \in 1..Len(queue'["train"]) :
             /\ queue'["train"][i].batch = "train"
             /\ queue'["train"][i].no = requested'["train"] - TrainCount' + i
             /\ queue'["train"][i].policy \in 0..last_loaded'
      <4>1. \A i \in 1..Len(queue'["train"]) : i = 1 BY <3>5
      <4>2. x.no = 1 /\ x.policy \in 0..last_loaded' BY <1>20, <2>1, <2>3, <3>1, <3>2
      <4> QED BY <3>1, <3>5, <3>6, <4>1, <4>2
    <3>8. TrainTasks' = 0 BY <2>4, <3>4
    <3>9. ~(phase' = "train" /\ pc' = "get") BY <2>1
    <3> QED BY <2>1, <2>3, <2>4, <2>5, <3>6, <3>7, <3>8, <3>9 DEF DelayInv
  <2>7. CASE phase = "eval"
    <3>1. queue'["train"] = queue["train"] /\ requested'["train"] = R
      BY <1>0, <2>1, <2>2, <2>7 DEF TypeOK, Phases
    <3>2. TrainCount' = TrainCount BY <1>20, <2>4, <3>1
    <3>3. ~Starting /\ ~(phase = "train" /\ pc = "get") /\ ~(phase' = "train" /\ pc' = "get")
      BY <2>1, <2>7 DEF Starting
    <3> QED BY <2>1, <2>4, <2>5, <3>1, <3>2, <3>3 DEF DelayInv
  <2> QED BY <1>20, <2>6, <2>7 DEF Phases
<1>23. CASE AsyncGenerateRollout
  <2> DEFINE x == Request({})
  <2>1. /\ pc = "submit" /\ pc' = "get" /\ UNCHANGED <<queue, last_loaded, phase>>
        /\ tasks' = Append(tasks, x)
        /\ requested' = [requested EXCEPT ![phase] = @ + 1]
    BY <1>23 DEF AsyncGenerateRollout
  <2>2. CurrentQueue = phase
    BY <1>20, <2>1 DEF CurrentQueue, OutstandingInv, PhaseInv, Phases
  <2>3. /\ x \in Rollouts /\ x.batch = phase /\ x.dest = phase
        /\ x.no = requested[phase] + 1 /\ x.policy = last_loaded
    BY <1>0, <2>2, RequestType DEF Request
  <2> HIDE DEF x
  <2>4. /\ Len(tasks') = Len(tasks) + 1 /\ tasks'[Len(tasks) + 1] = x
        /\ \A i \in 1..Len(tasks) : tasks'[i] = tasks[i]
    BY <1>20, <2>1, <2>3, AppendFacts
  <2>5. ~Starting /\ ~Starting' BY <2>1 DEF Starting
  <2>6. CASE phase = "train"
    <3>1. TasksFor("train")
      BY <2>1, <2>6 DEF OutstandingInv, TrainInv, TrainOutstanding
    <3>2. TasksFor("train")' BY <1>20, <2>3, <2>4, <2>6, <3>1, SMTT(30) DEF TasksFor
    <3>3. TrainTasks = Len(tasks) /\ TrainTasks' = Len(tasks) + 1
      BY <2>4, <3>1, <3>2 DEF TrainTasks
    <3>4. requested'["train"] = R + 1 BY <1>0, <2>1, <2>6 DEF TypeOK, Phases
    <3>5. TrainCount = 1 BY <2>1, <2>5 DEF DelayInv
    <3>6. TrainCount' = 2
      <4>1. Len(queue'["train"]) = L BY <2>1
      <4> HIDE DEF L, R
      <4> QED BY <1>20, <3>3, <3>5, <4>1
    <3>7. \A i \in 1..TrainTasks' :
             /\ tasks'[i].batch = "train"
             /\ tasks'[i].no = requested'["train"] - TrainTasks' + i
      <4>1. \A i \in 1..Len(tasks) :
              tasks[i].batch = "train" /\ tasks[i].no = R - Len(tasks) + i
        BY <3>3 DEF DelayInv
      <4>2. \A i \in 1..(Len(tasks) + 1) : i \in 1..Len(tasks) \/ i = Len(tasks) + 1
        BY <1>20
      <4>3. \A i \in 1..(Len(tasks) + 1) :
              R - Len(tasks) + i = (R + 1) - (Len(tasks) + 1) + i
        <5> HIDE DEF R
        <5> QED BY <1>20
      <4>4. R - Len(tasks) + (Len(tasks) + 1) = R + 1 BY <1>20
      <4>5. x.batch = "train" /\ x.no = R + 1 BY <2>3, <2>6
      <4>6. \A i \in 1..(Len(tasks) + 1) :
              tasks'[i].batch = "train" /\ tasks'[i].no = R - Len(tasks) + i
        BY <2>4, <4>1, <4>2, <4>4, <4>5
      <4> QED BY <3>3, <3>4, <4>3, <4>6
    <3>8. \A i \in 1..L : R - TrainCount + i = requested'["train"] - TrainCount' + i
      BY <1>20, <3>4, <3>5, <3>6
    <3>9. \A i \in 1..Len(queue'["train"]) :
             /\ queue'["train"][i].batch = "train"
             /\ queue'["train"][i].no = requested'["train"] - TrainCount' + i
             /\ queue'["train"][i].policy \in 0..last_loaded'
      BY <1>21, <2>1, <3>8
    <3> QED BY <2>1, <2>5, <2>6, <3>2, <3>6, <3>7, <3>9 DEF DelayInv
  <2>7. CASE phase = "eval"
    <3>1. TasksFor("eval")
      BY <2>1, <2>7 DEF OutstandingInv, EvalInv, EvalOutstanding
    <3>2. TasksFor("eval")' BY <1>20, <2>3, <2>4, <2>7, <3>1 DEF TasksFor
    <3>3. ~TasksFor("train")'
      <4>1. Len(tasks) + 1 \in 1..Len(tasks') /\ tasks'[Len(tasks) + 1].dest # "train"
        BY <1>20, <2>3, <2>4, <2>7
      <4> QED BY <4>1 DEF TasksFor
    <3>4. TrainTasks = 0 /\ TrainTasks' = 0 BY <1>0, <3>1, <3>3, TaskFacts DEF TrainTasks
    <3>5. requested'["train"] = R BY <1>0, <2>1, <2>7 DEF TypeOK, Phases
    <3>6. TrainCount' = TrainCount BY <1>20, <2>1, <3>4
    <3>7. TrainCount = 1 /\ last_loaded >= 0 BY <2>5, <2>7 DEF DelayInv
    <3> QED BY <1>21, <2>1, <2>5, <2>7, <3>2, <3>4, <3>5, <3>6, <3>7 DEF DelayInv
  <2> QED BY <1>20, <2>6, <2>7 DEF Phases
<1>24. CASE QueueGet
  <2>1. /\ pc = "get" /\ pc' \in {"score", "eval_step"}
        /\ UNCHANGED <<tasks, last_loaded, phase, requested>>
        /\ queue[CurrentQueue] # <<>>
        /\ queue' = [queue EXCEPT ![CurrentQueue] = Tail(@)]
    BY <1>24 DEF QueueGet
  <2>2. CurrentQueue = phase
    BY <1>20, <2>1 DEF CurrentQueue, OutstandingInv, PhaseInv, Phases
  <2>3. ~Starting /\ ~Starting' BY <2>1 DEF Starting
  <2>4. TrainTasks' = TrainTasks /\ (TasksFor("train") \/ TasksFor("eval"))'
    BY <2>1 DEF TrainTasks, TasksFor, DelayInv
  <2>5. \A i \in 1..TrainTasks' :
             /\ tasks'[i].batch = "train"
             /\ tasks'[i].no = requested'["train"] - TrainTasks' + i
    BY <2>1, <2>4 DEF DelayInv
  <2>6. last_loaded >= 0 BY <2>3 DEF DelayInv
  <2>7. CASE phase = "train"
    <3>1. queue["train"] # <<>> /\ queue'["train"] = Tail(queue["train"])
      BY <1>0, <2>1, <2>2, <2>7 DEF TypeOK, Phases
    <3>2. /\ L >= 1 /\ Len(queue'["train"]) = L - 1
          /\ \A i \in 1..(L - 1) :
               queue'["train"][i] = queue["train"][i + 1] /\ i + 1 \in 1..L
      BY <1>20, <3>1, TailFacts
    <3>3. TrainCount = 2 BY <2>1, <2>3, <2>7 DEF DelayInv
    <3>4. TrainCount' = 1 BY <1>20, <2>4, <3>2, <3>3
    <3>5. \A i \in 1..(L - 1) : R - 2 + (i + 1) = R - 1 + i BY <1>20
    <3>6. \A i \in 1..Len(queue'["train"]) :
             /\ queue'["train"][i].batch = "train"
             /\ queue'["train"][i].no = requested'["train"] - TrainCount' + i
             /\ queue'["train"][i].policy \in 0..last_loaded'
      BY <1>21, <2>1, <3>2, <3>3, <3>4, <3>5
    <3> QED BY <2>1, <2>3, <2>4, <2>5, <2>6, <3>4, <3>6 DEF DelayInv
  <2>8. CASE phase = "eval"
    <3>1. queue'["train"] = queue["train"] BY <1>0, <2>1, <2>2, <2>8 DEF TypeOK, Phases
    <3>2. TrainCount' = TrainCount BY <1>20, <2>4, <3>1
    <3> QED BY <1>21, <2>1, <2>3, <2>4, <2>5, <2>6, <2>8, <3>1, <3>2 DEF DelayInv
  <2> QED BY <1>20, <2>7, <2>8 DEF Phases
<1>25. CASE InferTaskStart
  <2>1. UNCHANGED <<pc, phase, queue, requested, last_loaded>> BY <1>25 DEF InferTaskStart
  <2>2. /\ Len(tasks') = Len(tasks)
        /\ \A i \in 1..Len(tasks) : /\ tasks'[i].dest = tasks[i].dest
                                     /\ tasks'[i].batch = tasks[i].batch
                                     /\ tasks'[i].no = tasks[i].no
    BY <1>20, <1>25 DEF InferTaskStart, Rollouts
  <2>3. /\ TasksFor("train")' = TasksFor("train") /\ TasksFor("eval")' = TasksFor("eval")
    BY <2>2 DEF TasksFor
  <2>4. TrainTasks' = TrainTasks /\ TrainTasks <= Len(tasks)
    BY <1>20, <2>2, <2>3 DEF TrainTasks
  <2>5. TrainCount' = TrainCount BY <1>20, <2>1, <2>4
  <2>6. \A i \in 1..TrainTasks : i \in 1..Len(tasks) BY <1>20, <2>4
  <2> QED BY <2>1, <2>2, <2>3, <2>4, <2>5, <2>6 DEF DelayInv, Starting
<1>26. CASE InferTaskDone
  <2> DEFINE seen == tasks[1].seen \cup SampledFrom
             roll == [tasks[1] EXCEPT !.seen = seen]
  <2>1. UNCHANGED <<pc, phase, requested, last_loaded>> /\ tasks' = Tail(tasks) /\ tasks # <<>>
    BY <1>26 DEF InferTaskDone, TypeInv
  <2>2. /\ Len(tasks) >= 1 /\ Len(tasks') = Len(tasks) - 1 /\ tasks[1] \in Rollouts
        /\ \A i \in 1..(Len(tasks) - 1) :
             tasks'[i] = tasks[i + 1] /\ i + 1 \in 1..Len(tasks)
    BY <1>20, <2>1, TailFacts
  <2>3. seen \in SUBSET Versions BY <1>0, <2>2, SampledFromType DEF Rollouts
  <2>4. /\ roll \in Rollouts /\ roll.dest = tasks[1].dest /\ roll.batch = tasks[1].batch
        /\ roll.no = tasks[1].no /\ roll.policy = tasks[1].policy /\ roll.dest \in Phases
    BY <2>2, <2>3 DEF Rollouts
  <2> HIDE DEF seen, roll
  <2>5. queue' = [queue EXCEPT ![roll.dest] = Append(@, roll)]
    BY <1>26 DEF InferTaskDone, roll, seen
  <2>6. ~Starting /\ ~Starting' BY <2>1 DEF OutstandingInv, StartInv, Starting
  <2>7. last_loaded >= 0 BY <2>6 DEF DelayInv
  <2>8. \A d : TasksFor(d) => TasksFor(d)' BY <1>20, <2>2 DEF TasksFor
  <2>9. 1 \in 1..Len(tasks) BY <1>20, <2>2
  <2>10. CASE roll.dest = "train"
    <3>1. TasksFor("train") /\ TasksFor("train")'
      BY <2>4, <2>8, <2>9, <2>10 DEF DelayInv, TasksFor
    <3>2. TrainTasks = Len(tasks) /\ TrainTasks' = Len(tasks) - 1
      BY <2>2, <3>1 DEF TrainTasks
    <3>3. queue'["train"] = Append(queue["train"], roll)
      BY <1>0, <2>5, <2>10 DEF TypeOK, Phases
    <3>4. /\ Len(queue'["train"]) = L + 1 /\ queue'["train"][L + 1] = roll
          /\ \A i \in 1..L : queue'["train"][i] = queue["train"][i]
      BY <1>20, <2>4, <3>3, AppendFacts
    <3>5. TrainCount' = TrainCount BY <1>20, <2>2, <3>2, <3>4
    <3>6. \A i \in 1..Len(tasks) :
            tasks[i].batch = "train" /\ tasks[i].no = R - Len(tasks) + i
      BY <3>2 DEF DelayInv
    <3>7. /\ roll.batch = "train" /\ roll.no = R - TrainCount + (L + 1)
          /\ roll.policy \in 0..last_loaded
      <4>1. tasks[1].policy = last_loaded BY <2>9 DEF PolicyInv
      <4>2. tasks[1].no = R - Len(tasks) + 1 BY <2>9, <3>6
      <4>3. R - Len(tasks) + 1 = R - TrainCount + (L + 1)
        <5> HIDE DEF L, R
        <5> QED BY <1>20, <3>2
      <4> QED BY <1>20, <2>4, <2>7, <2>9, <3>6, <4>1, <4>2, <4>3
    <3>8. \A i \in 1..Len(queue'["train"]) :
             /\ queue'["train"][i].batch = "train"
             /\ queue'["train"][i].no = requested'["train"] - TrainCount' + i
             /\ queue'["train"][i].policy \in 0..last_loaded'
      <4>1. \A i \in 1..(L + 1) : i \in 1..L \/ i = L + 1 BY <1>20
      <4> QED BY <1>21, <2>1, <3>4, <3>5, <3>7, <4>1
    <3>9. \A i \in 1..TrainTasks' :
             /\ tasks'[i].batch = "train"
             /\ tasks'[i].no = requested'["train"] - TrainTasks' + i
      <4>1. \A i \in 1..(Len(tasks) - 1) :
              R - Len(tasks) + (i + 1) = R - (Len(tasks) - 1) + i
        <5> HIDE DEF R
        <5> QED BY <1>20
      <4> QED BY <2>1, <2>2, <3>2, <3>6, <4>1
    <3> QED BY <2>1, <2>6, <3>1, <3>5, <3>8, <3>9 DEF DelayInv
  <2>11. CASE roll.dest = "eval"
    <3>1. TasksFor("eval") /\ TasksFor("eval")'
      BY <2>4, <2>8, <2>9, <2>11 DEF DelayInv, TasksFor
    <3>2. TrainTasks = 0 BY <1>0, <3>1, TaskFacts
    <3>3. TrainTasks' = 0
      <4>1. TasksFor("train")' => Len(tasks') = 0
        <5> SUFFICES ASSUME TasksFor("train")', Len(tasks') # 0 PROVE FALSE OBVIOUS
        <5>1. 1 \in 1..Len(tasks') BY <1>20, <2>2
        <5> QED BY <3>1, <5>1 DEF TasksFor
      <4> QED BY <4>1 DEF TrainTasks
    <3>4. queue'["train"] = queue["train"] BY <1>0, <2>5, <2>11 DEF TypeOK, Phases
    <3>5. TrainCount' = TrainCount BY <1>20, <3>2, <3>3, <3>4
    <3>6. \A i \in 1..TrainTasks' : FALSE BY <3>3
    <3> QED BY <1>21, <2>1, <2>6, <3>1, <3>4, <3>5, <3>6 DEF DelayInv
  <2> QED BY <2>4, <2>10, <2>11 DEF Phases
<1>27. CASE InferTaskRaises
  BY <1>0, <1>27 DEF InferTaskRaises, TypeOK
<1>28. CASE UNCHANGED vars
  BY <1>28 DEF vars, DelayInv, Starting, TrainCount, TrainTasks, TasksFor
<1> QED BY <1>1, <1>2, <1>3, <1>4, <1>5, <1>6, <1>7, <1>8, <1>9, <1>10, <1>11, <1>12,
           <1>13, <1>14, <1>15, <1>16, <1>22, <1>23, <1>24, <1>25, <1>26, <1>27, <1>28
        DEF Next, MainThread, Worker
(* The policy of the oldest outstanding train rollout: tasks still in the  *)
(* executor have the policy that is loaded.                                *)
LEMMA SlotFacts ==
    ASSUME TypeInv, OutstandingInv, PolicyInv, DelayInv
    PROVE  SlotInv
<1>0. /\ Len(tasks) \in Nat /\ TrainTasks \in Nat /\ Len(queue["train"]) \in Nat
      /\ queue["train"] \in Seq(Rollouts) /\ tasks \in Seq(Rollouts)
      /\ TasksFor("train") => TrainTasks = Len(tasks)
      /\ TasksFor("eval") => TrainTasks = 0
      /\ tasks = <<>> => TrainTasks = 0
  BY TaskFacts DEF TypeInv
<1>1. requested["train"] \in Nat BY DEF TypeInv, TypeOK, Phases
<1>2. ASSUME Starting PROVE AsRequest(Oldest) = [no |-> 0, policy |-> -1]
  <2>1. Oldest = NoRollout BY <1>2 DEF OutstandingInv, StartInv, Oldest
  <2> QED BY <2>1 DEF AsRequest
<1>3. \A r \in Rollouts : r # NoRollout
  <2> SUFFICES ASSUME NEW r \in Rollouts PROVE r # NoRollout OBVIOUS
  <2>1. r.batch \in Phases BY DEF Rollouts
  <2>2. NoRollout.batch = "none" BY DEF NoRollout
  <2> QED BY <2>1, <2>2 DEF Phases
<1>4. ASSUME ~Starting, queue["train"] # <<>>
      PROVE  AsRequest(Oldest) = [no     |-> requested["train"] - TrainCount + 1,
                                  policy |-> queue["train"][1].policy]
  <2>1. Oldest = queue["train"][1] /\ queue["train"][1] \in Rollouts
        /\ 1 \in 1..Len(queue["train"])
    BY <1>0, <1>4, TailFacts DEF Oldest
  <2>2. queue["train"][1].batch = "train"
        /\ queue["train"][1].no = requested["train"] - TrainCount + 1
    BY <2>1 DEF DelayInv
  <2> QED BY <1>3, <2>1, <2>2 DEF AsRequest
<1>5. ASSUME ~Starting, queue["train"] = <<>>
      PROVE  AsRequest(Oldest) = [no     |-> requested["train"] - TrainCount + 1,
                                  policy |-> last_loaded]
  <2>1. Len(queue["train"]) = 0 BY <1>5
  <2>2. TrainCount = TrainTasks /\ TrainCount \in {1, 2} BY <1>0, <1>5, <2>1 DEF DelayInv, TrainCount
  <2>3. tasks # <<>> /\ TasksFor("train") /\ TrainTasks = Len(tasks)
    BY <1>0, <2>2 DEF TrainTasks
  <2>4. Head(tasks) = tasks[1] /\ tasks[1] \in Rollouts /\ 1 \in 1..Len(tasks)
    BY <1>0, <2>3, TailFacts
  <2>5. tasks[1].dest = "train" /\ tasks[1].policy = last_loaded
    BY <2>3, <2>4 DEF TasksFor, PolicyInv
  <2>6. Oldest = tasks[1] BY <1>5, <2>3, <2>4, <2>5 DEF Oldest
  <2>7. tasks[1].batch = "train" /\ tasks[1].no = requested["train"] - TrainCount + 1
    BY <2>2, <2>3, <2>4 DEF DelayInv
  <2> QED BY <1>3, <2>3, <2>4, <2>5, <2>6, <2>7 DEF AsRequest
<1> QED BY <1>2, <1>4, <1>5 DEF SlotInv

(* Every step of the trainer and of the worker is a step of the delay line *)
(* or leaves it alone: the prefetch primes it, _queue.get of a training    *)
(* step is the exchange.                                                   *)
LEMMA DelayLineStep ==
    ASSUME ~EvalOnStart, MaxFailures = 0, TypeInv, TypeInv', OutstandingInv,
           PolicyInv, StalenessInv, BoundInv, DelayInv, DelayInv', SlotInv, SlotInv',
           [Next]_vars
    PROVE  [DelayLine!Next]_<<AsRequest(Oldest), AsRequest(delivered["train"])>>
<1> USE DEF threadVars, trainVars, serverVars, taskVars, histVars
<1>1. CASE OnTrainBegin
  <2>1. UNCHANGED <<queue, tasks, delivered>> BY <1>1 DEF OnTrainBegin
  <2> QED BY <2>1 DEF Oldest, AsRequest
<1>2. CASE Prefetch
  <2>1. UNCHANGED <<queue, tasks, delivered>> BY <1>2 DEF Prefetch
  <2> QED BY <2>1 DEF Oldest, AsRequest
<1>3. CASE FastInfer
  <2>1. UNCHANGED <<queue, tasks, delivered>> BY <1>3 DEF FastInfer
  <2> QED BY <2>1 DEF Oldest, AsRequest
<1>4. CASE LoadGroup
  <2>1. UNCHANGED <<queue, tasks, delivered>> BY <1>4 DEF LoadGroup
  <2> QED BY <2>1 DEF Oldest, AsRequest
<1>5. CASE TrainingStep
  <2>1. UNCHANGED <<queue, tasks, delivered>> BY <1>5 DEF TrainingStep
  <2> QED BY <2>1 DEF Oldest, AsRequest
<1>6. CASE Resample
  <2>1. UNCHANGED <<queue, tasks, delivered>> BY <1>6 DEF Resample
  <2> QED BY <2>1 DEF Oldest, AsRequest
<1>7. CASE BufferInputs
  <2>1. UNCHANGED <<queue, tasks, delivered>> BY <1>7 DEF BufferInputs
  <2> QED BY <2>1 DEF Oldest, AsRequest
<1>8. CASE TrainLoss
  <2>1. UNCHANGED <<queue, tasks, delivered>> BY <1>8 DEF TrainLoss
  <2> QED BY <2>1 DEF Oldest, AsRequest
<1>9. CASE StartEvaluation
  <2>1. UNCHANGED <<queue, tasks, delivered>> BY <1>9 DEF StartEvaluation
  <2> QED BY <2>1 DEF Oldest, AsRequest
<1>10. CASE NextTrainingStep
  <2>1. UNCHANGED <<queue, tasks, delivered>> BY <1>10 DEF NextTrainingStep
  <2> QED BY <2>1 DEF Oldest, AsRequest
<1>11. CASE OnEpochEnd
  <2>1. UNCHANGED <<queue, tasks, delivered>> BY <1>11 DEF OnEpochEnd
  <2> QED BY <2>1 DEF Oldest, AsRequest
<1>12. CASE TrainEnd
  <2>1. UNCHANGED <<queue, tasks, delivered>> BY <1>12 DEF TrainEnd
  <2> QED BY <2>1 DEF Oldest, AsRequest
<1>13. CASE EvaluationLoop
  <2>1. UNCHANGED <<queue, tasks, delivered>> BY <1>13 DEF EvaluationLoop
  <2> QED BY <2>1 DEF Oldest, AsRequest
<1>14. CASE PredictionStep
  <2>1. UNCHANGED <<queue, tasks, delivered>> BY <1>14 DEF PredictionStep
  <2> QED BY <2>1 DEF Oldest, AsRequest
<1>15. CASE EvaluationEnd
  <2>1. UNCHANGED <<queue, tasks, delivered>> BY <1>15 DEF EvaluationEnd
  <2> QED BY <2>1 DEF Oldest, AsRequest
<1> DEFINE L == Len(queue["train"])
           R == requested["train"]
           P == IF queue["train"] # <<>> THEN queue["train"][1].policy ELSE last_loaded
           slot == AsRequest(Oldest)
           out == AsRequest(delivered["train"])
<1>16. TypeOK /\ TypeOK' BY DEF TypeInv
<1>17. /\ Len(tasks) \in Nat /\ TrainTasks \in Nat /\ L \in Nat /\ R \in Nat
       /\ TrainCount = L + TrainTasks /\ last_loaded \in Int /\ phase \in Phases
       /\ queue["train"] \in Seq(Rollouts) /\ tasks \in Seq(Rollouts)
  BY <1>16, TaskFacts DEF TrainCount, TypeOK, Versions, Phases
<1>18. /\ ~Starting => slot = [no |-> R - TrainCount + 1, policy |-> P]
       /\ Starting => slot = [no |-> 0, policy |-> -1]
  BY DEF SlotInv
<1>19. ~Starting' => slot' = [no |-> R' - TrainCount' + 1, policy |-> P'] BY DEF SlotInv
<1> HIDE DEF slot
<1>20. CASE FinishMove
  <2>1. UNCHANGED <<queue, tasks, delivered>> BY <1>20 DEF FinishMove
  <2> QED BY <2>1 DEF Oldest, AsRequest, slot
<1>21. CASE PrefetchInfer
  <2>1. /\ pc = "prefetch_infer" /\ pc' \in {"step", "eval_step"}
        /\ UNCHANGED <<tasks, last_loaded, delivered>>
        /\ queue' = [queue EXCEPT ![CurrentQueue] = Append(@, Request(SampledFrom))]
        /\ requested' = [requested EXCEPT ![phase] = @ + 1]
    BY <1>21 DEF PrefetchInfer
  <2>2. CurrentQueue = phase
    BY <1>17, <2>1 DEF CurrentQueue, OutstandingInv, PhaseInv, Phases
  <2>3. ~Starting' BY <2>1 DEF Starting
  <2>4. CASE phase = "train"
    <3> DEFINE x == Request(SampledFrom)
    <3>1. x \in Rollouts /\ x.policy = last_loaded
      BY <1>16, SampledFromType, RequestType DEF Request
    <3> HIDE DEF x
    <3>2. Starting /\ queue["train"] = <<>> /\ R = 0
      BY <2>1, <2>4 DEF Starting, OutstandingInv, StartInv, DelayInv
    <3>3. queue'["train"] = Append(queue["train"], x) /\ R' = 1
      BY <1>16, <2>1, <2>2, <2>4, <3>2 DEF TypeOK, Phases, x
    <3>4. queue'["train"] # <<>> /\ queue'["train"][1] = x
      <4>1. Len(queue["train"]) = 0 BY <3>2
      <4> QED BY <1>17, <3>1, <3>3, <4>1, AppendFacts
    <3>5. P' = last_loaded BY <3>1, <3>4
    <3>6. TrainCount' = 1 BY <2>1, <2>3 DEF DelayInv
    <3>7. slot' = [no |-> 1, policy |-> last_loaded]
      <4>1. R' - TrainCount' + 1 = 1 BY <3>3, <3>6
      <4> HIDE DEF R, P
      <4> QED BY <1>19, <2>3, <3>5, <4>1
    <3>8. last_loaded \in 0..MaxSteps
      <4>1. last_loaded = global_step /\ global_step <= MaxSteps /\ global_step \in Nat
        BY <1>16, <2>1 DEF OutstandingInv, EvalInv, BoundInv, TypeOK
      <4> QED BY <4>1, ConstantsAssumption
    <3>9. slot = DelayLine!Empty BY <1>18, <3>2 DEF DelayLine!Empty
    <3>10. out' = out BY <2>1 DEF AsRequest
    <3>11. DelayLine!Prime(last_loaded) BY <3>7, <3>9, <3>10 DEF DelayLine!Prime, slot
    <3> QED BY <3>8, <3>11 DEF DelayLine!Next
  <2>5. CASE phase = "eval"
    <3>1. queue'["train"] = queue["train"] BY <1>16, <2>1, <2>2, <2>5 DEF TypeOK, Phases
    <3>2. tasks' = tasks /\ delivered' = delivered BY <2>1
    <3>3. Oldest' = Oldest BY <3>1, <3>2 DEF Oldest
    <3> QED BY <3>2, <3>3 DEF AsRequest
  <2> QED BY <1>17, <2>4, <2>5 DEF Phases
<1>22. CASE AsyncGenerateRollout
  <2>1. /\ pc = "submit" /\ pc' = "get" /\ UNCHANGED <<queue, last_loaded, phase, delivered>>
        /\ requested' = [requested EXCEPT ![phase] = @ + 1]
    BY <1>22 DEF AsyncGenerateRollout
  <2>2. ~Starting /\ ~Starting' BY <2>1 DEF Starting
  <2>3. R' - TrainCount' + 1 = R - TrainCount + 1
    <3>1. CASE phase = "train"
      <4>1. R' = R + 1 BY <1>16, <2>1, <3>1 DEF TypeOK, Phases
      <4>2. TrainCount = 1 /\ TrainCount' = 2 BY <2>1, <2>2, <3>1 DEF DelayInv
      <4>3. \A r \in Nat : (r + 1) - 2 + 1 = r - 1 + 1 OBVIOUS
      <4> QED BY <1>17, <4>1, <4>2, <4>3
    <3>2. CASE phase = "eval"
      <4>1. R' = R BY <1>16, <2>1, <3>2 DEF TypeOK, Phases
      <4>2. TrainCount = 1 /\ TrainCount' = 1 BY <2>1, <2>2, <3>2 DEF DelayInv
      <4> QED BY <4>1, <4>2
    <3> QED BY <1>17, <3>1, <3>2 DEF Phases
  <2>4. P' = P BY <2>1
  <2>5. slot' = slot
    <3> HIDE DEF P, R
    <3> QED BY <1>18, <1>19, <2>2, <2>3, <2>4
  <2>6. out' = out BY <2>1 DEF AsRequest
  <2> QED BY <2>5, <2>6 DEF slot
<1>23. CASE QueueGet
  <2>1. /\ pc = "get" /\ UNCHANGED <<tasks, last_loaded, phase, requested>>
        /\ queue[CurrentQueue] # <<>>
        /\ delivered' = [delivered EXCEPT ![phase] = Head(queue[CurrentQueue])]
        /\ queue' = [queue EXCEPT ![CurrentQueue] = Tail(@)]
        /\ pc' = IF phase = "train" THEN "score" ELSE "eval_step"
    BY <1>23 DEF QueueGet
  <2>2. CurrentQueue = phase
    BY <1>17, <2>1 DEF CurrentQueue, OutstandingInv, PhaseInv, Phases
  <2>3. ~Starting /\ ~Starting' BY <2>1 DEF Starting
  <2>4. CASE phase = "train"
    <3>1. /\ queue["train"] # <<>> /\ queue'["train"] = Tail(queue["train"])
          /\ delivered'["train"] = Head(queue["train"])
      BY <1>16, <2>1, <2>2, <2>4 DEF TypeOK, Phases
    <3>2. /\ L >= 1 /\ Len(queue'["train"]) = L - 1
          /\ queue'["train"] \in Seq(Rollouts)
          /\ Head(queue["train"]) = queue["train"][1] /\ queue["train"][1] \in Rollouts
          /\ \A i \in 1..(L - 1) :
               queue'["train"][i] = queue["train"][i + 1] /\ i + 1 \in 1..L
      BY <1>17, <3>1, TailFacts
    <3>3. TrainCount = 2 /\ TrainCount' = 1 BY <2>1, <2>3, <2>4 DEF DelayInv
    <3>4. P \in 0..last_loaded /\ slot = [no |-> R - 2 + 1, policy |-> P]
      <4>1. 1 \in 1..L BY <1>17, <3>2
      <4>2. P = queue["train"][1].policy BY <3>1
      <4>3. queue["train"][1].policy \in 0..last_loaded BY <4>1 DEF DelayInv
      <4> HIDE DEF P
      <4> QED BY <1>18, <2>3, <3>3, <4>2, <4>3
    <3>5. out' = slot
      <4>1. delivered'["train"] = queue["train"][1] BY <3>1, <3>2
      <4>2. Oldest = queue["train"][1] BY <3>1, <3>2 DEF Oldest
      <4> QED BY <4>1, <4>2 DEF AsRequest, slot
    <3>6. P' = last_loaded
      <4>0. last_loaded' = last_loaded BY <2>1
      <4>1. CASE queue'["train"] = <<>> BY <4>0, <4>1
      <4>2. CASE queue'["train"] # <<>>
        <5>1. Len(queue'["train"]) # 0 BY <3>2, <4>2, LenFacts
        <5>2. 1 \in 1..(L - 1) /\ 2 \in 2..L
          <6>1. L - 1 # 0 BY <3>2, <5>1
          <6>2. L \in Nat /\ L >= 1 BY <1>17, <3>2
          <6> HIDE DEF L
          <6> QED BY <6>1, <6>2
        <5>3. queue["train"][2].policy = last_loaded
          BY <2>1, <2>4, <5>2 DEF StalenessInv, FreshInv
        <5>4. queue'["train"][1] = queue["train"][2]
          <6>1. 1 + 1 = 2 OBVIOUS
          <6> QED BY <3>2, <5>2, <6>1
        <5> QED BY <4>2, <5>3, <5>4
      <4> QED BY <4>1, <4>2
    <3>7. slot' = [no |-> R - 1 + 1, policy |-> last_loaded]
      <4>1. R' = R BY <2>1
      <4> HIDE DEF P, R
      <4> QED BY <1>19, <2>3, <3>3, <3>6, <4>1
    <3> HIDE DEF P, R
    <3>8. /\ slot # DelayLine!Empty /\ last_loaded >= slot.policy
          /\ slot' = [no |-> slot.no + 1, policy |-> last_loaded]
      <4>1. slot.policy = P /\ slot.no = R - 2 + 1 BY <3>4
      <4>2. P >= 0 /\ P <= last_loaded /\ P \in Int BY <1>17, <3>4
      <4>3. slot # DelayLine!Empty
        <5>1. DelayLine!Empty.policy = -1 BY DEF DelayLine!Empty
        <5> QED BY <4>1, <4>2, <5>1
      <4>4. R - 1 + 1 = (R - 2 + 1) + 1 BY <1>17
      <4> QED BY <1>17, <3>7, <4>1, <4>2, <4>3, <4>4
    <3>9. last_loaded \in 0..MaxSteps
      <4>1. /\ last_loaded <= global_step /\ global_step <= MaxSteps
            /\ global_step \in Nat /\ last_loaded >= 0
        BY <1>16, <2>3 DEF BoundInv, DelayInv, TypeOK
      <4> QED BY <1>17, <4>1, ConstantsAssumption
    <3>10. DelayLine!Exchange(last_loaded)
      BY <3>5, <3>8 DEF DelayLine!Exchange, slot
    <3> QED BY <3>9, <3>10 DEF DelayLine!Next
  <2>5. CASE phase = "eval"
    <3>1. queue'["train"] = queue["train"] /\ delivered'["train"] = delivered["train"]
      BY <1>16, <2>1, <2>2, <2>5 DEF TypeOK, Phases
    <3>2. tasks' = tasks BY <2>1
    <3>3. Oldest' = Oldest BY <3>1, <3>2 DEF Oldest
    <3> QED BY <3>1, <3>3 DEF AsRequest
  <2> QED BY <1>17, <2>4, <2>5 DEF Phases
<1>24. CASE InferTaskStart
  <2>1. UNCHANGED <<pc, phase, queue, requested, last_loaded, delivered>>
    BY <1>24 DEF InferTaskStart
  <2>2. ~Starting /\ ~Starting'
    BY <1>24, <2>1 DEF InferTaskStart, OutstandingInv, StartInv, Starting
  <2>3. TrainCount' = TrainCount BY <2>1, <2>2 DEF DelayInv
  <2>4. slot' = slot BY <1>18, <1>19, <2>1, <2>2, <2>3
  <2> QED BY <2>1, <2>4 DEF AsRequest, slot
<1>25. CASE InferTaskDone
  <2> DEFINE seen == tasks[1].seen \cup SampledFrom
             roll == [tasks[1] EXCEPT !.seen = seen]
  <2>1. UNCHANGED <<pc, phase, requested, last_loaded, delivered>> /\ tasks # <<>>
    BY <1>25 DEF InferTaskDone, TypeInv
  <2>2. ~Starting /\ ~Starting' BY <2>1 DEF OutstandingInv, StartInv, Starting
  <2>3. TrainCount' = TrainCount BY <2>1, <2>2 DEF DelayInv
  <2>4. 1 \in 1..Len(tasks) /\ tasks[1] \in Rollouts BY <1>17, <2>1, TailFacts
  <2>5. seen \in SUBSET Versions BY <1>16, <2>4, SampledFromType DEF Rollouts
  <2>6. /\ roll \in Rollouts /\ roll.policy = last_loaded /\ roll.dest \in Phases
    BY <2>4, <2>5 DEF Rollouts, PolicyInv
  <2> HIDE DEF seen, roll
  <2>7. queue' = [queue EXCEPT ![roll.dest] = Append(@, roll)]
    BY <1>25 DEF InferTaskDone, roll, seen
  <2>8. P' = P
    <3>1. CASE roll.dest = "train"
      <4>1. queue'["train"] = Append(queue["train"], roll)
        BY <1>16, <2>7, <3>1 DEF TypeOK, Phases
      <4>2. /\ queue'["train"] # <<>> /\ queue'["train"][L + 1] = roll
            /\ \A i \in 1..L : queue'["train"][i] = queue["train"][i]
        BY <1>17, <2>6, <4>1, AppendFacts
      <4>3. CASE queue["train"] = <<>>
        <5>1. L = 0 BY <4>3
        <5> QED BY <2>1, <2>6, <4>2, <4>3, <5>1
      <4>4. CASE queue["train"] # <<>>
        <5>1. 1 \in 1..L BY <1>17, <4>4, LenFacts
        <5> QED BY <4>2, <4>4, <5>1
      <4> QED BY <4>3, <4>4
    <3>2. CASE roll.dest = "eval"
      <4>1. queue'["train"] = queue["train"] BY <1>16, <2>7, <3>2 DEF TypeOK, Phases
      <4> QED BY <2>1, <4>1
    <3> QED BY <2>6, <3>1, <3>2 DEF Phases
  <2>9. R' = R BY <2>1
  <2>10. slot' = slot
    <3> HIDE DEF P, R
    <3> QED BY <1>18, <1>19, <2>2, <2>3, <2>8, <2>9
  <2> QED BY <2>1, <2>10 DEF AsRequest, slot
<1>26. CASE InferTaskRaises BY <1>16, <1>26 DEF InferTaskRaises, TypeOK
<1>27. CASE UNCHANGED vars
  BY <1>27 DEF vars, Oldest, AsRequest
<1> QED BY <1>1, <1>2, <1>3, <1>4, <1>5, <1>6, <1>7, <1>8, <1>9, <1>10, <1>11, <1>12,
           <1>13, <1>14, <1>15, <1>20, <1>21, <1>22, <1>23, <1>24, <1>25, <1>26, <1>27
        DEF Next, MainThread, Worker

(* Without evaluation before training and without raising tasks, the       *)
(* trainer with its executor, queues, weight updates, resampling and       *)
(* evaluations implements the one-slot delay line: each generation trains  *)
(* on the rollout the one before asked for, none twice and none skipped.   *)
THEOREM TrainsOneStepOffPolicy ==
    ASSUME ~EvalOnStart, MaxFailures = 0
    PROVE  Spec => RefinesOneStepOffPolicy
<1> DEFINE Inv == IInv /\ StalenessInv /\ BoundInv /\ DelayInv /\ SlotInv
<1>1. Init => DelayLine!Init
  <2> SUFFICES ASSUME Init PROVE DelayLine!Init OBVIOUS
  <2>1. Oldest = NoRollout /\ delivered["train"] = NoRollout BY DEF Init, Oldest, Phases
  <2> QED BY <2>1 DEF DelayLine!Init, DelayLine!Empty, AsRequest
<1>2. Init => BoundInv /\ DelayInv
  <2> SUFFICES ASSUME Init PROVE BoundInv /\ DelayInv OBVIOUS
  <2>1. /\ pc = "begin" /\ tasks = <<>> /\ queue["train"] = <<>> /\ requested["train"] = 0
        /\ global_step = 0 /\ last_loaded = -1
    BY DEF Init, Phases
  <2>2. Len(tasks) = 0 /\ Len(queue["train"]) = 0 BY <2>1
  <2>3. TasksFor("train") /\ TrainTasks = 0 BY <2>2 DEF TasksFor, TrainTasks
  <2>4. Starting BY <2>1 DEF Starting
  <2> QED BY <2>1, <2>2, <2>3, <2>4, ConstantsAssumption DEF BoundInv, DelayInv
<1>3. /\ IInv /\ IInv' /\ BoundInv /\ [Next]_vars => BoundInv'
      /\ IInv /\ IInv' /\ BoundInv /\ DelayInv /\ [Next]_vars => DelayInv'
      /\ IInv /\ DelayInv => SlotInv
  BY BoundStep, DelayStep, SlotFacts DEF IInv
<1>4. Inv /\ Inv' /\ [Next]_vars
        => [DelayLine!Next]_<<AsRequest(Oldest), AsRequest(delivered["train"])>>
  BY DelayLineStep DEF IInv
<1>5. Spec => [](IInv /\ StalenessInv) BY StalenessInvariance
<1>6. Spec => []Inv
  <2>1. Spec => [](IInv /\ BoundInv) BY <1>2, <1>3, <1>5, PTL DEF Spec
  <2>2. Spec => [](IInv /\ DelayInv) BY <1>2, <1>3, <2>1, PTL DEF Spec
  <2> QED BY <1>3, <1>5, <2>1, <2>2, PTL
<1> HIDE DEF Inv
<1> QED BY <1>1, <1>4, <1>6, PTL DEF Spec, RefinesOneStepOffPolicy, DelayLine!Spec
=============================================================================
