------------------------ MODULE ColocateRolloutProofs ------------------------
(***************************************************************************)
(* Machine-checked proofs about ColocateRollout, for every set of command  *)
(* lines, any number of processes, tensor-parallel groups and parameter    *)
(* groups.                                                                 *)
(***************************************************************************)
EXTENDS ColocateRolloutInvariant, BasicFacts, TLAPS

(* The state a process keeps about its engine is of the right type.        *)
LEMMA TypeInvariance == Spec => []EngineType
<1>1. Init => EngineType
  BY ColocateAssumption DEF Init, EngineType, Disk, Lost, Tags
<1>2. EngineType /\ [Next]_vars => EngineType'
  <2> SUFFICES ASSUME EngineType, [Next]_vars PROVE EngineType'
    OBVIOUS
  <2> USE DEF EngineType, syncVars, turnVars
  <2>0. args' = args => Ranks' = Ranks BY DEF Ranks
  <2>1. CASE TrainStep
    <3>1. device' \in [Ranks -> [model : {"gpu", "cpu"}, optimizer : {"gpu", "cpu", "none"}]]
      <4>1. ASSUME NEW r \in Ranks
            PROVE  [device[r] EXCEPT !.optimizer = "gpu"]
                      \in [model : {"gpu", "cpu"}, optimizer : {"gpu", "cpu", "none"}]
        <5>1. device[r] \in [model : {"gpu", "cpu"}, optimizer : {"gpu", "cpu", "none"}]
          OBVIOUS
        <5> QED BY <5>1
      <4>2. device' = [r \in Ranks |-> [device[r] EXCEPT !.optimizer = "gpu"]]
        BY <2>1 DEF TrainStep
      <4> HIDE DEF EngineType
      <4> QED BY <4>1, <4>2
    <3>2. global_step' \in Nat BY <2>1 DEF TrainStep
    <3> QED BY <2>0, <2>1, <3>1, <3>2 DEF TrainStep
  <2>2. CASE Generate BY <2>0, <2>2 DEF Generate
  <2>3. CASE Gather BY <2>0, <2>3 DEF Gather
  <2>4. ASSUME NEW S \in SUBSET Ranks, MoveGroup(S) PROVE EngineType'
    <3>1. MovedWeights \in Int BY DEF MovedWeights, Disk
    <3>2. weights' \in [Ranks -> [1..Groups -> Int]] BY <2>4, <3>1 DEF MoveGroup
    <3>3. group' \in [Ranks -> 1..(Groups + 1)]
      BY <2>4, ColocateAssumption DEF MoveGroup
    <3> QED BY <2>0, <2>4, <3>2, <3>3 DEF MoveGroup
  <2>5. ASSUME NEW S \in SUBSET Ranks, MoveAdapter(S) PROVE EngineType'
    BY <2>0, <2>5 DEF MoveAdapter
  <2>6. ASSUME NEW r \in Ranks, Infer(r) PROVE EngineType'
    BY <2>0, <2>6 DEF Infer
  <2>7. ASSUME NEW r \in Ranks, WakeWeights(r) PROVE EngineType'
    <3>1. asleep' \in [Ranks -> SUBSET Tags] BY <2>7 DEF WakeWeights
    <3>2. group' \in [Ranks -> 1..(Groups + 1)] BY <2>7, ColocateAssumption DEF WakeWeights
    <3> QED BY <2>0, <2>7, <3>1, <3>2 DEF WakeWeights
  <2>8. ASSUME NEW r \in Ranks, MoveEnd(r) PROVE EngineType'
    <3>1. base_sync_done' \in [Ranks -> BOOLEAN] BY <2>8 DEF MoveEnd
    <3>2. last_loaded_step' \in [Ranks -> Int] /\ prefixes' \in [Ranks -> SUBSET Nat]
      <4>1. CASE UNCHANGED <<last_loaded_step, prefixes>> BY <4>1
      <4>2. CASE Moved(r) BY <4>2 DEF Moved
      <4> QED BY <2>8, <4>1, <4>2 DEF MoveEnd
    <3>3. pc' \in [Ranks -> {"train", "wake", "move", "adapter", "reset", "offload", "cache",
                             "rollout", "gather", "turn", "sleep", "reload"}]
      BY <2>8 DEF MoveEnd
    <3>4. UNCHANGED <<args, global_step, group, weights, lora, asleep, device>> BY <2>8 DEF MoveEnd
    <3> QED BY <2>0, <3>1, <3>2, <3>3, <3>4
  <2>9. ASSUME NEW r \in Ranks, AdapterEnd(r) PROVE EngineType'
    BY <2>0, <2>9 DEF AdapterEnd, Moved
  <2>10. ASSUME NEW r \in Ranks, Offload(r) PROVE EngineType'
    <3>1. Placed(device[r], "cpu") \in [model : {"gpu", "cpu"}, optimizer : {"gpu", "cpu", "none"}]
      BY DEF Placed
    <3> QED BY <2>0, <2>10, <3>1 DEF Offload
  <2>11. ASSUME NEW r \in Ranks, WakeCache(r) PROVE EngineType'
    BY <2>0, <2>11 DEF WakeCache
  <2>12. ASSUME NEW r \in Ranks, Turn(r) PROVE EngineType'
    BY <2>0, <2>12 DEF Turn
  <2>13. ASSUME NEW r \in Ranks, Sleep(r) PROVE EngineType'
    <3>1. weights' \in [Ranks -> [1..Groups -> Int]] /\ lora' \in [Ranks -> Int]
      <4>1. CASE UNCHANGED <<weights, lora>> BY <4>1
      <4>2. CASE /\ weights' = [weights EXCEPT ![r] = [g \in 1..Groups |-> Lost]]
                 /\ lora' = [lora EXCEPT ![r] = Lost]
        BY <4>2 DEF Lost
      <4> QED BY <2>13, <4>1, <4>2 DEF Sleep
    <3>2. asleep' \in [Ranks -> SUBSET Tags] /\ prefixes' \in [Ranks -> SUBSET Nat]
      <4>1. CASE UNCHANGED <<asleep, prefixes>> BY <4>1
      <4>2. CASE /\ prefixes' = [prefixes EXCEPT ![r] = {}]
                 /\ asleep' = [asleep EXCEPT ![r] = Tags]
        BY <4>2
      <4> QED BY <2>13, <4>1, <4>2 DEF Sleep
    <3>3. pc' \in [Ranks -> {"train", "wake", "move", "adapter", "reset", "offload", "cache",
                             "rollout", "gather", "turn", "sleep", "reload"}]
      BY <2>13 DEF Sleep
    <3>4. UNCHANGED <<args, global_step, last_loaded_step, base_sync_done, group, device>>
      BY <2>13 DEF Sleep
    <3> QED BY <2>0, <3>1, <3>2, <3>3, <3>4
  <2>14. ASSUME NEW r \in Ranks, Reload(r) PROVE EngineType'
    <3>1. Placed(device[r], "gpu") \in [model : {"gpu", "cpu"}, optimizer : {"gpu", "cpu", "none"}]
      BY DEF Placed
    <3> QED BY <2>0, <2>14, <3>1 DEF Reload
  <2>15. CASE UNCHANGED vars BY <2>0, <2>15 DEF vars
  <2>16. \A r \in Ranks : MoveTeam(r) \in SUBSET Ranks BY DEF MoveTeam
  <2> QED BY <2>1, <2>2, <2>3, <2>4, <2>5, <2>6, <2>7, <2>8, <2>9, <2>10, <2>11, <2>12,
             <2>13, <2>14, <2>15, <2>16 DEF Next, Collective, Local
<1> QED BY <1>1, <1>2, PTL DEF Spec

(* A step that leaves a process and its engine alone.                      *)
LEMMA EngineFrame ==
    ASSUME NEW r \in Ranks, WeightsInv(r), AwakeInv(r), DeviceInv(r), UNCHANGED <<args, global_step>>,
           pc'[r] = pc[r], last_loaded_step'[r] = last_loaded_step[r],
           base_sync_done'[r] = base_sync_done[r], group'[r] = group[r],
           weights'[r] = weights[r], lora'[r] = lora[r], asleep'[r] = asleep[r],
           prefixes'[r] = prefixes[r], device'[r] = device[r]
    PROVE  WeightsInv(r)' /\ AwakeInv(r)' /\ DeviceInv(r)'
<1>1. WeightsInv(r)'
  BY DEF WeightsInv, Holds, AllGroups, MovedWeights, rollout_enable_lora, is_peft
<1>2. AwakeInv(r)' BY DEF AwakeInv
<1>3. DeviceInv(r)' BY DEF DeviceInv
<1> QED BY <1>1, <1>2, <1>3

(* Every action keeps what the engine of every process holds, how much of  *)
(* it is awake, and where the trainer's state is.                          *)
LEMMA EngineStep ==
    ASSUME EngineType, EngineInv, [Next]_vars
    PROVE  EngineInv'
<1> USE DEF syncVars, turnVars
<1>0. args' = args /\ Ranks' = Ranks /\ (rollout_enable_lora' <=> rollout_enable_lora)
  <2>1. args' = args
    BY DEF Next, TrainStep, Generate, Collective, Gather, MoveGroup, MoveAdapter, Infer, Local,
           WakeWeights, MoveEnd, AdapterEnd, Offload, WakeCache, Turn, Sleep, Reload, vars
  <2> QED BY <2>1 DEF Ranks, rollout_enable_lora, is_peft
<1>t. /\ args \in Args /\ args.sleep_level \in Nat /\ global_step \in Nat /\ Groups \in Nat
      /\ pc \in [Ranks -> {"train", "wake", "move", "adapter", "reset", "offload", "cache",
                           "rollout", "gather", "turn", "sleep", "reload"}]
      /\ last_loaded_step \in [Ranks -> Int] /\ base_sync_done \in [Ranks -> BOOLEAN]
      /\ group \in [Ranks -> 1..(Groups + 1)]
      /\ weights \in [Ranks -> [1..Groups -> Int]] /\ lora \in [Ranks -> Int]
      /\ asleep \in [Ranks -> SUBSET Tags] /\ prefixes \in [Ranks -> SUBSET Nat]
      /\ device \in [Ranks -> [model : {"gpu", "cpu"}, optimizer : {"gpu", "cpu", "none"}]]
  BY ColocateAssumption DEF EngineType
<1> DEFINE At(q) == WeightsInv(q) /\ AwakeInv(q) /\ DeviceInv(q)
<1>a. SUFFICES ASSUME NEW q \in Ranks PROVE At(q)'
  BY <1>0 DEF EngineInv
<1>b. At(q) BY DEF EngineInv
<1> USE DEF Outside, Moving, Loaded
<1>1. CASE TrainStep
  <2>1. /\ pc[q] = "train" /\ pc' = pc /\ UNCHANGED syncVars /\ asleep' = asleep /\ prefixes' = prefixes
        /\ device'[q] = [device[q] EXCEPT !.optimizer = "gpu"]
    BY <1>1 DEF TrainStep
  <2>2. WeightsInv(q)' BY <1>0, <1>b, <2>1 DEF WeightsInv, Holds, AllGroups
  <2>3. AwakeInv(q)' BY <1>0, <1>b, <2>1 DEF AwakeInv
  <2>4. device'[q].model = device[q].model /\ device'[q].optimizer = "gpu" BY <1>t, <2>1
  <2>5. DeviceInv(q)' BY <1>0, <1>b, <2>1, <2>4 DEF DeviceInv
  <2> QED BY <2>2, <2>3, <2>5
<1>2. CASE Generate
  <2>1. /\ pc[q] = "train" /\ pc'[q] = "wake" /\ UNCHANGED <<args, global_step, syncVars, asleep, prefixes, device>>
    BY <1>2 DEF Generate
  <2>2. WeightsInv(q)' BY <1>0, <1>b, <2>1 DEF WeightsInv, Holds, AllGroups
  <2>3. AwakeInv(q)' BY <1>0, <1>b, <2>1 DEF AwakeInv
  <2>4. DeviceInv(q)' BY <1>0, <1>b, <2>1 DEF DeviceInv
  <2> QED BY <2>2, <2>3, <2>4
<1>3. CASE Gather
  <2>1. /\ pc[q] = "gather" /\ pc'[q] \in {"turn", "sleep"}
        /\ UNCHANGED <<args, global_step, syncVars, asleep, prefixes, device>>
    BY <1>3 DEF Gather
  <2>2. WeightsInv(q)' BY <1>0, <1>b, <2>1 DEF WeightsInv, Holds, AllGroups
  <2>3. AwakeInv(q)' BY <1>0, <1>b, <2>1 DEF AwakeInv
  <2>4. DeviceInv(q)' BY <1>0, <1>b, <2>1 DEF DeviceInv
  <2> QED BY <2>2, <2>3, <2>4
<1>4. ASSUME NEW S \in SUBSET Ranks, MoveGroup(S) PROVE At(q)'
  <2>1. UNCHANGED <<args, global_step, pc, last_loaded_step, base_sync_done, lora, asleep,
                    prefixes, device>>
    BY <1>4 DEF MoveGroup
  <2>2. CASE q \notin S
    <3>1. weights'[q] = weights[q] /\ group'[q] = group[q] BY <1>4, <2>2 DEF MoveGroup
    <3> QED BY <1>b, <2>1, <3>1, EngineFrame
  <2>3. CASE q \in S
    <3>1. /\ pc[q] = "move" /\ group[q] \in 1..Groups /\ group'[q] = group[q] + 1
          /\ weights'[q] = [weights[q] EXCEPT ![group[q]] = MovedWeights]
      BY <1>4, <1>t, <2>3 DEF MoveGroup
    <3>2. weights[q] \in [1..Groups -> Int] BY <1>t
    <3>3. MovedWeights' = MovedWeights BY <1>0, <2>1 DEF MovedWeights, is_peft, rollout_enable_lora
    <3>4. ASSUME NEW g \in 1..(group'[q] - 1) PROVE weights'[q][g] = MovedWeights
      <4>0. Groups \in Nat BY ColocateAssumption
      <4>1. g \in 1..Groups /\ (g = group[q] \/ g \in 1..(group[q] - 1))
        <5>1. group'[q] - 1 = group[q] BY <3>1, <4>0
        <5>2. g \in 1..group[q] BY <5>1
        <5> QED BY <3>1, <4>0, <5>2
      <4>2. \A h \in 1..(group[q] - 1) : weights[q][h] = MovedWeights BY <1>b, <3>1 DEF WeightsInv
      <4> QED BY <3>1, <3>2, <4>1, <4>2
    <3>5. (rollout_enable_lora /\ base_sync_done[q] /\ args.sleep_level # 2) => AllGroups(q, Disk)'
      <4> SUFFICES ASSUME rollout_enable_lora, base_sync_done[q], args.sleep_level # 2
                   PROVE  \A g \in 1..Groups : weights'[q][g] = Disk
        BY DEF AllGroups
      <4>1. MovedWeights = Disk BY DEF MovedWeights, rollout_enable_lora
      <4>2. \A g \in 1..Groups : weights[q][g] = Disk BY <1>b DEF WeightsInv, AllGroups
      <4> QED BY <3>1, <3>2, <4>1, <4>2
    <3>6. WeightsInv(q)'
      BY <1>0, <1>b, <2>1, <3>1, <3>3, <3>4, <3>5 DEF WeightsInv
    <3>7. AwakeInv(q)' /\ DeviceInv(q)' BY <1>b, <2>1 DEF AwakeInv, DeviceInv
    <3> QED BY <3>6, <3>7
  <2> QED BY <2>2, <2>3
<1>5. ASSUME NEW S \in SUBSET Ranks, MoveAdapter(S) PROVE At(q)'
  <2>1. UNCHANGED <<args, global_step, last_loaded_step, base_sync_done, group, weights, asleep,
                    prefixes, device>>
    BY <1>5 DEF MoveAdapter
  <2>2. CASE q \notin S
    <3>1. lora'[q] = lora[q] /\ pc'[q] = pc[q] BY <1>5, <2>2 DEF MoveAdapter
    <3> QED BY <1>b, <2>1, <3>1, EngineFrame
  <2>3. CASE q \in S
    <3>1. pc[q] = "adapter" /\ pc'[q] = "reset" /\ lora'[q] = global_step
      BY <1>5, <2>3 DEF MoveAdapter
    <3>2. WeightsInv(q)' BY <1>0, <1>b, <2>1, <3>1 DEF WeightsInv, AllGroups
    <3>3. AwakeInv(q)' /\ DeviceInv(q)' BY <1>b, <2>1, <3>1 DEF AwakeInv, DeviceInv
    <3> QED BY <3>2, <3>3
  <2> QED BY <2>2, <2>3
<1>6. ASSUME NEW r \in Ranks, Infer(r) PROVE At(q)'
  <2>1. UNCHANGED <<args, global_step, syncVars, asleep, device>> BY <1>6 DEF Infer
  <2>2. CASE q \notin TpGroup(r)
    <3>1. prefixes'[q] = prefixes[q] /\ pc'[q] = pc[q] BY <1>6, <2>2 DEF Infer
    <3> QED BY <1>b, <2>1, <3>1, EngineFrame
  <2>3. CASE q \in TpGroup(r)
    <3>1. /\ pc[q] = "rollout" /\ pc'[q] \in {"gather", "sleep"}
          /\ prefixes'[q] = prefixes[q] \cup {global_step}
      BY <1>6, <2>3 DEF Infer
    <3>2. WeightsInv(q)' BY <1>0, <1>b, <2>1, <3>1 DEF WeightsInv, AllGroups, Holds
    <3>3. AwakeInv(q)' /\ DeviceInv(q)' BY <1>b, <2>1, <3>1 DEF AwakeInv, DeviceInv
    <3> QED BY <3>2, <3>3
  <2> QED BY <2>2, <2>3
<1>7. ASSUME NEW r \in Ranks, WakeWeights(r) PROVE At(q)'
  <2>1. UNCHANGED <<args, global_step, last_loaded_step, base_sync_done, weights, lora, prefixes, device>>
    BY <1>7 DEF WakeWeights
  <2>2. CASE q # r
    <3>1. asleep'[q] = asleep[q] /\ pc'[q] = pc[q] /\ group'[q] = group[q]
      BY <1>7, <1>t, <2>2 DEF WakeWeights
    <3> QED BY <1>b, <2>1, <3>1, EngineFrame
  <2>3. CASE q = r
    <3>1. /\ pc[q] = "wake" /\ group'[q] = 1
          /\ pc'[q] = IF ~MoveNeeded(q) THEN "offload" ELSE IF FullMove(q) THEN "move" ELSE "adapter"
          /\ asleep'[q] = IF args.tags THEN asleep[q] \ {"weights"} ELSE {}
      BY <1>7, <1>t, <2>3 DEF WakeWeights
    <3>2. WeightsInv(q)'
      <4>1. CASE pc'[q] = "offload"
        <5>1. last_loaded_step[q] = global_step /\ args.sleep_level # 2
          BY <3>1, <4>1 DEF MoveNeeded
        <5>2. Holds(q, global_step) /\ prefixes[q] \subseteq {global_step}
          BY <1>b, <1>t, <3>1, <5>1 DEF WeightsInv
        <5> QED BY <1>0, <1>b, <2>1, <4>1, <5>1, <5>2 DEF WeightsInv, Holds, AllGroups
      <4>2. CASE pc'[q] = "move"
        <5>1. group'[q] - 1 = 0 BY <3>1
        <5> QED BY <1>0, <1>b, <2>1, <4>2, <5>1 DEF WeightsInv, AllGroups
      <4>3. CASE pc'[q] = "adapter"
        <5>1. rollout_enable_lora /\ base_sync_done[q] /\ args.sleep_level # 2
          BY <3>1, <4>3 DEF FullMove
        <5> QED BY <1>0, <1>b, <2>1, <4>3, <5>1 DEF WeightsInv, AllGroups
      <4> QED BY <3>1, <4>1, <4>2, <4>3
    <3>3. AwakeInv(q)'
      <4>1. asleep[q] = IF args.sleep_level = 0 THEN {} ELSE Tags BY <1>b, <3>1 DEF AwakeInv
      <4>2. Tags \ {"weights"} = {"kv_cache"} BY DEF Tags
      <4> QED BY <1>0, <3>1, <4>1, <4>2 DEF AwakeInv
    <3>4. DeviceInv(q)' BY <1>b, <2>1, <3>1 DEF DeviceInv
    <3> QED BY <3>2, <3>3, <3>4
  <2> QED BY <2>2, <2>3
<1>8. ASSUME NEW r \in Ranks, MoveEnd(r) PROVE At(q)'
  <2>1. UNCHANGED <<args, global_step, group, weights, lora, asleep, device>> BY <1>8 DEF MoveEnd
  <2>2. CASE q # r
    <3>1. /\ pc'[q] = pc[q] /\ base_sync_done'[q] = base_sync_done[q]
          /\ last_loaded_step'[q] = last_loaded_step[q] /\ prefixes'[q] = prefixes[q]
      BY <1>8, <1>t, <2>2 DEF MoveEnd, Moved
    <3> QED BY <1>b, <2>1, <3>1, EngineFrame
  <2>3. CASE q = r
    <3>1. pc[q] = "move" /\ AllGroups(q, MovedWeights)
      <4>1. pc[q] = "move" /\ group[q] > Groups BY <1>8, <2>3 DEF MoveEnd
      <4>2. group[q] - 1 = Groups
        <5>1. group[q] \in 1..(Groups + 1) /\ Groups \in Nat BY <1>t
        <5> QED BY <4>1, <5>1
      <4> QED BY <1>b, <4>1, <4>2 DEF WeightsInv, AllGroups
    <3>2. \/ rollout_enable_lora /\ pc'[q] = "adapter"
          \/ /\ ~rollout_enable_lora /\ pc'[q] = "offload"
             /\ last_loaded_step'[q] = global_step /\ prefixes'[q] = {}
      BY <1>8, <1>t, <2>3 DEF MoveEnd, Moved
    <3>3. /\ rollout_enable_lora => MovedWeights = Disk
          /\ ~rollout_enable_lora => MovedWeights = global_step
      BY DEF MovedWeights, rollout_enable_lora
    <3>4. WeightsInv(q)'
      BY <1>0, <1>b, <2>1, <3>1, <3>2, <3>3 DEF WeightsInv, AllGroups, Holds
    <3>5. AwakeInv(q)' BY <1>0, <1>b, <2>1, <3>1, <3>2 DEF AwakeInv
    <3>6. DeviceInv(q)' BY <1>0, <1>b, <2>1, <3>1, <3>2 DEF DeviceInv
    <3> QED BY <3>4, <3>5, <3>6
  <2> QED BY <2>2, <2>3
<1>9. ASSUME NEW r \in Ranks, AdapterEnd(r) PROVE At(q)'
  <2>1. UNCHANGED <<args, global_step, base_sync_done, group, weights, lora, asleep, device>>
    BY <1>9 DEF AdapterEnd
  <2>2. CASE q # r
    <3>1. pc'[q] = pc[q] /\ last_loaded_step'[q] = last_loaded_step[q] /\ prefixes'[q] = prefixes[q]
      BY <1>9, <1>t, <2>2 DEF AdapterEnd, Moved
    <3> QED BY <1>b, <2>1, <3>1, EngineFrame
  <2>3. CASE q = r
    <3>1. /\ pc[q] = "reset" /\ pc'[q] = "offload"
          /\ last_loaded_step'[q] = global_step /\ prefixes'[q] = {}
      BY <1>9, <1>t, <2>3 DEF AdapterEnd, Moved
    <3>2. WeightsInv(q)' BY <1>0, <1>b, <2>1, <3>1 DEF WeightsInv, AllGroups, Holds
    <3>3. AwakeInv(q)' /\ DeviceInv(q)' BY <1>0, <1>b, <2>1, <3>1 DEF AwakeInv, DeviceInv
    <3> QED BY <3>2, <3>3
  <2> QED BY <2>2, <2>3
<1>10. ASSUME NEW r \in Ranks, Offload(r) PROVE At(q)'
  <2>1. UNCHANGED <<args, global_step, syncVars, asleep, prefixes>> BY <1>10 DEF Offload
  <2>2. CASE q # r
    <3>1. pc'[q] = pc[q] /\ device'[q] = device[q] BY <1>10, <1>t, <2>2 DEF Offload
    <3> QED BY <1>b, <2>1, <3>1, EngineFrame
  <2>3. CASE q = r
    <3>1. pc[q] = "offload" /\ pc'[q] = "cache" /\ device'[q] = Placed(device[q], "cpu")
      BY <1>10, <1>t, <2>3 DEF Offload
    <3>2. WeightsInv(q)' BY <1>0, <1>b, <2>1, <3>1 DEF WeightsInv, AllGroups, Holds
    <3>3. AwakeInv(q)' BY <1>0, <1>b, <2>1, <3>1 DEF AwakeInv
    <3>4. device[q].model = "gpu" /\ device[q].optimizer # "cpu" BY <1>b, <3>1 DEF DeviceInv
    <3>5. DeviceInv(q)' BY <1>0, <3>1, <3>4 DEF DeviceInv, Placed
    <3> QED BY <3>2, <3>3, <3>5
  <2> QED BY <2>2, <2>3
<1>11. ASSUME NEW r \in Ranks, WakeCache(r) PROVE At(q)'
  <2>1. UNCHANGED <<args, global_step, syncVars, prefixes, device>> BY <1>11 DEF WakeCache
  <2>2. CASE q # r
    <3>1. pc'[q] = pc[q] /\ asleep'[q] = asleep[q] BY <1>11, <1>t, <2>2 DEF WakeCache
    <3> QED BY <1>b, <2>1, <3>1, EngineFrame
  <2>3. CASE q = r
    <3>1. /\ pc[q] = "cache" /\ pc'[q] = "rollout"
          /\ asleep'[q] = IF args.tags THEN asleep[q] \ {"kv_cache"} ELSE asleep[q]
      BY <1>11, <1>t, <2>3 DEF WakeCache
    <3>2. WeightsInv(q)' BY <1>0, <1>b, <2>1, <3>1 DEF WeightsInv, AllGroups, Holds
    <3>3. AwakeInv(q)'
      <4>1. asleep[q] = IF args.sleep_level # 0 /\ args.tags THEN {"kv_cache"} ELSE {}
        BY <1>b, <3>1 DEF AwakeInv
      <4>2. asleep'[q] = {} BY <3>1, <4>1
      <4> QED BY <1>0, <3>1, <4>2 DEF AwakeInv
    <3>4. DeviceInv(q)' BY <1>b, <2>1, <3>1 DEF DeviceInv
    <3> QED BY <3>2, <3>3, <3>4
  <2> QED BY <2>2, <2>3
<1>12. ASSUME NEW r \in Ranks, Turn(r) PROVE At(q)'
  <2>1. UNCHANGED <<args, global_step, syncVars, asleep, prefixes, device>> BY <1>12 DEF Turn
  <2>2. CASE q # r
    <3>1. pc'[q] = pc[q] BY <1>12, <1>t, <2>2 DEF Turn
    <3> QED BY <1>b, <2>1, <3>1, EngineFrame
  <2>3. CASE q = r
    <3>1. pc[q] = "turn" /\ pc'[q] = "rollout" BY <1>12, <1>t, <2>3 DEF Turn
    <3>2. WeightsInv(q)' BY <1>0, <1>b, <2>1, <3>1 DEF WeightsInv, AllGroups, Holds
    <3>3. AwakeInv(q)' /\ DeviceInv(q)' BY <1>b, <2>1, <3>1 DEF AwakeInv, DeviceInv
    <3> QED BY <3>2, <3>3
  <2> QED BY <2>2, <2>3
<1>13. ASSUME NEW r \in Ranks, Sleep(r) PROVE At(q)'
  <2>1. UNCHANGED <<args, global_step, last_loaded_step, base_sync_done, group, device>> BY <1>13 DEF Sleep
  <2>2. CASE q # r
    <3>1. /\ pc'[q] = pc[q] /\ asleep'[q] = asleep[q] /\ prefixes'[q] = prefixes[q]
          /\ weights'[q] = weights[q] /\ lora'[q] = lora[q]
      BY <1>13, <1>t, <2>2 DEF Sleep
    <3> QED BY <1>b, <2>1, <3>1, EngineFrame
  <2>3. CASE q = r
    <3>1. /\ pc[q] = "sleep" /\ pc'[q] = "reload"
          /\ prefixes'[q] = prefixes[q] \/ prefixes'[q] = {}
          /\ asleep'[q] = IF args.sleep_level = 0 THEN asleep[q] ELSE Tags
          /\ args.sleep_level # 2 => weights'[q] = weights[q] /\ lora'[q] = lora[q]
          /\ args.sleep_level = 2 => lora'[q] = Lost
      BY <1>13, <1>t, <2>3 DEF Sleep
    <3>2. WeightsInv(q)'
      BY <1>0, <1>b, <1>t, <2>1, <3>1 DEF WeightsInv, AllGroups, Holds
    <3>3. AwakeInv(q)' BY <1>0, <1>b, <3>1 DEF AwakeInv
    <3>4. DeviceInv(q)' BY <1>b, <2>1, <3>1 DEF DeviceInv
    <3> QED BY <3>2, <3>3, <3>4
  <2> QED BY <2>2, <2>3
<1>14. ASSUME NEW r \in Ranks, Reload(r) PROVE At(q)'
  <2>1. UNCHANGED <<args, global_step, syncVars, asleep, prefixes>> BY <1>14 DEF Reload
  <2>2. CASE q # r
    <3>1. pc'[q] = pc[q] /\ device'[q] = device[q] BY <1>14, <1>t, <2>2 DEF Reload
    <3> QED BY <1>b, <2>1, <3>1, EngineFrame
  <2>3. CASE q = r
    <3>1. pc[q] = "reload" /\ pc'[q] = "train" /\ device'[q] = Placed(device[q], "gpu")
      BY <1>14, <1>t, <2>3 DEF Reload
    <3>2. WeightsInv(q)' BY <1>0, <1>b, <2>1, <3>1 DEF WeightsInv, AllGroups, Holds
    <3>3. AwakeInv(q)' BY <1>0, <1>b, <2>1, <3>1 DEF AwakeInv
    <3>4. /\ ~args.offload_model => device[q].model = "gpu"
          /\ ~args.offload_optimizer => device[q].optimizer # "cpu"
      BY <1>b, <3>1 DEF DeviceInv
    <3>5. device'[q].model = "gpu" /\ device'[q].optimizer # "cpu" BY <3>1, <3>4 DEF Placed
    <3>6. DeviceInv(q)' BY <3>1, <3>5 DEF DeviceInv
    <3> QED BY <3>2, <3>3, <3>6
  <2> QED BY <2>2, <2>3
<1>15. CASE UNCHANGED vars BY <1>15, <1>b, EngineFrame DEF vars
<1>16. \A r \in Ranks : MoveTeam(r) \in SUBSET Ranks BY DEF MoveTeam
<1> HIDE DEF At
<1> QED BY <1>1, <1>2, <1>3, <1>4, <1>5, <1>6, <1>7, <1>8, <1>9, <1>10, <1>11, <1>12,
           <1>13, <1>14, <1>15, <1>16 DEF Next, Collective, Local

(* The inductive invariant holds in every reachable state.                 *)
LEMMA Invariance == Spec => []IInv
<1>1. Init => EngineInv
  <2> SUFFICES ASSUME Init, NEW r \in Ranks PROVE WeightsInv(r) /\ AwakeInv(r) /\ DeviceInv(r)
    BY DEF EngineInv
  <2>1. WeightsInv(r) BY DEF Init, WeightsInv, Loaded, Outside
  <2>2. args.sleep_level = 0 <=> ~(args.sleep_level > 0)
    <3>1. args.sleep_level \in Nat BY ColocateAssumption DEF Init
    <3> QED BY <3>1
  <2>3. AwakeInv(r) /\ DeviceInv(r) BY <2>2 DEF Init, AwakeInv, DeviceInv
  <2> QED BY <2>1, <2>3
<1>2. EngineType /\ EngineInv /\ [Next]_vars => EngineInv' BY EngineStep
<1>3. EngineType /\ EngineInv => IInv BY DEF IInv
<1> QED BY <1>1, <1>2, <1>3, TypeInvariance, PTL DEF Spec

(* For every tuner, sleep level, wake-up mode, adapter setting and         *)
(* interleaving of the processes: what a process samples with is the       *)
(* policy of the current step in every parameter group, whether the move   *)
(* was whole, of the adapter only, or skipped; and no prefix cached under  *)
(* an earlier policy is used.                                              *)
THEOREM SamplesAreOnPolicy == Spec => []SampledByCurrentPolicy
<1>1. IInv => SampledByCurrentPolicy
  <2> SUFFICES ASSUME IInv, NEW r \in Ranks, pc[r] = "rollout"
               PROVE  /\ asleep[r] = {} /\ SamplesWith(r, global_step)
                      /\ prefixes[r] \subseteq {global_step}
    BY DEF SampledByCurrentPolicy
  <2>1. WeightsInv(r) /\ AwakeInv(r) BY DEF IInv, EngineInv
  <2>2. Holds(r, global_step) /\ prefixes[r] \subseteq {global_step} BY <2>1 DEF WeightsInv, Loaded
  <2>3. asleep[r] = {} BY <2>1 DEF AwakeInv, Moving
  <2> QED BY <2>2, <2>3 DEF SamplesWith, Holds, AllGroups
<1> QED BY <1>1, Invariance, PTL

(* While the cache of an engine that can wake in parts is allocated, all   *)
(* that is to be offloaded is off the device; a process that trains has    *)
(* its state back and its engine asleep.                                   *)
THEOREM DeviceHasOneTenant == Spec => []OneTenant
<1>1. IInv => OneTenant
  <2> SUFFICES ASSUME IInv, NEW r \in Ranks
               PROVE  /\ (args.tags /\ args.sleep_level > 0 /\ "kv_cache" \notin asleep[r]) =>
                           /\ args.offload_model => device[r].model = "cpu"
                           /\ args.offload_optimizer => device[r].optimizer # "gpu"
                      /\ pc[r] = "train" =>
                           /\ device[r].model = "gpu" /\ device[r].optimizer # "cpu"
                           /\ args.sleep_level > 0 => asleep[r] = Tags
    BY DEF OneTenant
  <2>1. AwakeInv(r) /\ DeviceInv(r) BY DEF IInv, EngineInv
  <2>2. args.sleep_level \in Nat /\ pc[r] \in {"train", "wake", "move", "adapter", "reset", "offload",
             "cache", "rollout", "gather", "turn", "sleep", "reload"}
    BY ColocateAssumption DEF IInv, EngineType
  <2>3. args.sleep_level > 0 <=> args.sleep_level # 0 BY <2>2
  <2>4. CASE args.tags /\ args.sleep_level > 0 /\ "kv_cache" \notin asleep[r]
    <3>1. pc[r] \in {"rollout", "gather", "turn", "sleep"}
      BY <2>1, <2>2, <2>3, <2>4 DEF AwakeInv, Moving, Tags
    <3> QED BY <2>1, <3>1 DEF DeviceInv
  <2>5. pc[r] = "train" => /\ device[r].model = "gpu" /\ device[r].optimizer # "cpu"
                           /\ args.sleep_level > 0 => asleep[r] = Tags
    BY <2>1, <2>3 DEF AwakeInv, DeviceInv
  <2> QED BY <2>4, <2>5
<1> QED BY <1>1, Invariance, PTL

-----------------------------------------------------------------------------
(* The dialogues.                                                          *)

(* A tensor-parallel group: tp processes from its first one on.            *)
LEMMA GroupFacts ==
    ASSUME args \in Args, NEW r \in Ranks
    PROVE  /\ r \in Nat /\ args.tp \in Nat \ {0} /\ FirstOfGroup(r) \in Nat
           /\ r - FirstOfGroup(r) \in 0..(args.tp - 1)
           /\ \A k \in 0..(args.tp - 1) :
                 /\ FirstOfGroup(r) + k \in Ranks
                 /\ (FirstOfGroup(r) + k) \div args.tp = r \div args.tp
<1> DEFINE b == args.tp
           n == args.num_processes
           j == r \div b
           m == n \div b
<1>1. b \in Nat \ {0} /\ n \in Nat \ {0} /\ n % b = 0 BY ColocateAssumption
<1>2. r \in Nat /\ r < n BY <1>1 DEF Ranks
<1> HIDE DEF b, n
<1>3. j \in Nat /\ j * b \in Nat /\ r % b \in Nat /\ r % b < b /\ r = j * b + (r % b)
  BY <1>1, <1>2, DivMod
<1>4. m \in Nat /\ m * b \in Nat /\ n = m * b
  <2>1. m \in Nat /\ m * b \in Nat /\ n = m * b + (n % b) BY <1>1, DivMod
  <2> QED BY <1>1, <2>1
<1> HIDE DEF j, m
<1>5. (j + 1) * b = j * b + b BY <1>1, <1>3
<1>6. j < m
  <2>1. m <= j => m * b <= j * b BY <1>1, <1>3, <1>4, TimesMonotone
  <2> QED BY <1>1, <1>2, <1>3, <1>4, <2>1
<1>7. (j + 1) * b <= m * b BY <1>1, <1>3, <1>4, <1>6, TimesMonotone
<1>8. FirstOfGroup(r) = j * b BY DEF FirstOfGroup, j, b
<1>9. r - j * b \in 0..(b - 1) BY <1>1, <1>3
<1>10. ASSUME NEW k \in 0..(b - 1) PROVE j * b + k \in Ranks /\ (j * b + k) \div b = j
  <2>1. j * b + k \in 0..(n - 1)
    BY <1>1, <1>3, <1>4, <1>5, <1>7
  <2>2. (j * b + k) \div b = j
    <3>1. k \in Nat /\ k < b BY <1>1
    <3> QED BY <1>1, <1>3, <3>1, DivUnique
  <2> QED BY <2>1, <2>2 DEF Ranks, n
<1> QED BY <1>1, <1>2, <1>3, <1>8, <1>9, <1>10 DEF b, j

(* What a process asks for.                                                *)
Request == [rank : Ranks, index : Inputs]

(* The requests of a process: one per dialogue that goes on.               *)
LEMMA RequestsFacts ==
    ASSUME DialogueType, NEW r \in Ranks
    PROVE  /\ Requests(r) \in Seq(Request) /\ Len(Requests(r)) = Len(index_to_infer[r])
           /\ Len(index_to_infer[r]) \in Nat
           /\ \A k \in 1..Len(index_to_infer[r]) :
                 Requests(r)[k] = [rank |-> r, index |-> index_to_infer[r][k]]
<1> DEFINE s == index_to_infer[r]
<1>1. s \in Seq(Inputs) BY DEF DialogueType
<1>2. Requests(r) = [k \in DOMAIN s |-> [rank |-> r, index |-> s[k]]] BY DEF Requests
<1> HIDE DEF s
<1>3. Len(s) \in Nat /\ DOMAIN s = 1..Len(s) /\ \A k \in 1..Len(s) : s[k] \in Inputs
  BY <1>1, LenProperties, LenFacts
<1>4. \A k \in 1..Len(s) : [rank |-> r, index |-> s[k]] \in Request BY <1>3 DEF Request
<1> HIDE DEF Request
<1>5. Requests(r) = [k \in 1..Len(s) |-> [rank |-> r, index |-> s[k]]] BY <1>2, <1>3
<1>6. Requests(r) \in Seq(Request) /\ Len(Requests(r)) = Len(s) BY <1>3, <1>4, <1>5
<1> QED BY <1>3, <1>5, <1>6 DEF s

(* One process more.                                                       *)
LEMMA GatheredStep ==
    ASSUME DialogueType, NEW first \in Nat, NEW n \in Nat, \A k \in 0..n : first + k \in Ranks
    PROVE  /\ Gathered(first, n) \in Seq(Request)
           /\ Gathered(first, n + 1) = Gathered(first, n) \o Requests(first + n)
<1> DEFINE s == [k \in 1..n |-> Requests(first + k - 1)]
           t == [k \in 1..(n + 1) |-> Requests(first + k - 1)]
           x == Requests(first + n)
<1>1. ASSUME NEW k \in 1..(n + 1) PROVE Requests(first + k - 1) \in Seq(Request)
  <2>1. k - 1 \in 0..n /\ first + k - 1 = first + (k - 1) OBVIOUS
  <2>2. first + (k - 1) \in Ranks BY <2>1
  <2> QED BY <2>1, <2>2, RequestsFacts
<1>2. x \in Seq(Request)
  <2>1. n \in 0..n OBVIOUS
  <2> QED BY <2>1, RequestsFacts
<1>3. s \in Seq(Seq(Request)) /\ Len(s) = n /\ t \in Seq(Seq(Request)) /\ Len(t) = n + 1
  <2> DEFINE B == Seq(Request)
  <2>1. \A k \in 1..(n + 1) : Requests(first + k - 1) \in B BY <1>1
  <2> HIDE DEF B
  <2>2. \A k \in 1..n : Requests(first + k - 1) \in B BY <2>1
  <2>3. s \in Seq(B) /\ Len(s) = n BY <2>2
  <2>4. t \in Seq(B) /\ Len(t) = n + 1 BY <2>1
  <2> QED BY <2>3, <2>4 DEF B
<1>4. /\ Append(s, x) \in Seq(Seq(Request)) /\ Len(Append(s, x)) = n + 1
      /\ Append(s, x)[n + 1] = x /\ \A k \in 1..n : Append(s, x)[k] = s[k]
  <2> HIDE DEF s, x
  <2> QED BY <1>2, <1>3, AppendFacts
<1>5. ASSUME NEW k \in 1..(n + 1) PROVE t[k] = Append(s, x)[k]
  <2>1. CASE k = n + 1
    <3>1. first + k - 1 = first + n BY <2>1
    <3> QED BY <1>4, <2>1, <3>1
  <2>2. CASE k # n + 1
    <3>1. k \in 1..n BY <2>2
    <3>2. s[k] = t[k] BY <3>1
    <3> QED BY <1>4, <3>1, <3>2
  <2> QED BY <2>1, <2>2
<1> DEFINE a == Append(s, x)
<1>6. t = a
  <2> HIDE DEF t, s, x
  <2>1. a \in Seq(Seq(Request)) /\ Len(a) = Len(t) /\ \A k \in 1..Len(t) : t[k] = a[k]
    BY <1>3, <1>4, <1>5
  <2> HIDE DEF a
  <2> QED BY <1>3, <2>1, SeqEqual
<1>7. Gathered(first, n) = FlattenSeq(s) /\ Gathered(first, n + 1) = FlattenSeq(t)
  BY DEF Gathered
<1> HIDE DEF s, t, x
<1>8. FlattenSeq(s) \in Seq(Request) /\ FlattenSeq(Append(s, x)) = FlattenSeq(s) \o x
  BY <1>2, <1>3, FlattenAppend
<1> QED BY <1>6, <1>7, <1>8 DEF x

(* No process.                                                             *)
LEMMA GatheredNone == ASSUME NEW first PROVE Gathered(first, 0) = <<>>
<1>1. [k \in 1..0 |-> Requests(first + k - 1)] = <<>> OBVIOUS
<1>2. FlattenSeq(<<>>) = <<>>
  <2>1. <<>> \in Seq(Seq({})) /\ <<>> \in Seq({}) OBVIOUS
  <2> QED BY <2>1, FlattenAppend
<1> QED BY <1>1, <1>2 DEF Gathered

(* The slice of each process in what is gathered of m of them.             *)
LEMMA GatheredSlice ==
    ASSUME DialogueType, \A r \in Ranks : Len(index_to_infer[r]) <= Rows, Rows \in Nat,
           NEW first \in Nat, NEW m \in Nat, \A k \in 0..(m - 1) : first + k \in Ranks
    PROVE  /\ Gathered(first, m) \in Seq(Request)
           /\ Len(Gathered(first, m)) \in Nat /\ Len(Gathered(first, m)) <= m * Rows
           /\ \A j \in 0..(m - 1) :
                 LET before == Len(Gathered(first, j))
                     own    == index_to_infer[first + j]
                 IN  /\ before \in Nat /\ before + Len(own) <= Len(Gathered(first, m))
                     /\ \A k \in 1..Len(own) : Gathered(first, m)[before + k]
                                                  = [rank |-> first + j, index |-> own[k]]
<1> DEFINE G(n) == Gathered(first, n)
           own(j) == index_to_infer[first + j]
           Here(j, n) == /\ Len(G(j)) \in Nat /\ Len(G(j)) + Len(own(j)) <= Len(G(n))
                         /\ \A k \in 1..Len(own(j)) : G(n)[Len(G(j)) + k]
                                                      = [rank |-> first + j, index |-> own(j)[k]]
           P(n) == /\ G(n) \in Seq(Request) /\ Len(G(n)) \in Nat /\ Len(G(n)) <= n * Rows
                   /\ \A j \in 0..(n - 1) : Here(j, n)
           A == {n \in Nat : (\A k \in 0..(n - 1) : first + k \in Ranks) => P(n)}
<1>1. 0 \in A
  <2>1. G(0) = <<>> BY GatheredNone
  <2>2. Len(<<>>) = 0 /\ <<>> \in Seq(Request) /\ 0 * Rows = 0 /\ 0..(0 - 1) = {} OBVIOUS
  <2>3. G(0) \in Seq(Request) /\ Len(G(0)) = 0 BY <2>1, <2>2, Zenon
  <2> HIDE DEF G, Here
  <2> QED BY <2>2, <2>3
<1>2. ASSUME NEW n \in Nat, n \in A PROVE n + 1 \in A
  <2>1. SUFFICES ASSUME \A k \in 0..n : first + k \in Ranks PROVE P(n + 1)
    <3>1. (n + 1) - 1 = n /\ n + 1 \in Nat OBVIOUS
    <3> HIDE DEF P
    <3> QED BY <3>1
  <2>2. P(n)
    <3>1. \A k \in 0..(n - 1) : first + k \in Ranks BY <2>1
    <3> HIDE DEF P
    <3> QED BY <1>2, <3>1
  <2> DEFINE x == Requests(first + n)
  <2>3. first + n \in Ranks
    <3>1. n \in 0..n OBVIOUS
    <3> QED BY <2>1, <3>1
  <2>4. G(n + 1) = G(n) \o x BY <2>1, GatheredStep
  <2>5. /\ x \in Seq(Request) /\ Len(x) = Len(own(n)) /\ Len(x) \in Nat
        /\ \A k \in 1..Len(own(n)) : x[k] = [rank |-> first + n, index |-> own(n)[k]]
    BY <2>3, RequestsFacts
  <2>6. Len(own(n)) <= Rows BY <2>3
  <2> DEFINE g == G(n)
             h == G(n + 1)
  <2>7. g \in Seq(Request) /\ Len(g) \in Nat /\ Len(g) <= n * Rows BY <2>2
  <2>7a. \A j \in 0..(n - 1) : Here(j, n) BY <2>2
  <2> HIDE DEF G, own, x
  <2>8. /\ h \in Seq(Request) /\ Len(h) = Len(g) + Len(x)
        /\ \A i \in 1..(Len(g) + Len(x)) : h[i] = IF i <= Len(g) THEN g[i] ELSE x[i - Len(g)]
    <3>1. g \in Seq(Request) /\ h = g \o x BY <2>4, <2>7
    <3> HIDE DEF g, h, Request
    <3>2. x \in Seq(Request) BY <2>5
    <3>3. g \o x \in Seq(Request) /\ Len(g \o x) = Len(g) + Len(x)
      BY <3>1, <3>2, ConcatProperties
    <3>4. \A i \in 1..(Len(g) + Len(x)) :
            (g \o x)[i] = IF i <= Len(g) THEN g[i] ELSE x[i - Len(g)]
      BY <3>1, <3>2, ConcatProperties
    <3> QED BY <3>1, <3>3, <3>4
  <2>9. n * Rows \in Nat /\ (n + 1) * Rows = n * Rows + Rows /\ (n + 1) * Rows \in Nat OBVIOUS
  <2>10. Len(h) \in Nat /\ Len(h) <= (n + 1) * Rows
    <3> HIDE DEF g, h
    <3> QED BY <2>5, <2>6, <2>7, <2>8, <2>9
  <2>11. ASSUME NEW j \in 0..n PROVE Here(j, n + 1)
    <3>1. CASE j = n
      <4>1. Len(G(j)) = Len(g) BY <3>1
      <4>2. ASSUME NEW k \in 1..Len(own(n))
            PROVE  h[Len(g) + k] = [rank |-> first + n, index |-> own(n)[k]]
        <5> HIDE DEF g, h
        <5>1. /\ Len(g) + k \in 1..(Len(g) + Len(x)) /\ ~(Len(g) + k <= Len(g))
              /\ (Len(g) + k) - Len(g) = k
          BY <2>5, <2>7
        <5>2. h[Len(g) + k] = x[(Len(g) + k) - Len(g)] BY <2>8, <5>1
        <5> QED BY <2>5, <5>1, <5>2
      <4>3. Len(g) + Len(own(n)) <= Len(h)
        <5> HIDE DEF g, h
        <5> QED BY <2>5, <2>7, <2>8
      <4> QED BY <2>7, <3>1, <4>2, <4>3
    <3>2. CASE j # n
      <4>1. j \in 0..(n - 1) BY <3>2
      <4>2. Here(j, n) BY <2>7a, <4>1
      <4> DEFINE c == Len(G(j))
                 w == own(j)
      <4>3. /\ c \in Nat /\ c + Len(w) <= Len(g)
            /\ \A k \in 1..Len(w) : g[c + k] = [rank |-> first + j, index |-> w[k]]
        BY <4>2
      <4>4. Len(w) \in Nat
        <5>1. first + j \in Ranks BY <2>1
        <5> QED BY <5>1, RequestsFacts DEF own
      <4> HIDE DEF g, h, c, w
      <4>5. c + Len(w) <= Len(h) BY <2>5, <2>7, <2>8, <4>3, <4>4
      <4>6. ASSUME NEW k \in 1..Len(w) PROVE h[c + k] = [rank |-> first + j, index |-> w[k]]
        <5>1. c + k \in 1..(Len(g) + Len(x)) /\ c + k <= Len(g) BY <2>5, <2>7, <4>3, <4>4
        <5> QED BY <2>8, <4>3, <5>1
      <4> QED BY <4>3, <4>5, <4>6 DEF c, w, h
    <3> QED BY <3>1, <3>2
  <2>12. (n + 1) - 1 = n OBVIOUS
  <2> HIDE DEF Here
  <2> QED BY <2>8, <2>10, <2>11, <2>12
<1>3. \A n \in Nat : n \in A
  <2> HIDE DEF A
  <2> QED BY <1>1, <1>2, SetInduction
<1>4. P(m)
  <2> HIDE DEF P
  <2> QED BY <1>3
<1> QED BY <1>4

(* The rows of a process and the first seed of a group are numbers.        *)
LEMMA RowsFacts ==
    ASSUME args \in Args
    PROVE  /\ Rows \in Nat /\ args.max_turns \in Nat \ {0} /\ args.tp \in Nat \ {0}
           /\ \A r \in Ranks : Seed(r) \in Nat
           /\ args.tp * Rows \in Nat
<1>1. /\ args.per_device \in Nat /\ args.steps_per_generation \in Nat /\ args.tp \in Nat \ {0}
      /\ args.gradient_accumulation \in Nat /\ args.max_turns \in Nat \ {0}
  BY ColocateAssumption
<1>2. \A a, b \in Nat : a * b \in Nat OBVIOUS
<1>3. Rows \in Nat BY <1>1, <1>2 DEF Rows
<1>4. args.per_device * args.gradient_accumulation * args.tp \in Nat BY <1>1, <1>2
<1>5. ASSUME NEW r \in Ranks PROVE Seed(r) \in Nat
  <2>1. r \in Nat BY GroupFacts
  <2>2. r \div args.tp \in Nat BY <1>1, <2>1, DivMod
  <2> QED BY <1>2, <1>4, <2>2 DEF Seed
<1> QED BY <1>1, <1>2, <1>3, <1>5

(* The slice a process keeps of the outputs of its group is that of its    *)
(* own requests, and the slices follow one another.                        *)
LEMMA SliceFacts ==
    ASSUME DialogueType, \A r \in Ranks : Len(index_to_infer[r]) <= Rows,
           NEW first \in Ranks, first = FirstOfGroup(first), NEW r \in TpGroup(first)
    PROVE  /\ StartIdx(r) \in Nat
           /\ StartIdx(r) + Len(index_to_infer[r]) <= args.tp * Rows
           /\ \A k \in 1..Len(index_to_infer[r]) :
                 Gathered(first, args.tp)[StartIdx(r) + k]
                   = [rank |-> r, index |-> index_to_infer[r][k]]
           /\ \A q \in TpGroup(first) :
                 r < q => StartIdx(r) + Len(index_to_infer[r]) <= StartIdx(q)
<1>0. args \in Args BY DEF DialogueType
<1>1. Rows \in Nat /\ args.tp \in Nat \ {0} /\ args.tp * Rows \in Nat BY <1>0, RowsFacts
<1>2. /\ first \in Nat
      /\ \A k \in 0..(args.tp - 1) : first + k \in Ranks
  BY <1>0, GroupFacts
<1>3. ASSUME NEW q \in TpGroup(first)
      PROVE  /\ q \in Ranks /\ q \in Nat /\ FirstOfGroup(q) = first
             /\ q - first \in 0..(args.tp - 1) /\ first + (q - first) = q
  <2>1. q \in Ranks /\ FirstOfGroup(q) = first BY DEF TpGroup, FirstOfGroup
  <2>2. q \in Nat /\ q - first \in 0..(args.tp - 1) BY <1>0, <2>1, GroupFacts
  <2> QED BY <1>2, <2>1, <2>2
<1> DEFINE j == r - first
           n == Len(index_to_infer[r])
           G(m) == Gathered(first, m)
<1>4. StartIdx(r) = Len(G(j)) /\ j \in 0..(args.tp - 1) /\ first + j = r /\ r \in Nat
  BY <1>3 DEF StartIdx
<1>5. n \in Nat BY <1>3, RequestsFacts
<1>6. /\ Len(G(args.tp)) \in Nat /\ Len(G(args.tp)) <= args.tp * Rows
      /\ Len(G(j)) \in Nat /\ Len(G(j)) + n <= Len(G(args.tp))
      /\ \A k \in 1..n : G(args.tp)[Len(G(j)) + k] = [rank |-> r, index |-> index_to_infer[r][k]]
  <2> HIDE DEF j
  <2>1. Len(G(args.tp)) \in Nat /\ Len(G(args.tp)) <= args.tp * Rows
    BY <1>1, <1>2, GatheredSlice
  <2>2. /\ Len(G(j)) \in Nat /\ Len(G(j)) + Len(index_to_infer[first + j]) <= Len(G(args.tp))
        /\ \A k \in 1..Len(index_to_infer[first + j]) :
              G(args.tp)[Len(G(j)) + k] = [rank |-> first + j, index |-> index_to_infer[first + j][k]]
    <3>1. j \in 0..(args.tp - 1) /\ args.tp \in Nat BY <1>1, <1>4
    <3> HIDE DEF G
    <3>2. LET before == Len(Gathered(first, j))
              own    == index_to_infer[first + j]
          IN  /\ before \in Nat /\ before + Len(own) <= Len(Gathered(first, args.tp))
              /\ \A k \in 1..Len(own) : Gathered(first, args.tp)[before + k]
                                           = [rank |-> first + j, index |-> own[k]]
      BY <1>1, <1>2, <3>1, GatheredSlice
    <3> QED BY <3>2 DEF G
  <2> QED BY <1>4, <2>1, <2>2
<1>7. ASSUME NEW q \in TpGroup(first), r < q PROVE StartIdx(r) + n <= StartIdx(q)
  <2> DEFINE m == q - first
  <2>1. m \in 0..(args.tp - 1) /\ StartIdx(q) = Len(G(m)) BY <1>3 DEF StartIdx
  <2>2. j \in 0..(m - 1) BY <1>2, <1>3, <1>4, <1>7
  <2>3. m \in Nat /\ \A k \in 0..(m - 1) : first + k \in Ranks BY <1>1, <1>2, <2>1
  <2> HIDE DEF m, j
  <2>4. Len(G(j)) + Len(index_to_infer[first + j]) <= Len(G(m))
    BY <1>1, <1>2, <2>2, <2>3, GatheredSlice
  <2> QED BY <1>4, <2>1, <2>4
<1>8. Len(G(j)) + n <= args.tp * Rows
  <2> DEFINE a == Len(G(j))
             b == Len(G(args.tp))
             c == args.tp * Rows
  <2>1. a \in Nat /\ b \in Nat /\ c \in Nat /\ a + n <= b /\ b <= c BY <1>1, <1>6
  <2> HIDE DEF a, b, c, n
  <2>2. a + n <= c BY <1>5, <2>1
  <2> QED BY <2>2 DEF a, c
<1> QED BY <1>4, <1>6, <1>7, <1>8

(* A step that touches no dialogue: a process enters the loop only through *)
(* WakeCache and leaves it only when no dialogue of its own goes on.       *)
LEMMA QuietStep ==
    ASSUME DialogueType, DialogueInv, args' = args, UNCHANGED turnVars,
           \A r \in Ranks :
              /\ pc'[r] \in {"gather", "turn"} => pc[r] \in {"gather", "turn"}
              /\ pc'[r] # "rollout" \/ pc[r] = "rollout"
              /\ (args.multi_turn /\ pc'[r] = "sleep") =>
                    pc[r] = "sleep" \/ (pc[r] = "gather" /\ index_to_infer[r] = <<>>)
    PROVE  DialogueInv'
<1> USE DEF turnVars
<1>0. Ranks' = Ranks /\ Rows' = Rows /\ Inputs' = Inputs BY DEF Ranks, Rows, Inputs
<1> SUFFICES ASSUME NEW r \in Ranks
             PROVE  OutputsInv(r)' /\ TurnsInv(r)' /\ HistoryInv(r)' /\ SeedsInv(r)'
  BY <1>0 DEF DialogueInv
<1>1. OutputsInv(r) /\ TurnsInv(r) /\ HistoryInv(r) /\ SeedsInv(r) BY DEF DialogueInv
<1>2. OutputsInv(r)' BY <1>1 DEF OutputsInv
<1>3. TurnsInv(r)'
  <2>1. (args.multi_turn /\ pc'[r] = "sleep") => collected[r] = Inputs
    <3>1. CASE pc[r] = "gather" /\ index_to_infer[r] = <<>>
      <4>1. ~ \E k \in 1..Len(index_to_infer[r]) : index_to_infer[r][k] = index_to_infer[r][k]
        BY <3>1
      <4>2. \A i \in Inputs : i \in collected[r] BY <1>1, <3>1, <4>1 DEF TurnsInv
      <4>3. collected[r] \subseteq Inputs BY DEF DialogueType
      <4> QED BY <4>2, <4>3
    <3>2. CASE pc[r] = "sleep" BY <1>1, <3>2 DEF TurnsInv
    <3> QED BY <3>1, <3>2
  <2> QED BY <1>0, <1>1, <2>1 DEF TurnsInv
<1>4. HistoryInv(r)' BY <1>0, <1>1 DEF HistoryInv
<1>5. SeedsInv(r)' BY <1>0, <1>1 DEF SeedsInv, Seed
<1> QED BY <1>2, <1>3, <1>4, <1>5

(* A step of one process in its dialogues, which hands on its outputs.     *)
LEMMA LocalStep ==
    ASSUME DialogueType, DialogueInv, NEW p \in Ranks, args' = args,
           outputs' = [outputs EXCEPT ![p] = <<>>], pc'[p] \notin {"gather", "turn"},
           \A q \in Ranks \ {p} :
              /\ index_to_infer'[q] = index_to_infer[q] /\ current_turn'[q] = current_turn[q]
              /\ history'[q] = history[q] /\ collected'[q] = collected[q] /\ pc'[q] = pc[q],
           TurnsInv(p)', HistoryInv(p)'
    PROVE  DialogueInv'
<1>0. Ranks' = Ranks /\ Rows' = Rows /\ Inputs' = Inputs BY DEF Ranks, Rows, Inputs
<1> SUFFICES ASSUME NEW r \in Ranks
             PROVE  OutputsInv(r)' /\ TurnsInv(r)' /\ HistoryInv(r)' /\ SeedsInv(r)'
  BY <1>0 DEF DialogueInv
<1>1. OutputsInv(r) /\ TurnsInv(r) /\ HistoryInv(r) /\ SeedsInv(r) BY DEF DialogueInv
<1>2. /\ outputs'[p] = <<>> /\ Len(<<>>) = 0
      /\ \A q \in Ranks \ {p} : outputs'[q] = outputs[q]
  BY DEF DialogueType
<1>3. SeedsInv(r)'
  <2>1. \A q \in Ranks : \A l \in 1..Len(outputs'[q]) : q # p /\ outputs'[q] = outputs[q]
    BY <1>2
  <2> QED BY <1>0, <1>1, <2>1 DEF SeedsInv, Seed
<1>4. CASE r = p
  <2>1. OutputsInv(r)' BY <1>2, <1>4 DEF OutputsInv
  <2> QED BY <1>3, <1>4, <2>1
<1>5. CASE r # p
  <2>1. /\ index_to_infer'[r] = index_to_infer[r] /\ current_turn'[r] = current_turn[r]
        /\ history'[r] = history[r] /\ collected'[r] = collected[r] /\ pc'[r] = pc[r]
    BY <1>5
  <2>2. OutputsInv(r)'
    <3>1. outputs'[r] = outputs[r] BY <1>2, <1>5
    <3> QED BY <1>1, <2>1, <3>1 DEF OutputsInv
  <2>3. TurnsInv(r)' BY <1>0, <1>1, <2>1 DEF TurnsInv
  <2>4. HistoryInv(r)' BY <1>0, <1>1, <2>1 DEF HistoryInv
  <2> QED BY <1>3, <2>2, <2>3, <2>4
<1> QED BY <1>4, <1>5

(* The dialogues start anew: all of them, or none.                         *)
LEMMA FreshStep ==
    ASSUME DialogueType, DialogueInv, EngineType', NEW p \in Ranks,
           WakeCache(p) \/ Reload(p)
    PROVE  DialogueType' /\ DialogueInv'
<1> DEFINE all == [i \in Inputs |-> i]
<1>0. args' = args BY DEF WakeCache, Reload
<1>1. Ranks' = Ranks /\ Rows' = Rows /\ Inputs' = Inputs /\ Completion' = Completion
  BY <1>0 DEF Ranks, Rows, Inputs, Completion
<1>t. /\ args \in Args /\ pc \in [Ranks -> {"train", "wake", "move", "adapter", "reset", "offload",
              "cache", "rollout", "gather", "turn", "sleep", "reload"}]
      /\ index_to_infer \in [Ranks -> Seq(Inputs)] /\ outputs \in [Ranks -> Seq(Completion)]
      /\ current_turn \in [Ranks -> Nat] /\ collected \in [Ranks -> SUBSET Inputs]
      /\ history \in [Ranks -> [Inputs -> Seq(Completion)]]
  BY DEF DialogueType
<1>2. Rows \in Nat /\ args.max_turns \in Nat \ {0} BY <1>t, RowsFacts
<1>3. all \in Seq(Inputs) /\ Len(all) = Rows /\ \A i \in 1..Rows : all[i] = i /\ i \in Inputs
  BY <1>2 DEF Inputs
<1> HIDE DEF all
<1>4. /\ outputs' = [outputs EXCEPT ![p] = <<>>]
      /\ current_turn' = [current_turn EXCEPT ![p] = 1]
      /\ history' = [history EXCEPT ![p] = [i \in Inputs |-> <<>>]]
      /\ collected' = [collected EXCEPT ![p] = {}]
      /\ \/ index_to_infer' = [index_to_infer EXCEPT ![p] = all]
            /\ pc' = [pc EXCEPT ![p] = "rollout"]
         \/ index_to_infer' = [index_to_infer EXCEPT ![p] = <<>>]
            /\ pc' = [pc EXCEPT ![p] = "train"]
  BY DEF WakeCache, Reload, all
<1>5. <<>> \in Seq(Inputs) /\ <<>> \in Seq(Completion) /\ Len(<<>>) = 0 OBVIOUS
<1> HIDE DEF Inputs, Completion, Rows
<1>6. DialogueType'
  <2>1. index_to_infer' \in [Ranks -> Seq(Inputs)] BY <1>t, <1>3, <1>4, <1>5
  <2>2. outputs' \in [Ranks -> Seq(Completion)] BY <1>t, <1>4, <1>5
  <2>3. history' \in [Ranks -> [Inputs -> Seq(Completion)]]
    <3>1. [i \in Inputs |-> <<>>] \in [Inputs -> Seq(Completion)] BY <1>5
    <3> QED BY <1>t, <1>4, <3>1
  <2>4. current_turn' \in [Ranks -> Nat] /\ collected' \in [Ranks -> SUBSET Inputs]
    BY <1>t, <1>4
  <2> QED BY <1>1, <2>1, <2>2, <2>3, <2>4 DEF DialogueType, EngineType
<1>7. /\ current_turn'[p] = 1 /\ collected'[p] = {}
      /\ \A i \in Inputs : history'[p][i] = <<>>
      /\ \/ index_to_infer'[p] = all /\ pc'[p] = "rollout"
         \/ index_to_infer'[p] = <<>> /\ pc'[p] = "train"
  BY <1>t, <1>4
<1>8. HistoryInv(p)' BY <1>0, <1>1, <1>2, <1>5, <1>7 DEF HistoryInv
<1>9. TurnsInv(p)'
  <2>1. CASE index_to_infer'[p] = all /\ pc'[p] = "rollout"
    <3>1. ASSUME NEW k \in 1..Rows
          PROVE  Len(history'[p][all[k]]) + 1 = 1 /\ 1 <= args.max_turns
      <4>1. history'[p][all[k]] = <<>> BY <1>3, <1>7
      <4>2. Len(history'[p][all[k]]) = 0 BY <1>5, <4>1
      <4> QED BY <1>2, <4>2
    <3>2. ASSUME NEW i \in Inputs PROVE \E k \in 1..Rows : all[k] = i
      BY <1>3 DEF Inputs
    <3> QED BY <1>0, <1>1, <1>2, <1>3, <1>7, <2>1, <3>1, <3>2 DEF TurnsInv
  <2>2. CASE index_to_infer'[p] = <<>> /\ pc'[p] = "train"
    BY <1>1, <1>2, <1>5, <2>2 DEF TurnsInv
  <2> QED BY <1>7, <2>1, <2>2
<1>10. \A q \in Ranks \ {p} :
         /\ index_to_infer'[q] = index_to_infer[q] /\ current_turn'[q] = current_turn[q]
         /\ history'[q] = history[q] /\ collected'[q] = collected[q] /\ pc'[q] = pc[q]
  BY <1>t, <1>4
<1>11. pc'[p] \notin {"gather", "turn"} BY <1>7
<1>12. DialogueInv' BY <1>0, <1>4, <1>8, <1>9, <1>10, <1>11, LocalStep
<1> QED BY <1>6, <1>12

(* A turn: the outputs join their dialogues, some of which end.            *)
LEMMA TurnStep ==
    ASSUME DialogueType, DialogueInv, EngineType', NEW p \in Ranks, Turn(p)
    PROVE  DialogueType' /\ DialogueInv'
<1>0. args' = args BY DEF Turn
<1>1. Ranks' = Ranks /\ Rows' = Rows /\ Inputs' = Inputs /\ Completion' = Completion
  BY <1>0 DEF Ranks, Rows, Inputs, Completion
<1>t. /\ args \in Args /\ pc \in [Ranks -> {"train", "wake", "move", "adapter", "reset", "offload",
              "cache", "rollout", "gather", "turn", "sleep", "reload"}]
      /\ index_to_infer \in [Ranks -> Seq(Inputs)] /\ outputs \in [Ranks -> Seq(Completion)]
      /\ current_turn \in [Ranks -> Nat] /\ collected \in [Ranks -> SUBSET Inputs]
      /\ history \in [Ranks -> [Inputs -> Seq(Completion)]]
  BY DEF DialogueType
<1>2. Rows \in Nat /\ args.max_turns \in Nat \ {0} BY <1>t, RowsFacts
<1> DEFINE s == index_to_infer[p]
           o == outputs[p]
           h == history[p]
           c == current_turn[p]
<1>3. /\ s \in Seq(Inputs) /\ o \in Seq(Completion) /\ h \in [Inputs -> Seq(Completion)]
      /\ c \in Nat /\ collected[p] \subseteq Inputs
  BY <1>t
<1>4. PICK goes_on \in [DOMAIN s -> {0, 1}] :
        LET stopped == {k \in DOMAIN goes_on : goes_on[k] = 0}
        IN  /\ c >= args.max_turns => stopped = DOMAIN goes_on
            /\ index_to_infer' = [index_to_infer EXCEPT ![p] = Masked(@, goes_on)]
            /\ collected' = [collected EXCEPT ![p] = @ \cup {s[k] : k \in stopped}]
  BY DEF Turn
<1> DEFINE next == Masked(s, goes_on)
           joined == [i \in Inputs |-> IF i \in Range(s) THEN Append(h[i], o[Position(p, i)])
                                       ELSE h[i]]
<1>5. /\ pc[p] = "turn" /\ pc' = [pc EXCEPT ![p] = "rollout"]
      /\ history' = [history EXCEPT ![p] = joined]
      /\ current_turn' = [current_turn EXCEPT ![p] = c + 1]
      /\ outputs' = [outputs EXCEPT ![p] = <<>>]
  BY <1>t DEF Turn
<1>6. OutputsInv(p) /\ TurnsInv(p) /\ HistoryInv(p) BY DEF DialogueInv
<1>7. Len(s) \in Nat /\ DOMAIN s = 1..Len(s) /\ (\A k \in 1..Len(s) : s[k] \in Inputs)
  BY <1>3, LenProperties, LenFacts
<1>8. /\ Len(o) = Len(s)
      /\ \A k \in 1..Len(s) : /\ o[k].rank = p /\ o[k].index = s[k]
                              /\ o[k].turn = Len(h[s[k]]) + 1
      /\ \A k \in 1..Len(s) : Len(h[s[k]]) + 1 = c /\ c <= args.max_turns
      /\ Len(s) <= Rows
      /\ \A i \in Inputs : i \in collected[p] \/ \E k \in 1..Len(s) : s[k] = i
  BY <1>5, <1>6 DEF OutputsInv, TurnsInv
<1>9. ASSUME NEW i \in Inputs, i \in Range(s)
      PROVE  /\ Position(p, i) \in 1..Len(s) /\ s[Position(p, i)] = i
             /\ o[Position(p, i)] \in Completion
  <2>1. \E k \in DOMAIN s : s[k] = i BY <1>9 DEF Range
  <2>2. Position(p, i) \in DOMAIN s /\ s[Position(p, i)] = i BY <2>1 DEF Position
  <2> QED BY <1>3, <1>7, <1>8, <2>2, LenFacts
<1> HIDE DEF Inputs, Completion, Rows
<1>10. joined \in [Inputs -> Seq(Completion)]
  <2>1. ASSUME NEW i \in Inputs, i \in Range(s)
        PROVE Append(h[i], o[Position(p, i)]) \in Seq(Completion)
    <3>1. h[i] \in Seq(Completion) /\ o[Position(p, i)] \in Completion BY <1>3, <1>9, <2>1
    <3> HIDE DEF h, o
    <3> QED BY <3>1, AppendFacts
  <2> QED BY <1>3, <2>1
<1>11. /\ next \in Seq(Inputs) /\ Len(next) \in Nat /\ Len(next) <= Len(s)
       /\ \A k \in 1..Len(next) : \E i \in 1..Len(s) : goes_on[i] = 1 /\ s[i] = next[k]
       /\ \A i \in 1..Len(s) : goes_on[i] = 1 => \E k \in 1..Len(next) : next[k] = s[i]
  <2>0. s \in Seq(Inputs) BY <1>3
  <2>1. next \in Seq(Inputs) /\ Len(next) <= Len(s)
    <3> HIDE DEF s
    <3> QED BY <2>0, MaskedRange
  <2>2. next = Masked(s, goes_on) OBVIOUS
  <2> HIDE DEF s, next
  <2>3. \A k \in 1..Len(next) : \E i \in 1..Len(s) : goes_on[i] = 1 /\ s[i] = next[k]
    BY <2>0, <2>2, MaskedHas
  <2>4. \A i \in 1..Len(s) : goes_on[i] = 1 => \E k \in 1..Len(next) : next[k] = s[i]
    BY <2>0, <2>2, MaskedHas
  <2>5. Len(next) \in Nat BY <2>1, LenFacts
  <2> QED BY <2>1, <2>3, <2>4, <2>5
<1>12. /\ index_to_infer'[p] = next /\ pc'[p] = "rollout" /\ history'[p] = joined
       /\ current_turn'[p] = c + 1
       /\ collected'[p] = collected[p] \cup {s[k] : k \in {k \in 1..Len(s) : goes_on[k] = 0}}
       /\ \A q \in Ranks \ {p} :
             /\ index_to_infer'[q] = index_to_infer[q] /\ current_turn'[q] = current_turn[q]
             /\ history'[q] = history[q] /\ collected'[q] = collected[q] /\ pc'[q] = pc[q]
  BY <1>t, <1>4, <1>5, <1>7
<1>13. DialogueType'
  <2> HIDE DEF next, joined
  <2>1. index_to_infer' \in [Ranks -> Seq(Inputs)]
    <3>1. index_to_infer' = [index_to_infer EXCEPT ![p] = next] BY <1>t, <1>4 DEF next
    <3> QED BY <1>t, <1>11, <3>1
  <2>2. outputs' \in [Ranks -> Seq(Completion)]
    <3>1. <<>> \in Seq(Completion) OBVIOUS
    <3> QED BY <1>t, <1>5, <3>1
  <2>3. history' \in [Ranks -> [Inputs -> Seq(Completion)]] BY <1>t, <1>5, <1>10
  <2>4. current_turn' \in [Ranks -> Nat] BY <1>t, <1>3, <1>5
  <2>5. collected' \in [Ranks -> SUBSET Inputs]
    <3>1. {s[k] : k \in {k \in DOMAIN goes_on : goes_on[k] = 0}} \subseteq Inputs BY <1>7
    <3> QED BY <1>t, <1>4, <3>1
  <2> QED BY <1>1, <2>1, <2>2, <2>3, <2>4, <2>5 DEF DialogueType, EngineType
<1>14. ASSUME NEW i \in Inputs
       PROVE  IF i \in Range(s)
              THEN /\ joined[i] \in Seq(Completion) /\ Len(joined[i]) = Len(h[i]) + 1
                   /\ Len(h[i]) \in Nat /\ Len(h[i]) + 1 = c /\ c <= args.max_turns
                   /\ joined[i][Len(h[i]) + 1] = o[Position(p, i)]
                   /\ \A n \in 1..Len(h[i]) : joined[i][n] = h[i][n]
              ELSE joined[i] = h[i]
  <2>1. CASE i \in Range(s)
    <3>1. h[i] \in Seq(Completion) /\ o[Position(p, i)] \in Completion BY <1>3, <1>9, <2>1
    <3>2. joined[i] = Append(h[i], o[Position(p, i)]) BY <2>1
    <3>3. Len(h[i]) + 1 = c /\ c <= args.max_turns
      <4>1. Position(p, i) \in 1..Len(s) /\ s[Position(p, i)] = i BY <1>9, <2>1
      <4> QED BY <1>8, <4>1
    <3> DEFINE x == h[i]
               y == o[Position(p, i)]
    <3>4. x \in Seq(Completion) /\ y \in Completion /\ joined[i] = Append(x, y) BY <3>1, <3>2
    <3> HIDE DEF x, y, joined
    <3>5. /\ joined[i] \in Seq(Completion) /\ Len(joined[i]) = Len(x) + 1 /\ Len(x) \in Nat
          /\ joined[i][Len(x) + 1] = y /\ \A n \in 1..Len(x) : joined[i][n] = x[n]
      BY <3>4, AppendFacts
    <3> QED BY <2>1, <3>3, <3>5 DEF x, y
  <2>2. CASE i \notin Range(s) BY <2>2
  <2> QED BY <2>1, <2>2
<1>15. HistoryInv(p)'
  <2> HIDE DEF joined
  <2>1. ASSUME NEW i \in Inputs
        PROVE  /\ Len(joined[i]) <= args.max_turns
               /\ \A n \in 1..Len(joined[i]) :
                     joined[i][n].rank = p /\ joined[i][n].index = i /\ joined[i][n].turn = n
    <3>1. /\ Len(h[i]) <= args.max_turns
          /\ \A n \in 1..Len(h[i]) : h[i][n].rank = p /\ h[i][n].index = i /\ h[i][n].turn = n
      BY <1>6 DEF HistoryInv
    <3>2. CASE i \in Range(s)
      <4> DEFINE m == Len(h[i])
                 k == Position(p, i)
      <4>1. k \in 1..Len(s) /\ s[k] = i BY <1>9, <3>2
      <4>2. o[k].rank = p /\ o[k].index = i /\ o[k].turn = m + 1 BY <1>8, <4>1
      <4>3. /\ Len(joined[i]) = m + 1 /\ m \in Nat /\ m + 1 = c /\ c <= args.max_turns
            /\ joined[i][m + 1] = o[k] /\ \A n \in 1..m : joined[i][n] = h[i][n]
        BY <1>14, <3>2
      <4> HIDE DEF m, k
      <4>4. ASSUME NEW n \in 1..Len(joined[i])
            PROVE  joined[i][n].rank = p /\ joined[i][n].index = i /\ joined[i][n].turn = n
        <5>1. n \in 1..m \/ n = m + 1 BY <4>3
        <5> QED BY <3>1, <4>2, <4>3, <5>1 DEF m
      <4> QED BY <4>3, <4>4
    <3>3. CASE i \notin Range(s)
      <4>1. joined[i] = h[i] BY <1>14, <3>3
      <4> QED BY <3>1, <4>1
    <3> QED BY <3>2, <3>3
  <2> QED BY <1>0, <1>1, <1>12, <2>1 DEF HistoryInv
<1>16. TurnsInv(p)'
  <2> HIDE DEF next, joined
  <2>1. ASSUME NEW k \in 1..Len(next)
        PROVE  Len(joined[next[k]]) + 1 = c + 1 /\ c + 1 <= args.max_turns
    <3>1. PICK i \in 1..Len(s) : goes_on[i] = 1 /\ s[i] = next[k] BY <1>11
    <3>2. next[k] \in Inputs /\ next[k] \in Range(s) BY <1>7, <3>1 DEF Range
    <3>3. Len(joined[next[k]]) = c BY <1>14, <3>2
    <3>4. ~(c >= args.max_turns)
      <4>1. i \in DOMAIN goes_on /\ goes_on[i] # 0 BY <1>7, <3>1
      <4> QED BY <1>4, <4>1
    <3> QED BY <1>2, <1>3, <3>3, <3>4
  <2>2. ASSUME NEW i \in Inputs
        PROVE  i \in collected'[p] \/ \E k \in 1..Len(next) : next[k] = i
    <3>1. CASE i \in collected[p] BY <1>12, <3>1
    <3>2. ASSUME NEW k \in 1..Len(s), s[k] = i
          PROVE  i \in collected'[p] \/ \E n \in 1..Len(next) : next[n] = i
      <4>1. goes_on[k] = 0 \/ goes_on[k] = 1 BY <1>7
      <4>2. CASE goes_on[k] = 0 BY <1>12, <3>2, <4>2
      <4>3. CASE goes_on[k] = 1 BY <1>11, <3>2, <4>3
      <4> QED BY <4>1, <4>2, <4>3
    <3> QED BY <1>8, <3>1, <3>2
  <2>3. Len(next) <= Rows BY <1>2, <1>7, <1>8, <1>11
  <2> QED BY <1>0, <1>1, <1>12, <2>1, <2>2, <2>3 DEF TurnsInv
<1>17. DialogueInv' BY <1>0, <1>5, <1>12, <1>15, <1>16, LocalStep
<1> QED BY <1>13, <1>17

(* The outputs of a group are generated: each at the place of its request, *)
(* with the seed of its place in the group.                                *)
LEMMA InferStep ==
    ASSUME DialogueType, DialogueInv, EngineType', NEW first \in Ranks,
           first = FirstOfGroup(first), Infer(first)
    PROVE  DialogueType' /\ DialogueInv'
<1> DEFINE S == TpGroup(first)
           all == Gathered(first, args.tp)
           Out(r, k) == [rank |-> all[k].rank, index |-> all[k].index,
                         turn |-> Len(history[all[k].rank][all[k].index]) + 1,
                         seed |-> IF args.tp > 1 THEN Seed(r) + k - 1 ELSE -1]
           Piece(r) == [k \in DOMAIN index_to_infer[r] |-> Out(r, StartIdx(r) + k)]
<1>0. /\ \A r \in S : pc[r] = "rollout"
      /\ outputs' = [r \in Ranks |-> IF r \in S THEN Piece(r) ELSE outputs[r]]
      /\ pc' = [r \in Ranks |-> IF r \notin S THEN pc[r]
                                ELSE IF args.multi_turn THEN "gather" ELSE "sleep"]
      /\ UNCHANGED <<args, index_to_infer, current_turn, history, collected>>
  BY DEF Infer
<1>1. Ranks' = Ranks /\ Rows' = Rows /\ Inputs' = Inputs /\ Completion' = Completion
  BY <1>0 DEF Ranks, Rows, Inputs, Completion
<1>t. /\ args \in Args
      /\ index_to_infer \in [Ranks -> Seq(Inputs)] /\ outputs \in [Ranks -> Seq(Completion)]
      /\ current_turn \in [Ranks -> Nat] /\ collected \in [Ranks -> SUBSET Inputs]
      /\ history \in [Ranks -> [Inputs -> Seq(Completion)]]
  BY DEF DialogueType
<1>2. /\ Rows \in Nat /\ args.tp \in Nat \ {0} /\ args.tp * Rows \in Nat
      /\ \A r \in Ranks : Seed(r) \in Nat
  BY <1>t, RowsFacts
<1>3. \A r \in Ranks : Len(index_to_infer[r]) <= Rows BY DEF DialogueInv, TurnsInv
<1>4. S \subseteq Ranks BY DEF TpGroup
<1>5. ASSUME NEW r \in S
      PROVE  /\ Len(index_to_infer[r]) \in Nat /\ StartIdx(r) \in Nat
             /\ StartIdx(r) + Len(index_to_infer[r]) <= args.tp * Rows
             /\ \A q \in S : r < q => StartIdx(r) + Len(index_to_infer[r]) <= StartIdx(q)
             /\ Piece(r) \in Seq(Completion) /\ Len(Piece(r)) = Len(index_to_infer[r])
             /\ \A k \in 1..Len(index_to_infer[r]) :
                   /\ index_to_infer[r][k] \in Inputs
                   /\ Piece(r)[k].rank = r /\ Piece(r)[k].index = index_to_infer[r][k]
                   /\ Piece(r)[k].turn = Len(history[r][index_to_infer[r][k]]) + 1
                   /\ args.tp > 1 => Piece(r)[k].seed = Seed(r) + (StartIdx(r) + k) - 1
  <2> DEFINE s == index_to_infer[r]
             b == StartIdx(r)
  <2>1. /\ b \in Nat /\ b + Len(s) <= args.tp * Rows
        /\ \A k \in 1..Len(s) : all[b + k] = [rank |-> r, index |-> s[k]]
        /\ \A q \in S : r < q => b + Len(s) <= StartIdx(q)
    BY <1>3, SliceFacts
  <2>2. r \in Ranks /\ s \in Seq(Inputs) BY <1>t, <1>4
  <2>3. Len(s) \in Nat /\ DOMAIN s = 1..Len(s) /\ \A k \in 1..Len(s) : s[k] \in Inputs
    <3> HIDE DEF s
    <3> QED BY <2>2, LenProperties, LenFacts
  <2>4. Piece(r) = [k \in 1..Len(s) |-> Out(r, b + k)] BY <2>3
  <2> HIDE DEF s, b, all, S
  <2>5. ASSUME NEW k \in 1..Len(s)
        PROVE  /\ Out(r, b + k) \in Completion
               /\ Out(r, b + k).rank = r /\ Out(r, b + k).index = s[k]
               /\ Out(r, b + k).turn = Len(history[r][s[k]]) + 1
               /\ args.tp > 1 => Out(r, b + k).seed = Seed(r) + (b + k) - 1
    <3>1. all[b + k].rank = r /\ all[b + k].index = s[k]
      <4>1. all[b + k] = [rank |-> r, index |-> s[k]] BY <2>1
      <4> HIDE DEF Out
      <4> QED BY <4>1
    <3>2. Len(history[r][s[k]]) \in Nat
      <4>1. history[r][s[k]] \in Seq(Completion) BY <1>t, <2>2, <2>3
      <4> QED BY <4>1, LenFacts
    <3>3. Out(r, b + k) = [rank |-> r, index |-> s[k], turn |-> Len(history[r][s[k]]) + 1,
                           seed |-> IF args.tp > 1 THEN Seed(r) + (b + k) - 1 ELSE -1]
      BY <3>1
    <3>4. (IF args.tp > 1 THEN Seed(r) + (b + k) - 1 ELSE -1) \in Int
      BY <1>2, <2>1, <2>2, <2>3
    <3> HIDE DEF Out
    <3>5. Out(r, b + k) \in Completion BY <2>2, <2>3, <3>2, <3>3, <3>4 DEF Completion
    <3> QED BY <3>3, <3>5
  <2> HIDE DEF Out, Piece, Completion
  <2>6. Piece(r) \in Seq(Completion) /\ Len(Piece(r)) = Len(s) BY <2>3, <2>4, <2>5
  <2>7. \A k \in 1..Len(s) : Piece(r)[k] = Out(r, b + k) BY <2>4
  <2> QED BY <2>1, <2>3, <2>5, <2>6, <2>7 DEF s, b
<1> HIDE DEF Piece, Out, all
<1>6. DialogueType'
  <2>1. outputs' \in [Ranks -> Seq(Completion)]
    <3> HIDE DEF S, Completion
    <3> QED BY <1>0, <1>t, <1>5
  <2> QED BY <1>0, <1>1, <1>t, <2>1 DEF DialogueType, EngineType
<1>7. ASSUME NEW r \in Ranks
      PROVE  /\ r \in S => outputs'[r] = Piece(r) /\ pc[r] = "rollout"
                           /\ pc'[r] = IF args.multi_turn THEN "gather" ELSE "sleep"
             /\ r \notin S => outputs'[r] = outputs[r] /\ pc'[r] = pc[r]
  <2> HIDE DEF S
  <2> QED BY <1>0
<1>8. ASSUME NEW r \in Ranks
      PROVE  OutputsInv(r)' /\ TurnsInv(r)' /\ HistoryInv(r)'
  <2>1. OutputsInv(r) /\ TurnsInv(r) /\ HistoryInv(r) BY DEF DialogueInv
  <2>2. HistoryInv(r)' BY <1>0, <1>1, <2>1 DEF HistoryInv
  <2> HIDE DEF S
  <2>3. CASE r \in S
    <3>1. OutputsInv(r)' BY <1>0, <1>5, <1>7, <2>3 DEF OutputsInv
    <3>2. TurnsInv(r)' BY <1>0, <1>1, <1>7, <2>1, <2>3 DEF TurnsInv
    <3> QED BY <2>2, <3>1, <3>2
  <2>4. CASE r \notin S
    <3>1. OutputsInv(r)' BY <1>0, <1>7, <2>1, <2>4 DEF OutputsInv
    <3>2. TurnsInv(r)' BY <1>0, <1>1, <1>7, <2>1, <2>4 DEF TurnsInv
    <3> QED BY <2>2, <3>1, <3>2
  <2> QED BY <2>3, <2>4
<1>9. ASSUME NEW r \in Ranks, args.tp > 1 PROVE SeedsInv(r)'
  <2>1. SeedsInv(r) BY DEF DialogueInv
  <2>2. Seed(r)' = Seed(r) BY <1>0 DEF Seed
  <2>3. ASSUME NEW q \in Ranks, r \div args.tp = q \div args.tp
        PROVE  (r \in S <=> q \in S) /\ Seed(q) = Seed(r)
    BY <2>3 DEF TpGroup, Seed
  <2>4. CASE r \notin S
    <3>1. outputs'[r] = outputs[r] BY <1>7, <2>4
    <3>2. \A q \in Ranks : r \div args.tp = q \div args.tp => outputs'[q] = outputs[q]
      BY <1>7, <2>3, <2>4
    <3> QED BY <1>0, <1>1, <2>1, <2>2, <3>1, <3>2 DEF SeedsInv
  <2>5. CASE r \in S
    <3> DEFINE n(q) == Len(index_to_infer[q])
    <3>1. ASSUME NEW q \in S
          PROVE  /\ q \in Ranks /\ q \in Nat /\ n(q) \in Nat /\ StartIdx(q) \in Nat
                 /\ Len(outputs'[q]) = n(q) /\ Seed(q) \in Nat
                 /\ \A k \in 1..n(q) : outputs'[q][k].seed = Seed(q) + (StartIdx(q) + k) - 1
      <4>1. q \in Ranks BY <1>4
      <4>2. q \in Nat BY <1>t, <4>1, GroupFacts
      <4>3. outputs'[q] = Piece(q) BY <1>7, <4>1
      <4> HIDE DEF S
      <4> QED BY <1>2, <1>5, <1>9, <4>1, <4>2, <4>3
    <3>2. ASSUME NEW k \in 1..n(r)
          PROVE  /\ Seed(r) <= outputs'[r][k].seed
                 /\ outputs'[r][k].seed < Seed(r) + args.tp * Rows
      <4> DEFINE c == args.tp * Rows
                 b == StartIdx(r)
                 m == n(r)
      <4>1. b + m <= c /\ c \in Nat /\ b \in Nat /\ m \in Nat /\ k \in 1..m /\ Seed(r) \in Nat
            /\ outputs'[r][k].seed = Seed(r) + (b + k) - 1
        BY <1>2, <1>5, <2>5, <3>1
      <4> HIDE DEF c, b, m
      <4>2. Seed(r) <= outputs'[r][k].seed /\ outputs'[r][k].seed < Seed(r) + c BY <4>1
      <4> QED BY <4>2 DEF c
    <3>3. ASSUME NEW q \in Ranks, r \div args.tp = q \div args.tp,
                 NEW k \in 1..n(r), NEW l \in 1..n(q),
                 outputs'[r][k].seed = outputs'[q][l].seed
          PROVE  r = q /\ k = l
      <4>1. q \in S /\ Seed(q) = Seed(r) BY <2>3, <2>5, <3>3
      <4> DEFINE a == StartIdx(r)
                 b == StartIdx(q)
                 d == Seed(r)
                 m == n(r)
                 o == n(q)
      <4>2. /\ a \in Nat /\ b \in Nat /\ d \in Nat /\ m \in Nat /\ o \in Nat /\ r \in Nat /\ q \in Nat
            /\ k \in 1..m /\ l \in 1..o
            /\ outputs'[r][k].seed = d + (a + k) - 1 /\ outputs'[q][l].seed = d + (b + l) - 1
        BY <2>5, <3>1, <4>1
      <4>3. (r < q => a + m <= b) /\ (q < r => b + o <= a)
        <5> HIDE DEF S
        <5> QED BY <1>5, <2>5, <4>1
      <4>4. r = q => a = b OBVIOUS
      <4> HIDE DEF a, b, d, m, o
      <4>5. a + k = b + l
        <5>1. d + (a + k) - 1 = d + (b + l) - 1 BY <3>3, <4>2, Zenon
        <5> QED BY <4>2, <5>1
      <4>6. ~(r < q) /\ ~(q < r) BY <4>2, <4>3, <4>5
      <4>7. r = q BY <4>2, <4>6
      <4> QED BY <4>2, <4>4, <4>5, <4>7
    <3>4. \A q \in Ranks : r \div args.tp = q \div args.tp => Len(outputs'[q]) = n(q)
      BY <2>3, <2>5, <3>1
    <3>5. Len(outputs'[r]) = n(r) BY <2>5, <3>1
    <3> HIDE DEF n, S
    <3> QED BY <1>0, <1>1, <2>2, <3>2, <3>3, <3>4, <3>5 DEF SeedsInv
  <2> QED BY <2>4, <2>5
<1>10. \A r \in Ranks : SeedsInv(r)'
  <2>1. ASSUME NEW r \in Ranks, ~(args.tp > 1) PROVE SeedsInv(r)'
    BY <1>0, <2>1 DEF SeedsInv
  <2> QED BY <1>9, <2>1
<1> QED BY <1>1, <1>6, <1>8, <1>10 DEF DialogueInv

(* Every action keeps the dialogues in order.                              *)
LEMMA DialogueStep ==
    ASSUME EngineType', DialogueType, DialogueInv, [Next]_vars
    PROVE  DialogueType' /\ DialogueInv'
<1> USE DEF turnVars
<1> DEFINE Quiet == /\ args' = args /\ UNCHANGED turnVars
                    /\ \A r \in Ranks :
                          /\ pc'[r] \in {"gather", "turn"} => pc[r] \in {"gather", "turn"}
                          /\ pc'[r] # "rollout" \/ pc[r] = "rollout"
                          /\ (args.multi_turn /\ pc'[r] = "sleep") =>
                                pc[r] = "sleep" \/ (pc[r] = "gather" /\ index_to_infer[r] = <<>>)
<1>0. pc \in [Ranks -> {"train", "wake", "move", "adapter", "reset", "offload", "cache",
                        "rollout", "gather", "turn", "sleep", "reload"}]
  BY DEF DialogueType
<1>1. ASSUME Quiet PROVE DialogueType' /\ DialogueInv'
  <2>1. Ranks' = Ranks /\ Inputs' = Inputs /\ Completion' = Completion
    BY <1>1 DEF Ranks, Rows, Inputs, Completion
  <2>2. DialogueType' BY <1>1, <2>1 DEF DialogueType, EngineType
  <2> QED BY <1>1, <2>2, QuietStep
<1>2. ASSUME NEW S, MoveGroup(S) PROVE Quiet BY <1>0, <1>2 DEF MoveGroup
<1>3. ASSUME NEW S, MoveAdapter(S) PROVE Quiet BY <1>0, <1>3 DEF MoveAdapter
<1>4. ASSUME NEW r \in Ranks, WakeWeights(r) PROVE Quiet BY <1>0, <1>4 DEF WakeWeights
<1>5. ASSUME NEW r \in Ranks, MoveEnd(r) PROVE Quiet BY <1>0, <1>5 DEF MoveEnd
<1>6. ASSUME NEW r \in Ranks, AdapterEnd(r) PROVE Quiet BY <1>0, <1>6 DEF AdapterEnd
<1>7. ASSUME NEW r \in Ranks, Offload(r) PROVE Quiet BY <1>0, <1>7 DEF Offload
<1>8. ASSUME NEW r \in Ranks, Sleep(r) PROVE Quiet BY <1>0, <1>8 DEF Sleep
<1> HIDE DEF Quiet
<1>9. CASE TrainStep \/ Generate \/ Gather
  <2>1. Quiet
    <3> USE DEF Quiet
    <3> QED BY <1>0, <1>9 DEF TrainStep, Generate, Gather
  <2> QED BY <1>1, <2>1
<1>10. ASSUME NEW r \in Ranks, Local(r) PROVE DialogueType' /\ DialogueInv'
  BY <1>1, <1>4, <1>5, <1>6, <1>7, <1>8, <1>10, FreshStep, TurnStep DEF Local
<1>11. CASE Collective BY <1>1, <1>2, <1>3, <1>9, <1>11, InferStep DEF Collective
<1>12. CASE UNCHANGED vars
  <2>1. Quiet BY <1>0, <1>12 DEF vars, Quiet
  <2> QED BY <1>1, <2>1
<1> QED BY <1>9, <1>10, <1>11, <1>12 DEF Next

(* The invariant of the dialogues holds in every state.                    *)
LEMMA DialogueInvariance == Spec => [](DialogueType /\ DialogueInv)
<1>1. Init => DialogueType /\ DialogueInv
  <2> SUFFICES ASSUME Init PROVE DialogueType /\ DialogueInv OBVIOUS
  <2>0. args \in Args BY DEF Init
  <2>1. Rows \in Nat /\ args.max_turns \in Nat \ {0} BY <2>0, RowsFacts
  <2>2. /\ \A r \in Ranks : /\ index_to_infer[r] = <<>> /\ outputs[r] = <<>> /\ pc[r] = "train"
                            /\ \A i \in Inputs : history[r][i] = <<>>
        /\ Len(<<>>) = 0
    BY DEF Init
  <2>3. <<>> \in Seq(Inputs) /\ <<>> \in Seq(Completion) OBVIOUS
  <2>4. DialogueType
    <3> HIDE DEF Inputs, Completion
    <3> QED BY <2>0, <2>3 DEF Init, DialogueType
  <2>5. DialogueInv
    <3> HIDE DEF Inputs, Rows
    <3> QED BY <2>1, <2>2 DEF DialogueInv, OutputsInv, TurnsInv, HistoryInv, SeedsInv
  <2> QED BY <2>4, <2>5
<1>2. EngineType' /\ DialogueType /\ DialogueInv /\ [Next]_vars => DialogueType' /\ DialogueInv'
  BY DialogueStep
<1> QED BY <1>1, <1>2, TypeInvariance, PTL DEF Spec

(* Any number of processes, in tensor-parallel groups of any size, with    *)
(* any number of dialogues each, of any number of turns that ends earlier  *)
(* on one than on another: a completion goes to the dialogue of the        *)
(* process that asked for it, in turn, no dialogue passes max_turns, and   *)
(* at the end every one has been collected.                                *)
THEOREM CompletionsReachTheirDialogue == Spec => []OwnDialogue
<1>1. DialogueType /\ DialogueInv => OwnDialogue
  <2> SUFFICES ASSUME DialogueType, DialogueInv PROVE OwnDialogue OBVIOUS
  <2> SUFFICES ASSUME NEW r \in Ranks
               PROVE  /\ \A k \in DOMAIN outputs[r] :
                            /\ outputs[r][k].rank = r
                            /\ outputs[r][k].index = index_to_infer[r][k]
                      /\ \A i \in Inputs : Len(history[r][i]) <= args.max_turns
                      /\ \A i \in Inputs : \A n \in DOMAIN history[r][i] :
                            /\ history[r][i][n].rank = r /\ history[r][i][n].index = i
                            /\ history[r][i][n].turn = n
                      /\ (args.multi_turn /\ pc[r] = "sleep") => collected[r] = Inputs
    BY DEF OwnDialogue
  <2>1. OutputsInv(r) /\ TurnsInv(r) /\ HistoryInv(r) BY DEF DialogueInv
  <2>2. outputs[r] \in Seq(Completion) /\ \A i \in Inputs : history[r][i] \in Seq(Completion)
    BY DEF DialogueType
  <2>3. DOMAIN outputs[r] = 1..Len(outputs[r]) BY <2>2, LenProperties
  <2>4. \A i \in Inputs : DOMAIN history[r][i] = 1..Len(history[r][i]) BY <2>2, LenProperties
  <2> QED BY <2>1, <2>3, <2>4 DEF OutputsInv, TurnsInv, HistoryInv
<1> QED BY <1>1, DialogueInvariance, PTL

(* The seeds of two groups are apart: a group has as many as it has rows,  *)
(* under the default of one generation per gradient accumulation.          *)
LEMMA SeedsApart ==
    ASSUME args \in Args, args.steps_per_generation = args.gradient_accumulation,
           NEW r \in Ranks, NEW q \in Ranks, r \div args.tp < q \div args.tp
    PROVE  Seed(r) + args.tp * Rows <= Seed(q)
<1> DEFINE g == r \div args.tp
           h == q \div args.tp
           c == args.per_device * args.gradient_accumulation * args.tp
<1>1. /\ args.per_device \in Nat /\ args.gradient_accumulation \in Nat
      /\ args.tp \in Nat \ {0}
  BY ColocateAssumption
<1>2. r \in Nat /\ q \in Nat BY GroupFacts
<1>3. g \in Nat /\ h \in Nat /\ g < h BY <1>1, <1>2, DivMod
<1>4. c \in Nat /\ args.tp * Rows = c
  <2>1. \A a, b, d \in Nat : a * b * d \in Nat /\ d * (a * b) = a * b * d OBVIOUS
  <2> QED BY <1>1, <2>1 DEF Rows
<1>5. Seed(r) = c * g /\ Seed(q) = c * h BY DEF Seed
<1> HIDE DEF g, h, c
<1>6. (g + 1) * c <= h * c
  <2>1. g + 1 \in Nat /\ g + 1 <= h BY <1>3
  <2> QED BY <1>3, <1>4, <2>1, TimesMonotone
<1>7. (g + 1) * c = c * g + c /\ h * c = c * h BY <1>3, <1>4
<1> QED BY <1>4, <1>5, <1>6, <1>7

(* No two completions of a prompt are drawn with one seed, in a group or   *)
(* in two, however far apart the processes are in their dialogues.         *)
THEOREM SeedsAreDistinct == Spec => []DistinctSeeds
<1>1. DialogueType /\ DialogueInv => DistinctSeeds
  <2> SUFFICES ASSUME DialogueType, DialogueInv, args.tp > 1,
                      args.steps_per_generation = args.gradient_accumulation,
                      NEW r \in Ranks, NEW q \in Ranks,
                      NEW k \in DOMAIN outputs[r], NEW l \in DOMAIN outputs[q],
                      outputs[r][k].seed = outputs[q][l].seed
               PROVE  r = q /\ k = l
    BY DEF DistinctSeeds
  <2>0. args \in Args /\ outputs[r] \in Seq(Completion) /\ outputs[q] \in Seq(Completion)
    BY DEF DialogueType
  <2>1. k \in 1..Len(outputs[r]) /\ l \in 1..Len(outputs[q]) BY <2>0, LenProperties
  <2>2. /\ Seed(r) \in Nat /\ Seed(q) \in Nat /\ args.tp * Rows \in Nat
        /\ args.tp \in Nat \ {0}
    BY <2>0, RowsFacts
  <2>3. outputs[r][k].seed \in Int /\ outputs[q][l].seed \in Int
    <3>1. outputs[r][k] \in Completion /\ outputs[q][l] \in Completion BY <2>0, <2>1, LenFacts
    <3> QED BY <3>1 DEF Completion
  <2>4. /\ Seed(r) <= outputs[r][k].seed /\ outputs[r][k].seed < Seed(r) + args.tp * Rows
        /\ Seed(q) <= outputs[q][l].seed /\ outputs[q][l].seed < Seed(q) + args.tp * Rows
    BY <2>1 DEF DialogueInv, SeedsInv
  <2>5. r \div args.tp = q \div args.tp
    <3>1. r \div args.tp \in Nat /\ q \div args.tp \in Nat
      <4>1. r \in Nat /\ q \in Nat BY <2>0, GroupFacts
      <4> QED BY <2>2, <4>1, DivMod
    <3> DEFINE a == Seed(r)
               b == Seed(q)
               c == args.tp * Rows
               x == outputs[r][k].seed
               y == outputs[q][l].seed
    <3>2. /\ r \div args.tp < q \div args.tp => a + c <= b
          /\ q \div args.tp < r \div args.tp => b + c <= a
      BY <2>0, SeedsApart
    <3>3. /\ a \in Nat /\ b \in Nat /\ c \in Nat /\ x \in Int /\ y \in Int /\ x = y
          /\ a <= x /\ x < a + c /\ b <= y /\ y < b + c
      BY <2>2, <2>3, <2>4
    <3> HIDE DEF a, b, c, x, y
    <3>4. ~(a + c <= b) /\ ~(b + c <= a) BY <3>3
    <3> QED BY <3>1, <3>2, <3>4
  <2> QED BY <2>1, <2>5 DEF DialogueInv, SeedsInv
<1> QED BY <1>1, DialogueInvariance, PTL
=============================================================================
